-------------------------- MODULE IkdRebuildProofs --------------------------
(***************************************************************************)
(* What holds of IkdRebuild for every number of search threads, every two  *)
(* sons and every set of boxes: the map is right whenever the mapping      *)
(* thread is between operations (MapRight), and no search meets the        *)
(* rebuild but where the mapping thread has no lock (WalksExcluded).       *)
(* IInv, the inductive invariant, has one part per thing that keeps the    *)
(* threads apart.                                                          *)
(***************************************************************************)
EXTENDS IkdRebuild, TLAPS, FiniteSetTheorems, SequenceTheorems

-----------------------------------------------------------------------------
(* The types: where each thread may be, and what each variable holds.      *)

Points == LeftPoints \cup RightPoints
All == Points \cup {FatherPoint}
Contents == [alive : SUBSET All, dead : SUBSET All]
Adds == [kind : {"add"}, point : Points]
Deletes == [kind : {"delete"}, box : Boxes]
Downs == [kind : {"downsample"}, box : Boxes, point : Points]
Finds == [kind : {"search"}, box : Boxes, point : Points]
Operations == Adds \cup Deletes \cup Downs

\* Flags are only ever pushed from a father that is deleted itself.
Pushes == [kind : {"push"}, tree_deleted : {TRUE}]
Logged == Operations \cup Pushes

MainPcs == {"idle", "push", "push_lock", "search", "search_lock", "searching",
            "root_lock", "visit", "visit_lock", "add", "unlogged", "searches", "join",
            "ended", "crashed"}

\* A search thread never pushes flags: see FlagInv.
SearchPcs == {"idle", "at_root", "at_father", "choose", "count", "inside"}
RebuildPcs == {"poll", "lock", "lock_search", "flatten", "copied", "drain",
               "lock_search_again", "swap", "swapped", "free", "ended", "crashed"}

PcOK == /\ pc = [t \in Threads |-> pc[t]]
        /\ pc["main"] \in MainPcs /\ pc["rebuild"] \in RebuildPcs
        /\ \A t \in Searchers : pc[t] \in SearchPcs

TreeOK == /\ tree \in [Sons -> Contents]
          /\ father \in [alive : BOOLEAN, tree_deleted : BOOLEAN, working_flag : BOOLEAN]
          /\ push_down \in [Sons -> BOOLEAN]

CopyOK == /\ Rebuild_Ptr \in Subtrees \cup {None} /\ slot \in Subtrees \cup {None}
          /\ Rebuild_Logger \in Seq(Logged)
          /\ copy \in Contents

OpOK == /\ op \in Operations \cup Finds \cup {[kind |-> None]}
        /\ todo \in {<<>>, <<"left">>, <<"right">>, <<"left", "right">>}

Walks == [root : BOOLEAN, son : Subtrees \cup {None}, counted : BOOLEAN, old : SUBSET Subtrees]
WalkOK == walk \in [Threads \ {"rebuild"} -> Walks]

TypeOK == PcOK /\ TreeOK /\ CopyOK /\ OpOK /\ WalkOK

-----------------------------------------------------------------------------
(* Where the rebuild stands.                                               *)

Rebuilding == pc["rebuild"] \in {"lock_search", "flatten", "copied", "drain",
                                 "lock_search_again", "swap", "swapped"}

\* The rebuild thread works on the subtree Rebuild_Ptr names, under both of
\* its mutexes but while it drains the log.
RebuildInv ==
    /\ Rebuilding => slot \in Subtrees /\ Rebuild_Ptr = slot /\ rebuild_flag
    /\ pc["rebuild"] = "free" => slot \in Subtrees /\ Rebuild_Ptr = None
    /\ pc["rebuild"] \in {"poll", "lock"} => slot = None
    /\ Rebuilding \/ pc["rebuild"] \in {"lock", "free"} => rebuild_ptr_mutex
    /\ Rebuilding /\ pc["rebuild"] # "drain" => working_mutex

\* search_mutex_counter counts the searches inside, or is -1 and there are none.
KeepsOut == pc["rebuild"] \in {"flatten", "copied", "swap", "swapped"}
Counted == {t \in Searchers : walk[t].counted}

CountInv == /\ search_mutex_counter = IF KeepsOut THEN -1 ELSE Cardinality(Counted)
            /\ KeepsOut => Counted = {}

\* A search thread is in the subtree being rebuilt only as one of the counted.
SearcherInv(t) ==
    /\ pc[t] \in {"idle", "at_root"} => walk[t] = NoWalk
    /\ pc[t] \in {"at_father", "choose"} =>
         /\ walk[t].root /\ walk[t].son = None
         /\ walk[t].counted => Rebuild_Ptr \in {"root", None}
    /\ pc[t] = "count" =>
         /\ ~walk[t].counted /\ walk[t].son \in Subtrees /\ Rebuild_Ptr \in {walk[t].son, None}
         /\ walk[t].root <=> walk[t].son # "root"
    /\ pc[t] = "inside" =>
         /\ walk[t].root /\ walk[t].son # "root"
         /\ walk[t].son = Rebuild_Ptr /\ Rebuild_Ptr # None => walk[t].counted
    /\ walk[t].root /\ Rebuild_Ptr = "root" => walk[t].counted
    /\ walk[t].old = {}

\* The mapping thread is in a son that is being rebuilt only with
\* search_flag_mutex, which makes the rebuild thread wait with the old nodes.
Finding == pc["main"] \in {"push", "push_lock"} /\ op.kind = "search"

MainWalkInv ==
    /\ pc["main"] \notin {"search", "search_lock", "searching", "unlogged", "crashed"} =>
         walk["main"] = NoWalk \/ (Finding /\ walk["main"].son = None)
    /\ pc["main"] = "searching" => walk["main"].son \in Sons
    /\ pc["main"] \in {"search", "search_lock"} =>
         walk["main"].son = None \/ (walk["main"].son = "root" /\ todo = <<>>)
    /\ pc["main"] = "search_lock" => todo # <<>>
    /\ pc["main"] = "unlogged" => walk["main"].son = None
    /\ walk["main"].son = None => walk["main"].old \subseteq {"root"}
    /\ pc["main"] = "searching" /\ walk["main"].son = Rebuild_Ptr => search_flag_mutex
    /\ walk["main"].son \in Sons /\ walk["main"].old # {} /\ "root" \notin walk["main"].old =>
         pc["rebuild"] = "swapped" /\ walk["main"].son = Rebuild_Ptr

WalkInv == /\ pc["main"] # "searches" => \A t \in Searchers : pc[t] = "idle"
           /\ \A t \in Searchers : SearcherInv(t)
           /\ MainWalkInv

\* Flags are pending only below a deleted father, which an operation works
\* on (working_flag keeps Swap from refreshing it); they are pushed before a
\* son is visited; and no operation begins, without the lock, under a root
\* that is being rebuilt.
Passing == pc["main"] \in {"push", "push_lock", "visit", "visit_lock"} /\ op.kind # "search"

FlagInv ==
    /\ \A s \in Sons : push_down[s] => father.tree_deleted /\ father.working_flag
    /\ pc["main"] \in {"visit", "visit_lock"} =>
         op.kind # "search" /\ \A s \in Sons : ~push_down[s]
    /\ Passing => father.working_flag /\ Rebuild_Ptr # "root"
    /\ pc["main"] \in {"root_lock", "unlogged"} => Rebuild_Ptr \in {"root", None}
    /\ pc["main"] = "push_lock" =>
         \E s \in Sons : /\ push_down[s] /\ (s = "right" => ~push_down["left"])
                         /\ Rebuild_Ptr \in {None, s}
    /\ pc["main"] = "visit_lock" => todo # <<>> /\ Rebuild_Ptr \in {None, Head(todo)}

-----------------------------------------------------------------------------
(* What the tree holds while an operation is half done.                    *)

\* What the mapping thread has still to do: all of it, the sons, or nothing.
Due == CASE pc["main"] \in {"push", "push_lock"} /\ op.kind # "search" -> "all"
         [] pc["main"] \in {"visit", "visit_lock"} -> "sons"
         [] OTHER -> "none"

OpInv ==
    /\ Due # "none" =>
        /\ op \in Operations
        /\ op.kind = "add" => todo \in {<<>>, <<SideOf(op.point)>>}
        /\ Due = "all" => todo = SonsOf(op)
    /\ pc["main"] = "root_lock" => op \in Operations
    /\ pc["main"] \in {"add", "unlogged"} => op \in Downs
    /\ pc["main"] \in {"push", "push_lock"} => op \in Operations \cup Finds
    /\ pc["main"] \in {"search", "search_lock", "searching"} => op \in Finds

\* What an operation makes of the points that are alive.
Applied(o, A) == CASE o.kind = "add"  -> A \cup {o.point}
                   [] o.kind \in {"delete", "downsample"} -> A \ o.box
                   [] o.kind = "push" -> {}

\* The points of a son, of the whole tree and of what is being rebuilt.
Visible(s) == IF push_down[s] THEN {} ELSE tree[s].alive
Whole == Visible("left") \cup Visible("right") \cup OfFather
Target == IF slot = "root" THEN Whole ELSE tree[slot].alive

\* The entries of a log, one after the other, lead from the points A to B.
Replay(os, A, B) ==
    \E h \in [0 .. Len(os) -> SUBSET All] :
        /\ h[0] = A /\ h[Len(os)] = B
        /\ \A i \in 1 .. Len(os) : h[i] = Applied(os[i], h[i - 1])
Replayed == Replay(Rebuild_Logger, copy.alive, Target)

\* Replaying the log on the copy gives the old subtree.
Good == ~confused /\ ~unlogged
LogInv == Good =>
    /\ Rebuilding /\ pc["rebuild"] \notin {"drain", "swapped"} => Rebuild_Logger = <<>>
    /\ pc["rebuild"] \in {"copied", "lock_search_again", "swap"} => copy.alive = Target
    /\ pc["rebuild"] = "drain" => Replayed

InTodo(s) == \E i \in 1 .. Len(todo) : todo[i] = s

\* A son holds its share of the map, but for the operation that has not
\* reached it.
SonInv(s) ==
    /\ Visible(s) \subseteq PointsOf(s)
    /\ live \cap PointsOf(s) = IF Due # "none" /\ InTodo(s)
                               THEN Applied(op, Visible(s)) ELSE Visible(s)

MapInv == Good =>
    /\ live \subseteq All
    /\ \A s \in Sons : SonInv(s)
    /\ FatherPoint \in live <=>
         father.alive /\ ~(Due = "all" /\ Removes(op, FatherPoint))

IInv == TypeOK /\ RebuildInv /\ CountInv /\ WalkInv /\ FlagInv /\ OpInv /\ LogInv /\ MapInv

-----------------------------------------------------------------------------
(* The operators.                                                          *)

\* run_operation does to the points alive what Applied says.
LEMMA RunOperation ==
    ASSUME NEW c \in Contents, NEW o \in Logged
    PROVE  /\ run_operation(c, o) \in Contents
           /\ run_operation(c, o).alive = Applied(o, c.alive)
<1>1. CASE o \in Adds
    BY <1>1 DEF Adds, Contents, Content, run_operation, Applied, All
<1>2. CASE o \in Deletes
    BY <1>2 DEF Deletes, Contents, Content, run_operation, Applied
<1>3. CASE o \in Downs
    BY <1>3 DEF Downs, Contents, Content, run_operation, Applied
<1>4. CASE o \in Pushes
    BY <1>4 DEF Pushes, Contents, Content, run_operation, Applied
<1> QED
    BY <1>1, <1>2, <1>3, <1>4 DEF Logged, Operations

\* An operation on a son in place, logged or not, changes that son only.
LEMMA OnSon ==
    ASSUME tree \in [Sons -> Contents], NEW s \in Sons, NEW o \in Logged,
           tree' = [tree EXCEPT ![s] = run_operation(@, o)]
    PROVE  /\ tree' \in [Sons -> Contents]
           /\ tree'[s].alive = Applied(o, tree[s].alive)
           /\ \A r \in Sons \ {s} : tree'[r] = tree[r]
<1>1. run_operation(tree[s], o) \in Contents
    BY RunOperation
<1>2. run_operation(tree[s], o).alive = Applied(o, tree[s].alive)
    BY RunOperation
<1> QED
    BY <1>1, <1>2

\* An operation on both sons; an addition reaches its own.
LEMMA OnSons ==
    ASSUME NEW t \in [Sons -> Contents], NEW o \in Operations
    PROVE  /\ Below(o, t) \in [Sons -> Contents]
           /\ \A s \in Sons :
                Below(o, t)[s].alive = IF o.kind = "add" /\ s # SideOf(o.point)
                                       THEN t[s].alive ELSE Applied(o, t[s].alive)
<1>1. o \in Logged
    BY DEF Logged
<1>2. \A s \in Sons : /\ run_operation(t[s], o) \in Contents
                      /\ run_operation(t[s], o).alive = Applied(o, t[s].alive)
    BY <1>1, RunOperation
<1> QED
    BY <1>2 DEF Below

\* The flags that are pushed down say deleted.
LEMMA PushOpLogged ==
    ASSUME FlagInv, NEW s \in Sons, push_down[s]
    PROVE  PushOp \in Pushes /\ PushOp \in Logged
    BY DEF FlagInv, PushOp, Pushes, Logged

\* Pushing all flags leaves what is visible.
LEMMA SettledSons ==
    ASSUME TreeOK, FlagInv
    PROVE  /\ Settled \in [Sons -> Contents]
           /\ \A s \in Sons : Settled[s].alive = Visible(s)
<1>1. ASSUME NEW s \in Sons, push_down[s]
      PROVE  run_operation(tree[s], PushOp) \in Contents
             /\ run_operation(tree[s], PushOp).alive = {}
    BY <1>1, PushOpLogged, RunOperation DEF TreeOK, Applied, Pushes
<1> QED
    BY <1>1 DEF Settled, Visible, TreeOK

\* What a search finds is the points of the whole tree.
LEMMA HeldIsWhole ==
    ASSUME FlagInv
    PROVE  Held = Whole /\ \A s \in Sons : Shown(s) = Visible(s)
    BY DEF FlagInv, Held, Whole, Shown, Visible, Sons

\* Whole and the copies are sets of points of the tree.
LEMMA WholeType ==
    ASSUME TreeOK, CopyOK
    PROVE  /\ Whole \subseteq All
           /\ slot \in Subtrees => Target \subseteq All
    BY DEF TreeOK, Contents, Whole, Visible, OfFather, All, Target, Sons, Subtrees

\* An addition goes to a son.
LEMMA OpFacts ==
    ASSUME NEW o \in Operations
    PROVE  /\ o.kind \in {"add", "delete", "downsample"} /\ o \in Logged
           /\ o.kind = "add" => o \in Adds /\ o.point \in Points /\ SideOf(o.point) \in Sons
           /\ o.kind = "downsample" => o \in Downs /\ o.point \in Points
           /\ SonsOf(o) \in {<<>>, <<"left">>, <<"right">>, <<"left", "right">>}
    BY DEF Operations, Adds, Deletes, Downs, SideOf, Sons, Logged, SonsOf

\* What an addition is.
LEMMA AddOfType ==
    ASSUME NEW p \in Points
    PROVE  AddOf(p) \in Operations /\ AddOf(p).kind = "add" /\ AddOf(p).point = p
    BY DEF AddOf, Operations, Adds

-----------------------------------------------------------------------------
(* The steps of the threads.                                               *)

\* What a thread's step does to the pcs.
LEMMA Stays ==
    ASSUME PcOK, pc' = pc
    PROVE  PcOK'
    BY DEF PcOK

\* Where a step takes the mapping thread; the others stay where they are.
LEMMA MainGoes ==
    ASSUME PcOK, NEW l \in MainPcs, Goto("main", l)
    PROVE  /\ PcOK' /\ pc'["main"] = l /\ pc'["rebuild"] = pc["rebuild"]
           /\ \A t \in Searchers : pc'[t] = pc[t]
<1>1. pc'["main"] = l /\ pc'["rebuild"] = pc["rebuild"]
    BY DEF PcOK, Goto, Threads
<1>2. ASSUME NEW t \in Searchers PROVE pc'[t] = pc[t]
    BY IkdRebuildAssumption DEF PcOK, Goto, Threads
<1>3. pc' = [t \in Threads |-> pc'[t]]
    BY DEF PcOK, Goto, Threads
<1> QED
    BY <1>1, <1>2, <1>3 DEF PcOK

\* The same for the rebuild thread.
LEMMA RebuilderGoes ==
    ASSUME PcOK, NEW l \in RebuildPcs, Goto("rebuild", l)
    PROVE  /\ PcOK' /\ pc'["rebuild"] = l /\ pc'["main"] = pc["main"]
           /\ \A t \in Searchers : pc'[t] = pc[t]
<1>1. pc'["rebuild"] = l /\ pc'["main"] = pc["main"]
    BY DEF PcOK, Goto, Threads
<1>2. ASSUME NEW t \in Searchers PROVE pc'[t] = pc[t]
    BY IkdRebuildAssumption DEF PcOK, Goto, Threads
<1>3. pc' = [t \in Threads |-> pc'[t]]
    BY DEF PcOK, Goto, Threads
<1> QED
    BY <1>1, <1>2, <1>3 DEF PcOK

\* The same for a search thread.
LEMMA SearcherGoes ==
    ASSUME PcOK, NEW u \in Searchers, NEW l \in SearchPcs, Goto(u, l)
    PROVE  /\ PcOK' /\ pc'["rebuild"] = pc["rebuild"] /\ pc'["main"] = pc["main"]
           /\ pc'[u] = l /\ \A t \in Searchers \ {u} : pc'[t] = pc[t]
<1>1. pc'["main"] = pc["main"] /\ pc'["rebuild"] = pc["rebuild"] /\ pc'[u] = l
    BY IkdRebuildAssumption DEF PcOK, Goto, Threads
<1>2. ASSUME NEW t \in Searchers \ {u} PROVE pc'[t] = pc[t]
    BY IkdRebuildAssumption DEF PcOK, Goto, Threads
<1>3. pc' = [t \in Threads |-> pc'[t]]
    BY DEF PcOK, Goto, Threads
<1> QED
    BY <1>1, <1>2, <1>3 DEF PcOK

\* Whose step it is; a search thread that looks at the father never finds
\* flags to push, for FlagInv makes it turn back before.
SearchStep(t) == \/ Nearest_Search(t) \/ EnterFather(t) \/ CountIn(t) \/ CountOut(t)
                 \/ \E s \in Sons : Search(t, s)

\* A step is one of a single thread, or changes nothing.
LEMMA NextCases ==
    ASSUME PcOK, [Next]_vars
    PROVE  \/ Main
           \/ Rebuilder /\ pc["main"] # "crashed"
           \/ \E t \in Searchers : SearchStep(t)
           \/ UNCHANGED vars
<1>1. ASSUME NEW t \in Searchers, Searcher(t) PROVE SearchStep(t)
    BY <1>1 DEF Searcher, SearchStep, Push_Down, Push_Down_Locked, Pushed, PcOK, SearchPcs
<1> QED
    BY <1>1, Zenon DEF Next, Ended, Running

\* The walk of a thread changes, the others keep theirs.
LEMMA WalkType ==
    ASSUME WalkOK, NEW u \in Searchers \cup {"main"}, NEW w \in Walks,
           walk' = [walk EXCEPT ![u] = w]
    PROVE  /\ WalkOK' /\ walk'[u] = w
           /\ \A t \in (Searchers \cup {"main"}) \ {u} : walk'[t] = walk[t]
<1>1. u \in Threads \ {"rebuild"} /\ Searchers \cup {"main"} = Threads \ {"rebuild"}
    BY IkdRebuildAssumption DEF Threads
<1> QED
    BY <1>1 DEF WalkOK

\* The walk of each thread.
LEMMA WalkOf ==
    ASSUME WalkOK, NEW u \in Searchers \cup {"main"}
    PROVE  /\ walk[u] \in Walks /\ NoWalk \in Walks
           /\ AtRoot(FALSE) \in Walks /\ AtRoot(TRUE) \in Walks
<1>1. u \in Threads \ {"rebuild"}
    BY IkdRebuildAssumption DEF Threads
<1>2. NoWalk \in Walks
    BY DEF NoWalk, Walks
<1>3. \A c \in BOOLEAN : AtRoot(c) \in Walks
    BY DEF AtRoot, Walks
<1> QED
    BY <1>1, <1>2, <1>3 DEF WalkOK

\* What the mapping thread leaves alone.
MainKeeps ==
    /\ pc'["rebuild"] = pc["rebuild"]
    /\ UNCHANGED <<rebuild_flag, slot, copy, rebuild_ptr_mutex, working_mutex,
                   search_mutex_counter, confused>>
    /\ unlogged => unlogged'
    /\ Rebuild_Ptr' = Rebuild_Ptr \/ ~rebuild_ptr_mutex
    /\ StartSearches \/ \A t \in Searchers : pc'[t] = pc[t]

\* The mapping thread leaves the other threads alone.
LEMMA MainFrame ==
    ASSUME PcOK, Main
    PROVE  PcOK' /\ MainKeeps
<1>1. ASSUME NEW p \in Points, Add_Points(p) PROVE PcOK' /\ MainKeeps
    BY <1>1, MainGoes, Stays
    DEF Add_Points, Operate, BeginPass, MainKeeps, MainPcs, MayRebuild, tvars, rvars, mvars,
        mutexes, history
<1>2. ASSUME NEW p \in Points, NEW voxel \in Boxes, Add_Points_Downsampled(p, voxel)
      PROVE  PcOK' /\ MainKeeps
    BY <1>2, MainGoes, Stays
    DEF Add_Points_Downsampled, MainKeeps, MainPcs, MayRebuild, tvars, rvars, mvars, mutexes,
        history
<1>3. ASSUME NEW box \in Boxes, Delete_Point_Boxes(box) PROVE PcOK' /\ MainKeeps
    BY <1>3, MainGoes, Stays
    DEF Delete_Point_Boxes, Operate, BeginPass, MainKeeps, MainPcs, MayRebuild, tvars, rvars,
        mvars, mutexes, history
<1>4. CASE EnterSons
    BY <1>4, MainGoes, Stays
    DEF EnterSons, MainKeeps, MainPcs, MayRebuild, tvars, rvars, mvars, mutexes, history
<1>5. ASSUME NEW s \in Sons, Search_by_range(s) PROVE PcOK' /\ MainKeeps
    BY <1>5, MainGoes, Stays
    DEF Search_by_range, MainKeeps, MainPcs, MayRebuild, tvars, rvars, mvars, mutexes, history
<1>6. CASE LockSearch
    BY <1>6, MainGoes, Stays
    DEF LockSearch, MainKeeps, MainPcs, MayRebuild, tvars, rvars, mvars, mutexes, history
<1>7. CASE EndSearch_by_range
    BY <1>7, MainGoes, Stays
    DEF EndSearch_by_range, MainKeeps, MainPcs, MayRebuild, tvars, rvars, mvars, mutexes, history
<1>8. CASE Downsample
    BY <1>8, MainGoes, Stays
    DEF Downsample, Operate, BeginPass, MainKeeps, MainPcs, MayRebuild, tvars, rvars, mvars,
        mutexes, history
<1>9. CASE WalkFreed
    BY <1>9, MainGoes, Stays
    DEF WalkFreed, MainKeeps, MainPcs, MayRebuild, tvars, rvars, mvars, mutexes, history
<1>10. ASSUME NEW s \in Sons, Push_Down("main", s) PROVE PcOK' /\ MainKeeps
    BY <1>10, MainGoes, Stays
    DEF Push_Down, MainKeeps, MainPcs, MayRebuild, tvars, rvars, mvars, mutexes, history
<1>11. ASSUME NEW s \in Sons, Push_Down_Locked("main", s) PROVE PcOK' /\ MainKeeps
    BY <1>11, MainGoes, Stays
    DEF Push_Down_Locked, MainKeeps, MainPcs, MayRebuild, tvars, rvars, mvars, mutexes, history
<1>12. CASE AtFather
    BY <1>12, MainGoes, Stays
    DEF AtFather, MainKeeps, MainPcs, MayRebuild, tvars, rvars, mvars, mutexes, history
<1>13. ASSUME NEW s \in Sons, Visit(s) PROVE PcOK' /\ MainKeeps
    BY <1>13, MainGoes, Stays
    DEF Visit, MainKeeps, MainPcs, MayRebuild, tvars, rvars, mvars, mutexes, history
<1>14. ASSUME NEW s \in Sons, VisitLocked(s) PROVE PcOK' /\ MainKeeps
    BY <1>14, MainGoes, Stays
    DEF VisitLocked, MainKeeps, MainPcs, MayRebuild, tvars, rvars, mvars, mutexes, history
<1>15. CASE Return
    BY <1>15, MainGoes, Stays
    DEF Return, MainKeeps, MainPcs, MayRebuild, tvars, rvars, mvars, mutexes, history
<1>16. CASE AddKept
    BY <1>16, MainGoes, Stays
    DEF AddKept, BeginPass, MainKeeps, MainPcs, MayRebuild, tvars, rvars, mvars, mutexes, history
<1>17. CASE EndUnlogged
    BY <1>17, MainGoes, Stays
    DEF EndUnlogged, MainKeeps, MainPcs, MayRebuild, tvars, rvars, mvars, mutexes, history
<1>18. CASE RootLocked
    BY <1>18, MainGoes, Stays
    DEF RootLocked, MainKeeps, MainPcs, MayRebuild, tvars, rvars, mvars, mutexes, history
<1>19. CASE RootFlagged
    BY <1>19, MainGoes, Stays
    DEF RootFlagged, MainKeeps, MainPcs, MayRebuild, tvars, rvars, mvars, mutexes, history
<1>20. CASE StartSearches
    BY <1>20, IkdRebuildAssumption
    DEF StartSearches, MainKeeps, MainPcs, tvars, rvars, mutexes, PcOK, SearchPcs, RebuildPcs,
        Threads, history
<1>21. CASE EndSearches
    BY <1>21, MainGoes, Stays
    DEF EndSearches, MainKeeps, MainPcs, MayRebuild, tvars, rvars, mvars, mutexes, history
<1>22. CASE stop_thread
    BY <1>22, MainGoes, Stays
    DEF stop_thread, MainKeeps, MainPcs, MayRebuild, tvars, rvars, mvars, mutexes, history
<1>23. CASE Join
    BY <1>23, MainGoes, Stays
    DEF Join, MainKeeps, MainPcs, MayRebuild, tvars, rvars, mvars, mutexes, history
<1> QED
    BY <1>1, <1>2, <1>3, <1>4, <1>5, <1>6, <1>7, <1>8, <1>9, <1>10, <1>11, <1>12, <1>13, <1>14,
       <1>15, <1>16, <1>17, <1>18, <1>19, <1>20, <1>21, <1>22, <1>23
    DEF Main, Points

\* What the rebuild thread leaves alone.
RebuilderKeeps ==
    /\ pc'["main"] = pc["main"] /\ \A t \in Searchers : pc'[t] = pc[t]
    /\ UNCHANGED <<op, todo, live, search_flag_mutex, unlogged>>
    /\ confused => confused'
    /\ Rebuild_Ptr' \in {Rebuild_Ptr, None}
    /\ walk' = walk \/ Swap

\* The rebuild thread changes neither op, todo nor live.
LEMMA RebuilderFrame ==
    ASSUME PcOK, Rebuilder
    PROVE  PcOK' /\ RebuilderKeeps
<1>1. CASE Poll
    BY <1>1, RebuilderGoes, Stays
    DEF Poll, RebuilderKeeps, RebuildPcs, tvars, rvars, mvars, mutexes, history
<1>2. CASE Begin
    BY <1>2, RebuilderGoes, Stays
    DEF Begin, RebuilderKeeps, RebuildPcs, tvars, rvars, mvars, mutexes, history
<1>3. CASE LockSearches("lock_search", "flatten")
    BY <1>3, RebuilderGoes, Stays
    DEF LockSearches, RebuilderKeeps, RebuildPcs, tvars, rvars, mvars, mutexes, history
<1>4. CASE LockSearches("lock_search_again", "swap")
    BY <1>4, RebuilderGoes, Stays
    DEF LockSearches, RebuilderKeeps, RebuildPcs, tvars, rvars, mvars, mutexes, history
<1>5. CASE Flatten
    BY <1>5, RebuilderGoes, Stays
    DEF Flatten, RebuilderKeeps, RebuildPcs, tvars, rvars, mvars, mutexes, history
<1>6. CASE Copied
    BY <1>6, RebuilderGoes, Stays
    DEF Copied, RebuilderKeeps, RebuildPcs, tvars, rvars, mvars, mutexes, history
<1>7. CASE Drain
    BY <1>7, RebuilderGoes, Stays
    DEF Drain, RebuilderKeeps, RebuildPcs, tvars, rvars, mvars, mutexes, history
<1>8. CASE Swap
    BY <1>8, RebuilderGoes, Stays
    DEF Swap, RebuilderKeeps, RebuildPcs, tvars, rvars, mvars, mutexes, history
<1>9. CASE Swapped
    BY <1>9, RebuilderGoes, Stays
    DEF Swapped, RebuilderKeeps, RebuildPcs, tvars, rvars, mvars, mutexes, history
<1>10. CASE Free
    BY <1>10, RebuilderGoes, Stays
    DEF Free, RebuilderKeeps, RebuildPcs, tvars, rvars, mvars, mutexes, history
<1> QED
    BY <1>1, <1>2, <1>3, <1>4, <1>5, <1>6, <1>7, <1>8, <1>9, <1>10 DEF Rebuilder

\* What a search thread leaves alone.
SearcherKeeps(u) ==
    /\ pc'["rebuild"] = pc["rebuild"] /\ pc'["main"] = pc["main"]
    /\ \A t \in Searchers \ {u} : pc'[t] = pc[t]
    /\ UNCHANGED <<tvars, rvars, op, todo, live, rebuild_ptr_mutex, working_mutex,
                   search_flag_mutex, history>>

\* A search thread changes its own walk, the count and the mutexes only.
LEMMA SearcherFrame ==
    ASSUME PcOK, FlagInv, NEW u \in Searchers, SearchStep(u)
    PROVE  PcOK' /\ SearcherKeeps(u)
<1>1. CASE Nearest_Search(u)
    BY <1>1, SearcherGoes DEF Nearest_Search, SearcherKeeps, SearchPcs, mvars, mutexes
<1>2. CASE EnterFather(u)
    BY <1>2, SearcherGoes DEF EnterFather, FlagInv, SearcherKeeps, SearchPcs, mvars
<1>3. CASE CountIn(u)
    BY <1>3, SearcherGoes DEF CountIn, SearcherKeeps, SearchPcs, mvars
<1>4. CASE CountOut(u)
    BY <1>4, SearcherGoes DEF CountOut, SearcherKeeps, SearchPcs, mvars
<1>5. ASSUME NEW s \in Sons, Search(u, s) PROVE PcOK' /\ SearcherKeeps(u)
    BY <1>5, SearcherGoes DEF Search, SearcherKeeps, SearchPcs, mvars, mutexes
<1> QED
    BY <1>1, <1>2, <1>3, <1>4, <1>5 DEF SearchStep

-----------------------------------------------------------------------------
(* The types.                                                              *)

\* An operation on the tree itself keeps the tree's type.
LEMMA DirectType ==
    ASSUME TreeOK, CopyOK, NEW s \in Sons, NEW o \in Logged, Direct(s, o)
    PROVE  tree' \in [Sons -> Contents] /\ Rebuild_Logger' = Rebuild_Logger
    BY OnSon DEF Direct, TreeOK

\* What is logged keeps the log's type.
LEMMA LogType ==
    ASSUME CopyOK, NEW os \in Seq(Logged), Log(os)
    PROVE  Rebuild_Logger' \in Seq(Logged)
    BY DEF CopyOK, Log

\* One on a subtree that is rebuilt is logged as well.
LEMMA LockedType ==
    ASSUME TreeOK, CopyOK, NEW s \in Sons, NEW o \in Logged, Locked(s, o)
    PROVE  tree' \in [Sons -> Contents] /\ Rebuild_Logger' \in Seq(Logged)
<1>1. tree' \in [Sons -> Contents]
    BY OnSon DEF Locked, TreeOK
<1>2. <<o>> \in Seq(Logged)
    OBVIOUS
<1> QED
    BY <1>1, <1>2, LogType DEF Locked

\* The son the mapping thread goes to next, and those after it.
LEMMA NextSon ==
    ASSUME OpOK, todo # <<>>
    PROVE  /\ Head(todo) \in Sons
           /\ Tail(todo) \in {<<>>, <<"left">>, <<"right">>, <<"left", "right">>}
<1>1. CASE todo = <<"left">>
    BY <1>1 DEF Sons
<1>2. CASE todo = <<"right">>
    BY <1>2 DEF Sons
<1>3. CASE todo = <<"left", "right">>
    BY <1>3 DEF Sons
<1> QED
    BY <1>1, <1>2, <1>3 DEF OpOK

\* What a rebuild may be asked for.
LEMMA MayRebuildType ==
    ASSUME CopyOK, NEW x \in Subtrees, MayRebuild(x)
    PROVE  Rebuild_Ptr' \in Subtrees \cup {None}
    BY DEF CopyOK, MayRebuild

\* An operation that begins, now or under the lock, is of the right type.
LEMMA OperateType ==
    ASSUME OpOK, TreeOK, NEW o \in Operations, Operate(o) \/ BeginPass(o)
    PROVE  OpOK' /\ father' \in [alive : BOOLEAN, tree_deleted : BOOLEAN, working_flag : BOOLEAN]
    BY OpFacts DEF Operate, BeginPass, OpOK, TreeOK

\* What a pass or a look at the sons leaves of the father.
LEMMA FatherType ==
    ASSUME TreeOK, NEW f \in [alive : BOOLEAN, tree_deleted : BOOLEAN, working_flag : BOOLEAN],
           NEW t
    PROVE  /\ Update(f, t) \in [alive : BOOLEAN, tree_deleted : BOOLEAN, working_flag : BOOLEAN]
           /\ Update(f, t).alive = f.alive
           /\ Update(f, t).working_flag = f.working_flag
    BY DEF Update

\* Which operation a downsampling decides on.
LEMMA DownsampleOp ==
    ASSUME NEW o \in Finds
    PROVE  /\ o.box \in Boxes /\ o.point \in Points
           /\ [o EXCEPT !.kind = "downsample"] \in Downs
    BY DEF Finds, Downs

\* An addition changes its son only.
LEMMA AddSons ==
    ASSUME NEW t \in [Sons -> Contents], NEW p \in Points
    PROVE  /\ Below(AddOf(p), t) \in [Sons -> Contents]
           /\ \A s \in Sons : Below(AddOf(p), t)[s].alive =
                 IF s = SideOf(p) THEN t[s].alive \cup {p} ELSE t[s].alive
<1>1. AddOf(p) \in Operations /\ AddOf(p).kind = "add" /\ AddOf(p).point = p
    BY AddOfType
<1>2. /\ Below(AddOf(p), t) \in [Sons -> Contents]
      /\ \A s \in Sons : Below(AddOf(p), t)[s].alive =
            IF AddOf(p).kind = "add" /\ s # SideOf(AddOf(p).point)
            THEN t[s].alive ELSE Applied(AddOf(p), t[s].alive)
    BY <1>1, OnSons
<1>3. \A A : Applied(AddOf(p), A) = A \cup {p}
    BY <1>1 DEF Applied
<1> QED
    BY <1>1, <1>2, <1>3

\* The sons and the log under the lock of the root.
LEMMA RootLockedSons ==
    ASSUME TypeOK, FlagInv, OpInv, RootLocked
    PROVE  /\ op \in Operations /\ tree' \in [Sons -> Contents]
           /\ Rebuild_Logger' \in Seq(Logged)
           /\ \A s \in Sons :
                tree'[s].alive =
                    CASE op.kind = "add"        -> IF s = SideOf(op.point)
                                                   THEN Visible(s) \cup {op.point} ELSE Visible(s)
                      [] op.kind = "delete"     -> Visible(s) \ op.box
                      [] op.kind = "downsample" -> IF s = SideOf(op.point)
                                                   THEN (Visible(s) \ op.box) \cup {op.point}
                                                   ELSE Visible(s) \ op.box
<1>1. op \in Operations /\ op \in Logged
    BY OpFacts DEF RootLocked, OpInv
<1>2. Settled \in [Sons -> Contents] /\ \A s \in Sons : Settled[s].alive = Visible(s)
    BY SettledSons DEF TypeOK
<1>3. /\ Below(op, Settled) \in [Sons -> Contents]
      /\ \A s \in Sons : Below(op, Settled)[s].alive =
            IF op.kind = "add" /\ s # SideOf(op.point)
            THEN Settled[s].alive ELSE Applied(op, Settled[s].alive)
    BY <1>1, <1>2, OnSons
<1>4. CASE op.kind = "downsample"
  <2>1. AddOf(op.point) \in Operations /\ AddOf(op.point).kind = "add"
        /\ AddOf(op.point).point = op.point
      BY <1>1, <1>4, OpFacts, AddOfType
  <2>2. tree' = Below(AddOf(op.point), Below(op, Settled)) /\ Log(<<op, AddOf(op.point)>>)
      BY <1>4 DEF RootLocked
  <2>3. /\ tree' \in [Sons -> Contents]
        /\ \A s \in Sons : tree'[s].alive =
              IF s # SideOf(op.point)
              THEN Below(op, Settled)[s].alive ELSE Below(op, Settled)[s].alive \cup {op.point}
    <3>1. op.point \in Points /\ Below(op, Settled) \in [Sons -> Contents]
        BY <1>1, <1>3, <1>4, OpFacts
    <3>2. /\ Below(AddOf(op.point), Below(op, Settled)) \in [Sons -> Contents]
          /\ \A s \in Sons : Below(AddOf(op.point), Below(op, Settled))[s].alive =
                IF s = SideOf(op.point) THEN Below(op, Settled)[s].alive \cup {op.point}
                ELSE Below(op, Settled)[s].alive
        BY <3>1, AddSons
    <3> QED
        BY <2>2, <3>2
  <2>4. <<op, AddOf(op.point)>> \in Seq(Logged)
      BY <1>1, <2>1, OpFacts
  <2>5. \A s \in Sons : Below(op, Settled)[s].alive = Visible(s) \ op.box
      BY <1>2, <1>3, <1>4 DEF Applied
  <2>6. Rebuild_Logger' \in Seq(Logged)
      BY <2>2, <2>4, LogType DEF TypeOK
  <2> QED
      BY <1>1, <1>4, <2>3, <2>5, <2>6
<1>5. CASE op.kind # "downsample"
  <2>1. tree' = Below(op, Settled) /\ Log(<<op>>)
      BY <1>5 DEF RootLocked
  <2>2. <<op>> \in Seq(Logged)
      BY <1>1
  <2>3. Rebuild_Logger' \in Seq(Logged)
      BY <2>1, <2>2, LogType DEF TypeOK
  <2> QED
      BY <1>1, <1>2, <1>3, <1>5, <2>1, <2>3, OpFacts DEF Applied
<1> QED
    BY <1>4, <1>5

\* The sons after an addition without the lock.
LEMMA UnloggedSons ==
    ASSUME TypeOK, FlagInv, OpInv, EndUnlogged, "root" \notin walk["main"].old
    PROVE  /\ op.point \in Points /\ tree' \in [Sons -> Contents]
           /\ \A s \in Sons : tree'[s].alive = IF s = SideOf(op.point)
                                               THEN Visible(s) \cup {op.point} ELSE Visible(s)
<1>1. op.point \in Points
    BY DEF EndUnlogged, OpInv, Downs
<1>2. tree' = Below(AddOf(op.point), Settled)
    BY DEF EndUnlogged
<1>3. Settled \in [Sons -> Contents] /\ \A s \in Sons : Settled[s].alive = Visible(s)
    BY SettledSons DEF TypeOK
<1>4. /\ Below(AddOf(op.point), Settled) \in [Sons -> Contents]
      /\ \A s \in Sons : Below(AddOf(op.point), Settled)[s].alive =
            IF s = SideOf(op.point) THEN Settled[s].alive \cup {op.point} ELSE Settled[s].alive
    BY <1>1, <1>3, AddSons
<1> QED
    BY <1>1, <1>2, <1>3, <1>4

\* Each step of the mapping thread keeps the types.
LEMMA MainType ==
    ASSUME TypeOK, FlagInv, OpInv, Main
    PROVE  TreeOK' /\ CopyOK' /\ OpOK'
<1>1. ASSUME NEW p \in Points, Add_Points(p) PROVE TreeOK' /\ CopyOK' /\ OpOK'
  <2>1. AddOf(p) \in Operations /\ Operate(AddOf(p))
      BY <1>1, AddOfType DEF Add_Points
  <2> QED
      BY <1>1, <2>1, OperateType DEF Add_Points, TypeOK, TreeOK, CopyOK, rvars
<1>2. ASSUME NEW p \in Points, NEW voxel \in Boxes, Add_Points_Downsampled(p, voxel)
      PROVE  TreeOK' /\ CopyOK' /\ OpOK'
    BY <1>2
    DEF Add_Points_Downsampled, TypeOK, TreeOK, CopyOK, OpOK, Finds, tvars, rvars, mvars,
        mutexes, history
<1>3. ASSUME NEW box \in Boxes, Delete_Point_Boxes(box) PROVE TreeOK' /\ CopyOK' /\ OpOK'
  <2>1. [kind |-> "delete", box |-> box] \in Operations
      BY DEF Operations, Deletes
  <2> QED
      BY <1>3, <2>1, OperateType DEF Delete_Point_Boxes, TypeOK, TreeOK, CopyOK, rvars
<1>4. CASE EnterSons
    BY <1>4 DEF EnterSons, TypeOK, TreeOK, CopyOK, OpOK, tvars, rvars, mvars, mutexes, history
<1>5. ASSUME NEW s \in Sons, Search_by_range(s) PROVE TreeOK' /\ CopyOK' /\ OpOK'
    BY <1>5
    DEF Search_by_range, TypeOK, TreeOK, CopyOK, OpOK, tvars, rvars, mvars, mutexes, history
<1>6. CASE LockSearch
    BY <1>6 DEF LockSearch, TypeOK, TreeOK, CopyOK, OpOK, tvars, rvars, mvars, mutexes, history
<1>7. CASE EndSearch_by_range
  <2>1. op \in Finds /\ todo' = Tail(todo) /\ op' = op
      BY <1>7 DEF EndSearch_by_range, OpInv
  <2>2. todo = <<>> => Tail(todo) = <<>>
      OBVIOUS
  <2> QED
      BY <1>7, <2>1, <2>2, NextSon
      DEF EndSearch_by_range, TypeOK, TreeOK, CopyOK, OpOK, tvars, rvars
<1>8. CASE Downsample
  <2>1. op \in Finds
      BY <1>8 DEF Downsample, OpInv
  <2>2. /\ AddOf(op.point) \in Operations
        /\ [op EXCEPT !.kind = "downsample"] \in Operations
      BY <2>1, DownsampleOp, AddOfType DEF Operations
  <2>3. OpOK' /\ father' \in [alive : BOOLEAN, tree_deleted : BOOLEAN, working_flag : BOOLEAN]
    <3>1. \/ UNCHANGED <<op, todo, father>>
          \/ Operate(AddOf(op.point))
          \/ Operate([op EXCEPT !.kind = "downsample"])
        BY <1>8 DEF Downsample
    <3>2. CASE UNCHANGED <<op, todo, father>>
        BY <3>2 DEF TypeOK, TreeOK, OpOK
    <3> QED
        BY <2>2, <3>1, <3>2, OperateType DEF TypeOK
  <2> QED
      BY <1>8, <2>3 DEF Downsample, TypeOK, TreeOK, CopyOK, rvars
<1>9. CASE WalkFreed
    BY <1>9 DEF WalkFreed, TypeOK, TreeOK, CopyOK, OpOK, tvars, rvars, mvars, mutexes, history
<1>10. ASSUME NEW s \in Sons, Push_Down("main", s) PROVE TreeOK' /\ CopyOK' /\ OpOK'
    BY <1>10, DirectType, PushOpLogged DEF Push_Down, TypeOK, TreeOK, CopyOK, OpOK, mvars, mutexes
<1>11. ASSUME NEW s \in Sons, Push_Down_Locked("main", s) PROVE TreeOK' /\ CopyOK' /\ OpOK'
    BY <1>11, LockedType, PushOpLogged
    DEF Push_Down_Locked, TypeOK, TreeOK, CopyOK, OpOK, mvars, mutexes
<1>12. CASE AtFather
    BY <1>12
    DEF AtFather, TypeOK, TreeOK, CopyOK, OpOK, FlagFather, tvars, rvars, mvars, mutexes, history
<1>13. ASSUME NEW s \in Sons, Visit(s) PROVE TreeOK' /\ CopyOK' /\ OpOK'
  <2>1. op \in Logged
      BY <1>13, OpFacts DEF Visit, OpInv, Due
  <2>2. Rebuild_Ptr' \in Subtrees \cup {None}
      BY <1>13, MayRebuildType DEF Visit, TypeOK, CopyOK, Subtrees
  <2> QED
      BY <1>13, <2>1, <2>2, DirectType, NextSon DEF Visit, TypeOK, TreeOK, CopyOK, OpOK
<1>14. ASSUME NEW s \in Sons, VisitLocked(s) PROVE TreeOK' /\ CopyOK' /\ OpOK'
  <2>1. op \in Logged
      BY <1>14, OpFacts DEF VisitLocked, OpInv, Due
  <2> QED
      BY <1>14, <2>1, LockedType, NextSon
      DEF VisitLocked, TypeOK, TreeOK, CopyOK, OpOK, FlagInv
<1>15. CASE Return
  <2>1. Rebuild_Ptr' \in Subtrees \cup {None}
      BY <1>15, MayRebuildType DEF Return, TypeOK, Subtrees
  <2>2. father' \in [alive : BOOLEAN, tree_deleted : BOOLEAN, working_flag : BOOLEAN]
      BY <1>15, FatherType DEF Return, TypeOK, TreeOK
  <2> QED
      BY <1>15, <2>1, <2>2 DEF Return, TypeOK, TreeOK, CopyOK, OpOK, mvars
<1>16. CASE AddKept
  <2>1. AddOf(op.point) \in Operations
      BY <1>16, AddOfType DEF AddKept, OpInv, Downs
  <2>2. OpOK' /\ father' \in [alive : BOOLEAN, tree_deleted : BOOLEAN, working_flag : BOOLEAN]
    <3>1. UNCHANGED <<op, todo, father>> \/ BeginPass(AddOf(op.point))
        BY <1>16 DEF AddKept
    <3>2. CASE UNCHANGED <<op, todo, father>>
        BY <3>2 DEF TypeOK, TreeOK, OpOK
    <3> QED
        BY <2>1, <3>1, <3>2, OperateType DEF TypeOK
  <2> QED
      BY <1>16, <2>2 DEF AddKept, TypeOK, TreeOK, CopyOK, rvars
<1>17. CASE EndUnlogged
  <2>1. Rebuild_Ptr' \in Subtrees \cup {None}
      BY <1>17, MayRebuildType DEF EndUnlogged, TypeOK, Subtrees
  <2>2. CopyOK' /\ OpOK'
      BY <1>17, <2>1 DEF EndUnlogged, TypeOK, CopyOK, OpOK
  <2>3. TreeOK'
    <3>1. CASE "root" \in walk["main"].old
        BY <1>17, <3>1 DEF EndUnlogged, tvars, TypeOK, TreeOK
    <3>2. CASE "root" \notin walk["main"].old
      <4>1. tree' \in [Sons -> Contents]
          BY <1>17, <3>2, UnloggedSons
      <4>2. push_down' = NoFlags /\ father' = [Update(father, tree') EXCEPT !.working_flag = FALSE]
          BY <1>17, <3>2 DEF EndUnlogged
      <4> QED
          BY <4>1, <4>2, FatherType DEF TypeOK, TreeOK, NoFlags
    <3> QED
        BY <3>1, <3>2
  <2> QED
      BY <2>2, <2>3
<1>18. CASE RootLocked
  <2>1. tree' \in [Sons -> Contents] /\ Rebuild_Logger' \in Seq(Logged)
      BY <1>18, RootLockedSons
  <2>2. [father EXCEPT !.alive = @ /\ ~Removes(op, FatherPoint), !.working_flag = FALSE]
            \in [alive : BOOLEAN, tree_deleted : BOOLEAN, working_flag : BOOLEAN]
      BY DEF TypeOK, TreeOK, Removes
  <2>3. father' \in [alive : BOOLEAN, tree_deleted : BOOLEAN, working_flag : BOOLEAN]
      BY <1>18, <2>2, FatherType DEF RootLocked, TypeOK
  <2> QED
      BY <1>18, <2>1, <2>3 DEF RootLocked, TypeOK, TreeOK, CopyOK, OpOK, NoFlags
<1>19. CASE RootFlagged
  <2>1. <<op>> \in Seq(Logged)
      BY <1>19, OpFacts DEF RootFlagged, OpInv
  <2>2. Rebuild_Logger' \in Seq(Logged)
      BY <1>19, <2>1, LogType DEF RootFlagged, TypeOK
  <2> QED
      BY <1>19, <2>2 DEF RootFlagged, TypeOK, TreeOK, CopyOK, OpOK, FlagFather
<1>20. CASE StartSearches
    BY <1>20
    DEF StartSearches, TypeOK, TreeOK, CopyOK, OpOK, tvars, rvars, mvars, mutexes, history
<1>21. CASE EndSearches
    BY <1>21 DEF EndSearches, TypeOK, TreeOK, CopyOK, OpOK, tvars, rvars, mvars, mutexes, history
<1>22. CASE stop_thread
    BY <1>22 DEF stop_thread, TypeOK, TreeOK, CopyOK, OpOK, tvars, rvars, mvars, mutexes, history
<1>23. CASE Join
    BY <1>23 DEF Join, TypeOK, TreeOK, CopyOK, OpOK, tvars, rvars, mvars, mutexes, history
<1> QED
    BY <1>1, <1>2, <1>3, <1>4, <1>5, <1>6, <1>7, <1>8, <1>9, <1>10, <1>11, <1>12, <1>13, <1>14,
       <1>15, <1>16, <1>17, <1>18, <1>19, <1>20, <1>21, <1>22, <1>23
    DEF Main, Points
\* Where a walk goes on to: a son, either, or out of both.
LEMMA WalkTo ==
    ASSUME NEW w \in Walks, NEW x \in Subtrees \cup {None}
    PROVE  /\ [w EXCEPT !.son = x] \in Walks
           /\ [w EXCEPT !.son = x, !.old = @ \cap {"root"}] \in Walks
           /\ [w EXCEPT !.counted = TRUE] \in Walks
           /\ [w EXCEPT !.old = @ \cup {x}] \in [root : BOOLEAN, son : Subtrees \cup {None},
                  counted : BOOLEAN, old : SUBSET (Subtrees \cup {None})]
    BY DEF Walks, Subtrees

\* The mapping thread changes its own walk only.
LEMMA MainWalk ==
    ASSUME TypeOK, WalkInv, Main
    PROVE  WalkOK' /\ \A t \in Searchers : walk'[t] = walk[t]
<1> DEFINE Own == \E w \in Walks : walk' = [walk EXCEPT !["main"] = w]
<1>1. /\ walk["main"] \in Walks /\ NoWalk \in Walks
      /\ AtRoot(FALSE) \in Walks /\ AtRoot(TRUE) \in Walks
    BY WalkOf DEF TypeOK
<1>2. walk' = walk \/ Own
  <2>1. ASSUME NEW p \in Points, Add_Points(p) PROVE walk' = walk \/ Own
      BY <2>1, <1>1 DEF Add_Points, Operate, BeginPass, tvars, rvars, mvars, mutexes, history
  <2>2. ASSUME NEW p \in Points, NEW voxel \in Boxes, Add_Points_Downsampled(p, voxel)
        PROVE  walk' = walk \/ Own
      BY <2>2, <1>1 DEF Add_Points_Downsampled, tvars, rvars, mvars, mutexes, history
  <2>3. ASSUME NEW box \in Boxes, Delete_Point_Boxes(box) PROVE walk' = walk \/ Own
      BY <2>3, <1>1
      DEF Delete_Point_Boxes, Operate, BeginPass, tvars, rvars, mvars, mutexes, history
  <2>4. CASE EnterSons
    <3>1. [walk["main"] EXCEPT !.son = "root"] \in Walks
        BY <1>1, WalkTo DEF Subtrees
    <3> QED
        BY <2>4, <3>1 DEF EnterSons
  <2>5. ASSUME NEW s \in Sons, Search_by_range(s) PROVE walk' = walk \/ Own
    <3>1. [walk["main"] EXCEPT !.son = s] \in Walks
        BY <1>1, WalkTo DEF Subtrees
    <3> QED
        BY <2>5, <3>1 DEF Search_by_range
  <2>6. CASE LockSearch
    <3>1. [walk["main"] EXCEPT !.son = Head(todo)] \in Walks
      <4>1. todo # <<>>
          BY <2>6 DEF LockSearch, WalkInv, MainWalkInv
      <4> QED
          BY <1>1, <4>1, WalkTo, NextSon DEF TypeOK, Subtrees
    <3> QED
        BY <2>6, <3>1 DEF LockSearch
  <2>7. CASE EndSearch_by_range
    <3>1. [walk["main"] EXCEPT !.son = None, !.old = @ \cap {"root"}] \in Walks
        BY <1>1, WalkTo
    <3> QED
        BY <2>7, <3>1 DEF EndSearch_by_range
  <2>8. CASE Downsample
      BY <2>8, <1>1 DEF Downsample, Operate, BeginPass, tvars, rvars, mvars, mutexes, history
  <2>9. CASE WalkFreed
      BY <2>9, <1>1 DEF WalkFreed, tvars, rvars, mvars, mutexes, history
  <2>10. ASSUME NEW s \in Sons, Push_Down("main", s) PROVE walk' = walk \/ Own
      BY <2>10, <1>1 DEF Push_Down, tvars, rvars, mvars, mutexes, history
  <2>11. ASSUME NEW s \in Sons, Push_Down_Locked("main", s) PROVE walk' = walk \/ Own
      BY <2>11, <1>1 DEF Push_Down_Locked, tvars, rvars, mvars, mutexes, history
  <2>12. CASE AtFather
      BY <2>12, <1>1 DEF AtFather, tvars, rvars, mvars, mutexes, history
  <2>13. ASSUME NEW s \in Sons, Visit(s) PROVE walk' = walk \/ Own
      BY <2>13, <1>1 DEF Visit, tvars, rvars, mvars, mutexes, history
  <2>14. ASSUME NEW s \in Sons, VisitLocked(s) PROVE walk' = walk \/ Own
      BY <2>14, <1>1 DEF VisitLocked, tvars, rvars, mvars, mutexes, history
  <2>15. CASE Return
      BY <2>15, <1>1 DEF Return, tvars, rvars, mvars, mutexes, history
  <2>16. CASE AddKept
      BY <2>16, <1>1 DEF AddKept, BeginPass, tvars, rvars, mvars, mutexes, history
  <2>17. CASE EndUnlogged
      BY <2>17, <1>1 DEF EndUnlogged, tvars, rvars, mvars, mutexes, history
  <2>18. CASE RootLocked
      BY <2>18, <1>1 DEF RootLocked, tvars, rvars, mvars, mutexes, history
  <2>19. CASE RootFlagged
      BY <2>19, <1>1 DEF RootFlagged, tvars, rvars, mvars, mutexes, history
  <2>20. CASE StartSearches
      BY <2>20, <1>1 DEF StartSearches, tvars, rvars, mvars, mutexes, history
  <2>21. CASE EndSearches
      BY <2>21, <1>1 DEF EndSearches, tvars, rvars, mvars, mutexes, history
  <2>22. CASE stop_thread
      BY <2>22, <1>1 DEF stop_thread, tvars, rvars, mvars, mutexes, history
  <2>23. CASE Join
      BY <2>23, <1>1 DEF Join, tvars, rvars, mvars, mutexes, history
  <2> QED
      BY <2>1, <2>2, <2>3, <2>4, <2>5, <2>6, <2>7, <2>8, <2>9, <2>10, <2>11, <2>12, <2>13, <2>14,
         <2>15, <2>16, <2>17, <2>18, <2>19, <2>20, <2>21, <2>22, <2>23
      DEF Main, Points
<1>3. CASE Own
    BY <1>3, WalkType, IkdRebuildAssumption DEF TypeOK
<1> QED
    BY <1>2, <1>3 DEF TypeOK, WalkOK

\* A swap notes whom it finds in the old nodes.
LEMMA SwapWalk ==
    ASSUME TypeOK, RebuildInv, Swap
    PROVE  /\ WalkOK'
           /\ \A t \in Searchers \cup {"main"} :
                walk'[t] = IF In(t, slot) THEN [walk[t] EXCEPT !.old = @ \cup {slot}] ELSE walk[t]
<1>1. slot \in Subtrees
    BY DEF Swap, RebuildInv, Rebuilding
<1>2. Searchers \cup {"main"} = Threads \ {"rebuild"}
    BY IkdRebuildAssumption DEF Threads
<1>3. \A w \in Walks : [w EXCEPT !.old = @ \cup {slot}] \in Walks
    BY <1>1 DEF Walks
<1>4. \A t \in Threads \ {"rebuild"} :
         walk'[t] = IF In(t, slot) THEN [walk[t] EXCEPT !.old = @ \cup {slot}] ELSE walk[t]
    BY DEF Swap, TypeOK, WalkOK
<1>5. \A t \in Threads \ {"rebuild"} : walk'[t] \in Walks
    BY <1>3, <1>4 DEF TypeOK, WalkOK
<1>6. walk' = [t \in Threads \ {"rebuild"} |-> walk'[t]]
    BY DEF Swap, TypeOK, WalkOK
<1> QED
    BY <1>2, <1>4, <1>5, <1>6 DEF WalkOK

\* Each step of the rebuild thread keeps the types.
LEMMA RebuilderType ==
    ASSUME TypeOK, RebuildInv, FlagInv, Rebuilder
    PROVE  TreeOK' /\ CopyOK' /\ OpOK' /\ WalkOK'
<1>1. CASE Poll
    BY <1>1 DEF Poll, TypeOK, TreeOK, CopyOK, OpOK, WalkOK, tvars, rvars, mvars, mutexes, history
<1>2. CASE Begin
    BY <1>2 DEF Begin, TypeOK, TreeOK, CopyOK, OpOK, WalkOK, tvars, rvars, mvars, mutexes, history
<1>3. CASE LockSearches("lock_search", "flatten")
    BY <1>3
    DEF LockSearches, TypeOK, TreeOK, CopyOK, OpOK, WalkOK, tvars, rvars, mvars, mutexes, history
<1>4. CASE LockSearches("lock_search_again", "swap")
    BY <1>4
    DEF LockSearches, TypeOK, TreeOK, CopyOK, OpOK, WalkOK, tvars, rvars, mvars, mutexes, history
<1>5. CASE Flatten
  <2>1. slot \in Subtrees /\ Held \subseteq All
      BY <1>5, HeldIsWhole, WholeType DEF Flatten, RebuildInv, Rebuilding, TypeOK
  <2>2. CopyOK'
      BY <1>5, <2>1 DEF Flatten, TypeOK, CopyOK, TreeOK, Content, Contents, Subtrees, Sons
  <2>3. TreeOK'
    <3>1. CASE slot = "root"
        BY <1>5, <3>1, SettledSons DEF Flatten, TypeOK, TreeOK, NoFlags
    <3>2. CASE slot # "root"
        BY <1>5, <3>2 DEF Flatten, TypeOK, TreeOK
    <3> QED
        BY <3>1, <3>2
  <2> QED
      BY <1>5, <2>2, <2>3 DEF Flatten, TypeOK, OpOK, WalkOK, mvars
<1>6. CASE Copied
    BY <1>6
    DEF Copied, TypeOK, TreeOK, CopyOK, OpOK, WalkOK, tvars, rvars, mvars, mutexes, history
<1>7. CASE Drain
  <2>1. Rebuild_Logger # <<>> => /\ Head(Rebuild_Logger) \in Logged
                               /\ Tail(Rebuild_Logger) \in Seq(Logged)
      BY DEF TypeOK, CopyOK
  <2>2. CopyOK'
      BY <1>7, <2>1, RunOperation DEF Drain, TypeOK, CopyOK
  <2> QED
      BY <1>7, <2>2 DEF Drain, TypeOK, TreeOK, OpOK, WalkOK, tvars, mvars
<1>8. CASE Swap
  <2>1. slot \in Subtrees /\ copy \in Contents
      BY <1>8 DEF Swap, RebuildInv, Rebuilding, TypeOK, CopyOK
  <2>2. tree' \in [Sons -> Contents] /\ push_down' \in [Sons -> BOOLEAN]
    <3>1. CASE slot = "root"
      <4>1. tree' = [s \in Sons |-> Content(copy.alive \cap PointsOf(s),
                                           copy.dead \cap PointsOf(s))]
          BY <1>8, <3>1 DEF Swap
      <4>2. \A s \in Sons : Content(copy.alive \cap PointsOf(s), copy.dead \cap PointsOf(s))
                              \in Contents
          BY <2>1 DEF Contents, Content
      <4>3. push_down' = NoFlags
          BY <1>8, <3>1 DEF Swap
      <4> QED
          BY <4>1, <4>2, <4>3 DEF NoFlags
    <3>2. CASE slot # "root"
        BY <1>8, <2>1, <3>2 DEF Swap, TypeOK, TreeOK
    <3> QED
        BY <3>1, <3>2
  <2>3. father' \in [alive : BOOLEAN, tree_deleted : BOOLEAN, working_flag : BOOLEAN]
    <3>1. Update(father, tree') \in
              [alive : BOOLEAN, tree_deleted : BOOLEAN, working_flag : BOOLEAN]
        BY FatherType DEF TypeOK, TreeOK
    <3>2. father' \in {father, Update(father, tree'), [alive |-> FatherPoint \in copy.alive,
                            tree_deleted |-> copy.alive = {}, working_flag |-> FALSE]}
        BY <1>8 DEF Swap
    <3>3. [alive |-> FatherPoint \in copy.alive, tree_deleted |-> copy.alive = {},
           working_flag |-> FALSE]
              \in [alive : BOOLEAN, tree_deleted : BOOLEAN, working_flag : BOOLEAN]
        OBVIOUS
    <3> QED
        BY <3>1, <3>2, <3>3 DEF TypeOK, TreeOK
  <2> QED
      BY <1>8, <2>2, <2>3, SwapWalk DEF Swap, TypeOK, TreeOK, CopyOK, OpOK, rvars, mvars
<1>9. CASE Swapped
    BY <1>9
    DEF Swapped, TypeOK, TreeOK, CopyOK, OpOK, WalkOK, tvars, rvars, mvars, mutexes, history
<1>10. CASE Free
    BY <1>10
    DEF Free, TypeOK, TreeOK, CopyOK, OpOK, WalkOK, Content, Contents, tvars, rvars, mvars,
        mutexes, history
<1> QED
    BY <1>1, <1>2, <1>3, <1>4, <1>5, <1>6, <1>7, <1>8, <1>9, <1>10 DEF Rebuilder

\* Each step of a search thread keeps the types, and the others' walks.
LEMMA SearcherType ==
    ASSUME TypeOK, WalkInv, FlagInv, NEW u \in Searchers, SearchStep(u)
    PROVE  /\ TreeOK' /\ CopyOK' /\ OpOK' /\ WalkOK'
           /\ \A t \in (Searchers \cup {"main"}) \ {u} : walk'[t] = walk[t]
<1>1. TreeOK' /\ CopyOK' /\ OpOK'
    BY SearcherFrame DEF TypeOK, SearcherKeeps, TreeOK, CopyOK, OpOK, tvars, rvars
<1>2. walk[u] \in Walks /\ NoWalk \in Walks /\ AtRoot(FALSE) \in Walks /\ AtRoot(TRUE) \in Walks
    BY WalkOf DEF TypeOK
<1> DEFINE Own == \E w \in Walks : walk' = [walk EXCEPT ![u] = w]
<1>3. walk' = walk \/ Own
  <2>1. CASE Nearest_Search(u)
    <3>1. [walk[u] EXCEPT !.son = "root"] \in Walks
        BY <1>2, WalkTo DEF Subtrees
    <3> QED
        BY <1>2, <2>1, <3>1 DEF Nearest_Search
  <2>2. CASE EnterFather(u)
      BY <2>2 DEF EnterFather
  <2>3. CASE CountIn(u)
    <3>1. [walk[u] EXCEPT !.counted = TRUE] \in Walks
        BY <1>2, WalkTo
    <3> QED
        BY <1>2, <2>3, <3>1 DEF CountIn
  <2>4. CASE CountOut(u)
      BY <1>2, <2>4 DEF CountOut
  <2>5. ASSUME NEW s \in Sons, Search(u, s) PROVE Own
    <3>1. [walk[u] EXCEPT !.son = s] \in Walks
        BY <1>2, WalkTo DEF Subtrees
    <3> QED
        BY <2>5, <3>1 DEF Search
  <2> QED
      BY <2>1, <2>2, <2>3, <2>4, <2>5 DEF SearchStep
<1>4. CASE Own
    BY <1>1, <1>4, WalkType DEF TypeOK
<1> QED
    BY <1>1, <1>3, <1>4 DEF TypeOK, WalkOK

\* Every step keeps the types.
LEMMA TypeStep ==
    ASSUME TypeOK, RebuildInv, WalkInv, FlagInv, OpInv, [Next]_vars
    PROVE  TypeOK'
<1>1. CASE Main
    BY <1>1, MainFrame, MainType, MainWalk DEF TypeOK
<1>2. CASE Rebuilder
    BY <1>2, RebuilderFrame, RebuilderType DEF TypeOK
<1>3. ASSUME NEW u \in Searchers, SearchStep(u) PROVE TypeOK'
    BY <1>3, SearcherFrame, SearcherType DEF TypeOK
<1>4. CASE UNCHANGED vars
    BY <1>4 DEF vars, tvars, rvars, mvars, TypeOK, PcOK, TreeOK, CopyOK, OpOK, WalkOK
<1> QED
    BY <1>1, <1>2, <1>3, <1>4, NextCases DEF TypeOK

-----------------------------------------------------------------------------
(* The rebuild thread's mutexes and the search counter.                    *)

\* Rebuild_Ptr names a subtree exactly while it is rebuilt.
LEMMA RebuildStep ==
    ASSUME TypeOK, RebuildInv, FlagInv, [Next]_vars
    PROVE  RebuildInv'
<1>1. CASE Main
    BY <1>1, MainFrame DEF TypeOK, MainKeeps, RebuildInv, Rebuilding
<1>2. CASE Rebuilder
  <2>1. CASE Poll
      BY <2>1, RebuilderGoes
      DEF Poll, TypeOK, CopyOK, RebuildInv, Rebuilding, RebuildPcs, None, tvars, rvars, mvars,
          mutexes, history
  <2>2. CASE Begin
      BY <2>2, RebuilderGoes
      DEF Begin, TypeOK, CopyOK, RebuildInv, Rebuilding, RebuildPcs, None, tvars, rvars, mvars,
          mutexes, history
  <2>3. CASE LockSearches("lock_search", "flatten")
      BY <2>3, RebuilderGoes
      DEF LockSearches, TypeOK, CopyOK, RebuildInv, Rebuilding, RebuildPcs, None, tvars, rvars,
          mvars, mutexes, history
  <2>4. CASE LockSearches("lock_search_again", "swap")
      BY <2>4, RebuilderGoes
      DEF LockSearches, TypeOK, CopyOK, RebuildInv, Rebuilding, RebuildPcs, None, tvars, rvars,
          mvars, mutexes, history
  <2>5. CASE Flatten
      BY <2>5, RebuilderGoes
      DEF Flatten, TypeOK, CopyOK, RebuildInv, Rebuilding, RebuildPcs, None, tvars, rvars, mvars,
          mutexes, history
  <2>6. CASE Copied
      BY <2>6, RebuilderGoes
      DEF Copied, TypeOK, CopyOK, RebuildInv, Rebuilding, RebuildPcs, None, tvars, rvars, mvars,
          mutexes, history
  <2>7. CASE Drain
      BY <2>7, RebuilderGoes
      DEF Drain, TypeOK, CopyOK, RebuildInv, Rebuilding, RebuildPcs, None, tvars, rvars, mvars,
          mutexes, history
  <2>8. CASE Swap
      BY <2>8, RebuilderGoes
      DEF Swap, TypeOK, CopyOK, RebuildInv, Rebuilding, RebuildPcs, None, tvars, rvars, mvars,
          mutexes, history
  <2>9. CASE Swapped
      BY <2>9, RebuilderGoes
      DEF Swapped, TypeOK, CopyOK, RebuildInv, Rebuilding, RebuildPcs, None, tvars, rvars, mvars,
          mutexes, history
  <2>10. CASE Free
      BY <2>10, RebuilderGoes
      DEF Free, TypeOK, CopyOK, RebuildInv, Rebuilding, RebuildPcs, None, tvars, rvars, mvars,
          mutexes, history
  <2> QED
      BY <2>1, <2>2, <2>3, <2>4, <2>5, <2>6, <2>7, <2>8, <2>9, <2>10, <1>2 DEF Rebuilder
<1>3. ASSUME NEW u \in Searchers, SearchStep(u) PROVE RebuildInv'
    BY <1>3, SearcherFrame DEF TypeOK, SearcherKeeps, RebuildInv, Rebuilding, rvars
<1>4. CASE UNCHANGED vars
    BY <1>4 DEF vars, rvars, mutexes, RebuildInv, Rebuilding
<1> QED
    BY <1>1, <1>2, <1>3, <1>4, NextCases DEF TypeOK

\* Searches count themselves in and out, and the thread that keeps them out
\* has waited for the last.
LEMMA CountedFinite ==
    /\ IsFiniteSet(Counted) /\ Cardinality(Counted) \in Nat
    /\ Cardinality(Counted) = 0 <=> Counted = {}
<1>1. IsFiniteSet(Counted)
    BY FS_Subset, IkdRebuildAssumption DEF Counted
<1> QED
    BY <1>1, FS_CardinalityType, FS_EmptySet

\* A search thread counts itself in and out.
LEMMA CountSearcher ==
    ASSUME TypeOK, CountInv, WalkInv, FlagInv, NEW u \in Searchers, SearchStep(u)
    PROVE  CountInv'
<1>1. /\ \A t \in Searchers \ {u} : walk'[t] = walk[t]
      /\ KeepsOut' <=> KeepsOut
    BY SearcherType, SearcherFrame DEF TypeOK, SearcherKeeps, KeepsOut
<1>2. walk[u] \in Walks /\ u \in DOMAIN walk /\ u \in Threads \ {"rebuild"} /\ SearcherInv(u)
    BY WalkOf, IkdRebuildAssumption DEF TypeOK, WalkOK, Threads, WalkInv
<1>3. CASE CountIn(u)
  <2>1. ~KeepsOut /\ search_mutex_counter = Cardinality(Counted) /\ u \notin Counted
      BY <1>2, <1>3 DEF CountIn, CountInv, Counted, SearcherInv
  <2>2. walk'[u].counted = TRUE
      BY <1>2, <1>3 DEF CountIn, Walks, AtRoot
  <2>3. Counted' = Counted \cup {u}
      BY <1>1, <2>2 DEF Counted
  <2>4. Cardinality(Counted') = Cardinality(Counted) + 1
      BY <2>1, <2>3, CountedFinite, FS_AddElement
  <2> QED
      BY <1>1, <1>3, <2>1, <2>3, <2>4 DEF CountIn, CountInv
<1>4. CASE CountOut(u)
  <2>1. walk'[u].counted = FALSE
      BY <1>2, <1>4 DEF CountOut, NoWalk
  <2>2. Counted' = Counted \ {u}
      BY <1>1, <2>1 DEF Counted
  <2>3. CASE u \in Counted
    <3>1. ~KeepsOut /\ search_mutex_counter = Cardinality(Counted) /\ walk[u].counted
        BY <2>3 DEF CountInv, Counted
    <3>2. Cardinality(Counted') = Cardinality(Counted) - 1
        BY <2>2, <2>3, CountedFinite, FS_RemoveElement
    <3> QED
        BY <1>1, <1>4, <2>2, <3>1, <3>2 DEF CountOut, CountInv
  <2>4. CASE u \notin Counted
    <3>1. Counted' = Counted /\ ~walk[u].counted
        BY <2>2, <2>4 DEF Counted
    <3>2. search_mutex_counter' = search_mutex_counter
        BY <1>4, <3>1, CountedFinite DEF CountOut, CountInv
    <3> QED
        BY <1>1, <3>1, <3>2 DEF CountInv
  <2> QED
      BY <2>3, <2>4
<1>5. CASE ~CountIn(u) /\ ~CountOut(u)
  <2>1. walk'[u].counted = walk[u].counted
    <3>1. CASE Nearest_Search(u)
      <4>1. walk[u].counted = FALSE
          BY <1>2, <3>1 DEF Nearest_Search, SearcherInv, NoWalk
      <4>2. CASE Rebuild_Ptr = "root"
        <5>1. walk' = [walk EXCEPT ![u].son = "root"]
            BY <3>1, <4>2 DEF Nearest_Search
        <5> QED
            BY <1>2, <5>1 DEF Walks
      <4>3. CASE Rebuild_Ptr # "root"
        <5>1. walk' = [walk EXCEPT ![u] = AtRoot(FALSE)]
            BY <3>1, <4>3 DEF Nearest_Search
        <5> QED
            BY <1>2, <4>1, <5>1 DEF AtRoot
      <4> QED
          BY <4>2, <4>3
    <3>2. CASE EnterFather(u)
        BY <3>2 DEF EnterFather
    <3>3. ASSUME NEW s \in Sons, Search(u, s) PROVE walk'[u].counted = walk[u].counted
        BY <1>2, <3>3 DEF Search, Walks
    <3> QED
        BY <1>5, <3>1, <3>2, <3>3 DEF SearchStep
  <2>2. Counted' = Counted
      BY <1>1, <2>1 DEF Counted
  <2>3. search_mutex_counter' = search_mutex_counter
      BY <1>5 DEF SearchStep, Nearest_Search, EnterFather, Search, mutexes
  <2> QED
      BY <1>1, <2>2, <2>3 DEF CountInv
<1> QED
    BY <1>3, <1>4, <1>5

\* search_mutex_counter is the number of the threads inside, or -1.
LEMMA CountStep ==
    ASSUME TypeOK, RebuildInv, CountInv, WalkInv, FlagInv, [Next]_vars
    PROVE  CountInv'
<1>1. CASE Main
  <2>1. Counted' = Counted
      BY <1>1, MainWalk DEF Counted
  <2> QED
      BY <1>1, <2>1, MainFrame DEF TypeOK, MainKeeps, CountInv, KeepsOut
<1>2. CASE Rebuilder
  <2> Counted' = Counted
    <3>1. CASE Swap
      <4>1. \A t \in Searchers : walk'[t].counted = walk[t].counted
        <5>1. \A w \in Walks : [w EXCEPT !.old = @ \cup {slot}].counted = w.counted
            BY DEF Walks
        <5>2. \A t \in Searchers : walk[t] \in Walks
            BY WalkOf DEF TypeOK
        <5> QED
            BY <3>1, <5>1, <5>2, SwapWalk
      <4> QED
          BY <4>1 DEF Counted
    <3>2. CASE ~Swap
        BY <1>2, <3>2, RebuilderFrame DEF TypeOK, RebuilderKeeps, Counted
    <3> QED
        BY <3>1, <3>2
  <2>1. CASE Poll
      BY <2>1, RebuilderGoes, CountedFinite
      DEF Poll, TypeOK, CountInv, KeepsOut, RebuildPcs, tvars, rvars, mvars, mutexes, history
  <2>2. CASE Begin
      BY <2>2, RebuilderGoes, CountedFinite
      DEF Begin, TypeOK, CountInv, KeepsOut, RebuildPcs, tvars, rvars, mvars, mutexes, history
  <2>3. CASE LockSearches("lock_search", "flatten")
      BY <2>3, RebuilderGoes, CountedFinite
      DEF LockSearches, TypeOK, CountInv, KeepsOut, RebuildPcs, tvars, rvars, mvars, mutexes,
          history
  <2>4. CASE LockSearches("lock_search_again", "swap")
      BY <2>4, RebuilderGoes, CountedFinite
      DEF LockSearches, TypeOK, CountInv, KeepsOut, RebuildPcs, tvars, rvars, mvars, mutexes,
          history
  <2>5. CASE Flatten
      BY <2>5, RebuilderGoes, CountedFinite
      DEF Flatten, TypeOK, CountInv, KeepsOut, RebuildPcs, tvars, rvars, mvars, mutexes, history
  <2>6. CASE Copied
      BY <2>6, RebuilderGoes, CountedFinite
      DEF Copied, TypeOK, CountInv, KeepsOut, RebuildPcs, tvars, rvars, mvars, mutexes, history
  <2>7. CASE Drain
      BY <2>7, RebuilderGoes, CountedFinite
      DEF Drain, TypeOK, CountInv, KeepsOut, RebuildPcs, tvars, rvars, mvars, mutexes, history
  <2>8. CASE Swap
      BY <2>8, RebuilderGoes, CountedFinite
      DEF Swap, TypeOK, CountInv, KeepsOut, RebuildPcs, tvars, rvars, mvars, mutexes, history
  <2>9. CASE Swapped
      BY <2>9, RebuilderGoes, CountedFinite
      DEF Swapped, TypeOK, CountInv, KeepsOut, RebuildPcs, tvars, rvars, mvars, mutexes, history
  <2>10. CASE Free
      BY <2>10, RebuilderGoes, CountedFinite
      DEF Free, TypeOK, CountInv, KeepsOut, RebuildPcs, tvars, rvars, mvars, mutexes, history
  <2> QED
      BY <2>1, <2>2, <2>3, <2>4, <2>5, <2>6, <2>7, <2>8, <2>9, <2>10, <1>2 DEF Rebuilder
<1>3. CASE \E u \in Searchers : SearchStep(u)
    BY <1>3, CountSearcher
<1>4. CASE UNCHANGED vars
    BY <1>4 DEF vars, mutexes, CountInv, KeepsOut, Counted
<1> QED
    BY <1>1, <1>2, <1>3, <1>4, NextCases DEF TypeOK

-----------------------------------------------------------------------------
(* Walks.                                                                  *)

\* The search threads: they run only while the mapping thread waits.
LEMMA MainLeavesSearchers ==
    ASSUME TypeOK, WalkInv, Main
    PROVE  /\ \A t \in Searchers : pc[t] = "idle"
           /\ pc'["main"] # "searches" => \A t \in Searchers : pc'[t] = "idle"
           /\ \A t \in Searchers : SearcherInv(t)'
<1>1. pc["main"] # "searches" \/ EndSearches
  <2>1. ASSUME NEW p \in Points, Add_Points(p) PROVE pc["main"] # "searches"
      BY <2>1 DEF Add_Points, Operate, BeginPass, Operate
  <2>2. ASSUME NEW p \in Points, NEW voxel \in Boxes, Add_Points_Downsampled(p, voxel)
        PROVE  pc["main"] # "searches"
      BY <2>2 DEF Add_Points_Downsampled, Operate
  <2>3. ASSUME NEW box \in Boxes, Delete_Point_Boxes(box) PROVE pc["main"] # "searches"
      BY <2>3 DEF Delete_Point_Boxes, Operate, BeginPass, Operate
  <2>4. CASE EnterSons
      BY <2>4 DEF EnterSons, Operate
  <2>5. ASSUME NEW s \in Sons, Search_by_range(s) PROVE pc["main"] # "searches"
      BY <2>5 DEF Search_by_range, Operate
  <2>6. CASE LockSearch
      BY <2>6 DEF LockSearch, Operate
  <2>7. CASE EndSearch_by_range
      BY <2>7 DEF EndSearch_by_range, Operate
  <2>8. CASE Downsample
      BY <2>8 DEF Downsample, Operate, BeginPass, Operate
  <2>9. CASE WalkFreed
      BY <2>9 DEF WalkFreed, WalkInv, MainWalkInv, Finding, NoWalk
  <2>10. ASSUME NEW s \in Sons, Push_Down("main", s) PROVE pc["main"] # "searches"
      BY <2>10 DEF Push_Down, Operate
  <2>11. ASSUME NEW s \in Sons, Push_Down_Locked("main", s) PROVE pc["main"] # "searches"
      BY <2>11 DEF Push_Down_Locked, Operate
  <2>12. CASE AtFather
      BY <2>12 DEF AtFather, Operate
  <2>13. ASSUME NEW s \in Sons, Visit(s) PROVE pc["main"] # "searches"
      BY <2>13 DEF Visit, Operate
  <2>14. ASSUME NEW s \in Sons, VisitLocked(s) PROVE pc["main"] # "searches"
      BY <2>14 DEF VisitLocked, Operate
  <2>15. CASE Return
      BY <2>15 DEF Return, Operate
  <2>16. CASE AddKept
      BY <2>16 DEF AddKept, BeginPass, Operate
  <2>17. CASE EndUnlogged
      BY <2>17 DEF EndUnlogged, Operate
  <2>18. CASE RootLocked
      BY <2>18 DEF RootLocked, Operate
  <2>19. CASE RootFlagged
      BY <2>19 DEF RootFlagged, Operate
  <2>20. CASE StartSearches
      BY <2>20 DEF StartSearches, Operate
  <2>21. CASE stop_thread
      BY <2>21 DEF stop_thread, Operate
  <2>22. CASE Join
      BY <2>22 DEF Join, Operate
  <2> QED
      BY <2>1, <2>2, <2>3, <2>4, <2>5, <2>6, <2>7, <2>8, <2>9, <2>10, <2>11, <2>12, <2>13, <2>14,
         <2>15, <2>16, <2>17, <2>18, <2>19, <2>20, <2>21, <2>22
      DEF Main, Points
<1>2. \A t \in Searchers : pc[t] = "idle"
    BY <1>1 DEF WalkInv, EndSearches
<1>3. \A t \in Searchers : walk'[t] = NoWalk
    BY <1>2, MainWalk DEF WalkInv, SearcherInv
<1>4. ASSUME NEW t \in Searchers, pc'[t] \in {"idle", "at_root"} PROVE SearcherInv(t)'
  <2>1. NoWalk.root = FALSE /\ NoWalk.old = {}
      BY DEF NoWalk
  <2> QED
      BY <1>3, <1>4, <2>1 DEF SearcherInv
<1>5. CASE StartSearches
  <2>1. \A t \in Searchers : pc'[t] = "at_root"
      BY <1>5, IkdRebuildAssumption DEF StartSearches, Threads
  <2>2. pc'["main"] = "searches"
      BY <1>5, IkdRebuildAssumption DEF StartSearches, Threads
  <2> QED
      BY <1>2, <1>4, <2>1, <2>2
<1>6. CASE ~StartSearches
  <2>1. \A t \in Searchers : pc'[t] = "idle"
      BY <1>2, <1>6, MainFrame DEF TypeOK, MainKeeps
  <2> QED
      BY <1>2, <1>4, <2>1
<1> QED
    BY <1>5, <1>6

\* The mapping thread out of the tree.
LEMMA MainOut ==
    ASSUME walk'["main"] = NoWalk, pc'["main"] \notin {"search", "search_lock", "searching"}
    PROVE  MainWalkInv'
    BY DEF MainWalkInv, NoWalk, Sons, None

\* The search of a downsampling, still at the father.
LEMMA MainFinding ==
    ASSUME walk'["main"].son = None, walk'["main"].old \subseteq {"root"}, Finding'
    PROVE  MainWalkInv'
    BY DEF MainWalkInv, Finding, Sons, None

\* The mapping thread is in a son being rebuilt under search_flag_mutex.
LEMMA MainWalks ==
    ASSUME TypeOK, WalkInv, RebuildInv, FlagInv, OpInv, Main
    PROVE  MainWalkInv'
<1>1. /\ walk["main"] \in Walks /\ "main" \in DOMAIN walk /\ NoWalk.son = None /\ NoWalk.old = {}
    BY WalkOf, IkdRebuildAssumption DEF TypeOK, WalkOK, Threads, NoWalk
<1>2. MainWalkInv'
  <2>1. ASSUME NEW p \in Points, Add_Points(p) PROVE MainWalkInv'
      BY <2>1, MainGoes, MainOut
      DEF Add_Points, Operate, BeginPass, MainWalkInv, Finding, WalkInv, TypeOK, MainPcs, tvars,
          rvars, mvars, mutexes, history
  <2>2. ASSUME NEW p \in Points, NEW voxel \in Boxes, Add_Points_Downsampled(p, voxel)
        PROVE  MainWalkInv'
    <3>1. walk'["main"] = AtRoot(FALSE) /\ op'.kind = "search"
        BY <2>2, <1>1 DEF Add_Points_Downsampled
    <3>2. pc'["main"] = "push"
        BY <2>2, MainGoes DEF Add_Points_Downsampled, TypeOK, MainPcs
    <3>3. AtRoot(FALSE).son = None /\ AtRoot(FALSE).old = {}
        BY DEF AtRoot
    <3> QED
        BY <3>1, <3>2, <3>3, MainFinding DEF Finding
  <2>3. ASSUME NEW box \in Boxes, Delete_Point_Boxes(box) PROVE MainWalkInv'
      BY <2>3, MainGoes, MainOut
      DEF Delete_Point_Boxes, Operate, BeginPass, MainWalkInv, Finding, WalkInv, TypeOK, MainPcs,
          tvars, rvars, mvars, mutexes, history
  <2>4. CASE EnterSons
    <3>1. pc'["main"] = "search"
        BY <2>4, MainGoes DEF EnterSons, TypeOK, MainPcs
    <3>2. walk["main"].son = None /\ walk["main"].old \subseteq {"root"}
        BY <2>4, <1>1 DEF EnterSons, WalkInv, MainWalkInv
    <3>3. CASE Held \subseteq op.box
      <4>1. walk'["main"].son = "root" /\ todo' = <<>>
          BY <2>4, <1>1, <3>3 DEF EnterSons, Walks
      <4> QED
          BY <3>1, <4>1 DEF MainWalkInv, Sons, None
    <3>4. CASE ~(Held \subseteq op.box)
      <4>1. walk'["main"].son = None /\ walk'["main"].old \subseteq {"root"}
          BY <2>4, <3>2, <3>4 DEF EnterSons
      <4> QED
          BY <3>1, <4>1 DEF MainWalkInv, Sons, None
    <3> QED
        BY <3>3, <3>4
  <2>5. ASSUME NEW s \in Sons, Search_by_range(s) PROVE MainWalkInv'
    <3>1. walk["main"].son = None /\ walk["main"].old \subseteq {"root"}
        BY <2>5 DEF Search_by_range, WalkInv, MainWalkInv
    <3>2. CASE Rebuild_Ptr = s
      <4>1. pc'["main"] = "search_lock" /\ walk' = walk /\ todo' = todo /\ todo # <<>>
          BY <2>5, <3>2, MainGoes DEF Search_by_range, TypeOK, MainPcs, mvars
      <4> QED
          BY <3>1, <4>1 DEF MainWalkInv, Sons, None
    <3>3. CASE Rebuild_Ptr # s
      <4>1. pc'["main"] = "searching" /\ Rebuild_Ptr' = Rebuild_Ptr
          BY <2>5, <3>3, MainGoes DEF Search_by_range, TypeOK, MainPcs, rvars
      <4>2. walk' = [walk EXCEPT !["main"].son = s]
          BY <2>5, <3>3 DEF Search_by_range
      <4>3. walk'["main"].son = s /\ walk'["main"].old = walk["main"].old
          BY <1>1, <4>2 DEF Walks
      <4> QED
          BY <3>1, <3>3, <4>1, <4>3 DEF MainWalkInv, Sons, None
    <3> QED
        BY <3>2, <3>3
  <2>6. CASE LockSearch
    <3>1. /\ walk["main"].son = None /\ walk["main"].old \subseteq {"root"}
          /\ Head(todo) \in Sons
        BY <2>6, NextSon DEF LockSearch, WalkInv, MainWalkInv, TypeOK
    <3>2. pc'["main"] = "searching" /\ search_flag_mutex' = TRUE
        BY <2>6, MainGoes DEF LockSearch, TypeOK, MainPcs
    <3>3. walk'["main"].son = Head(todo) /\ walk'["main"].old = walk["main"].old
        BY <2>6, <1>1 DEF LockSearch, Walks
    <3> QED
        BY <3>1, <3>2, <3>3 DEF MainWalkInv, Sons, None
  <2>7. CASE EndSearch_by_range
    <3>1. pc'["main"] = "search"
        BY <2>7, MainGoes DEF EndSearch_by_range, TypeOK, MainPcs
    <3>2. walk'["main"].son = None /\ walk'["main"].old \subseteq {"root"}
        BY <2>7, <1>1 DEF EndSearch_by_range, Walks
    <3> QED
        BY <3>1, <3>2 DEF MainWalkInv, Sons, None
  <2>8. CASE Downsample
    <3>1. pc'["main"] \in {"idle", "push", "root_lock"}
        BY <2>8, MainGoes DEF Downsample, Operate, BeginPass, TypeOK, MainPcs
    <3>2. walk'["main"] = NoWalk
        BY <2>8, <1>1 DEF Downsample
    <3> QED
        BY <3>1, <3>2, MainOut
  <2>9. CASE WalkFreed
    <3>1. pc'["main"] = "crashed" /\ pc'["rebuild"] = pc["rebuild"]
        BY <2>9, MainGoes DEF WalkFreed, TypeOK, MainPcs
    <3>2. walk' = walk /\ Rebuild_Ptr' = Rebuild_Ptr
        BY <2>9 DEF WalkFreed, rvars
    <3> QED
        BY <3>1, <3>2 DEF MainWalkInv, WalkInv
  <2>10. ASSUME NEW s \in Sons, Push_Down("main", s) PROVE MainWalkInv'
    <3>1. pc'["main"] \in {"push", "push_lock"} /\ pc["main"] \in {"push", "push_lock"}
        BY <2>10, MainGoes DEF Push_Down, TypeOK, MainPcs
    <3>2. walk' = walk /\ op' = op
        BY <2>10 DEF Push_Down, mvars
    <3> QED
        BY <1>1, <3>1, <3>2, MainOut, MainFinding DEF MainWalkInv, WalkInv, Finding
  <2>11. ASSUME NEW s \in Sons, Push_Down_Locked("main", s) PROVE MainWalkInv'
    <3>1. pc'["main"] \in {"push", "push_lock"} /\ pc["main"] \in {"push", "push_lock"}
        BY <2>11, MainGoes DEF Push_Down_Locked, TypeOK, MainPcs
    <3>2. walk' = walk /\ op' = op
        BY <2>11 DEF Push_Down_Locked, mvars
    <3> QED
        BY <1>1, <3>1, <3>2, MainOut, MainFinding DEF MainWalkInv, WalkInv, Finding
  <2>12. CASE AtFather
      BY <2>12, MainGoes, MainOut
      DEF AtFather, MainWalkInv, Finding, WalkInv, TypeOK, MainPcs, tvars, rvars, mvars, mutexes,
          history
  <2>13. ASSUME NEW s \in Sons, Visit(s) PROVE MainWalkInv'
      BY <2>13, MainGoes, MainOut
      DEF Visit, MainWalkInv, Finding, WalkInv, TypeOK, MainPcs, tvars, rvars, mvars, mutexes,
          history
  <2>14. ASSUME NEW s \in Sons, VisitLocked(s) PROVE MainWalkInv'
      BY <2>14, MainGoes, MainOut
      DEF VisitLocked, MainWalkInv, Finding, WalkInv, TypeOK, MainPcs, tvars, rvars, mvars,
          mutexes, history
  <2>15. CASE Return
      BY <2>15, MainGoes, MainOut
      DEF Return, MainWalkInv, Finding, WalkInv, TypeOK, MainPcs, tvars, rvars, mvars, mutexes,
          history
  <2>16. CASE AddKept
    <3>1. CASE Rebuild_Ptr = "root"
      <4>1. pc'["main"] = "unlogged"
          BY <2>16, <3>1, MainGoes DEF AddKept, TypeOK, MainPcs
      <4>2. walk' = [walk EXCEPT !["main"] = AtRoot(FALSE)]
          BY <2>16, <3>1 DEF AddKept
      <4>3. walk'["main"].son = None /\ walk'["main"].old = {}
          BY <1>1, <4>2 DEF AtRoot
      <4> QED
          BY <4>1, <4>3 DEF MainWalkInv, Sons, None
    <3>2. CASE Rebuild_Ptr # "root"
      <4>1. pc'["main"] = "push"
          BY <2>16, <3>2, MainGoes DEF AddKept, BeginPass, TypeOK, MainPcs
      <4>2. walk'["main"] = NoWalk
          BY <2>16, <3>2 DEF AddKept, WalkInv, MainWalkInv, Finding
      <4> QED
          BY <4>1, <4>2, MainOut
    <3> QED
        BY <3>1, <3>2
  <2>17. CASE EndUnlogged
    <3>1. pc'["main"] = "idle" /\ walk'["main"] = NoWalk
        BY <2>17, <1>1, MainGoes DEF EndUnlogged, TypeOK, MainPcs
    <3> QED
        BY <3>1, MainOut
  <2>18. CASE RootLocked
      BY <2>18, MainGoes, MainOut
      DEF RootLocked, MainWalkInv, Finding, WalkInv, TypeOK, MainPcs, tvars, rvars, mvars,
          mutexes, history
  <2>19. CASE RootFlagged
      BY <2>19, MainGoes, MainOut
      DEF RootFlagged, MainWalkInv, Finding, WalkInv, TypeOK, MainPcs, tvars, rvars, mvars,
          mutexes, history
  <2>20. CASE StartSearches
      BY <2>20, MainOut, IkdRebuildAssumption
      DEF StartSearches, MainWalkInv, Finding, WalkInv, Threads, tvars, rvars, mvars, mutexes,
          history
  <2>21. CASE EndSearches
      BY <2>21, MainGoes, MainOut
      DEF EndSearches, MainWalkInv, Finding, WalkInv, TypeOK, MainPcs, tvars, rvars, mvars,
          mutexes, history
  <2>22. CASE stop_thread
      BY <2>22, MainGoes, MainOut
      DEF stop_thread, MainWalkInv, Finding, WalkInv, TypeOK, MainPcs, tvars, rvars, mvars,
          mutexes, history
  <2>23. CASE Join
      BY <2>23, MainGoes, MainOut
      DEF Join, MainWalkInv, Finding, WalkInv, TypeOK, MainPcs, tvars, rvars, mvars, mutexes,
          history
  <2> QED
      BY <2>1, <2>2, <2>3, <2>4, <2>5, <2>6, <2>7, <2>8, <2>9, <2>10, <2>11, <2>12, <2>13, <2>14,
         <2>15, <2>16, <2>17, <2>18, <2>19, <2>20, <2>21, <2>22, <2>23
      DEF Main, Points
<1> QED
    BY <1>2

\* No search thread is in what is copied or swapped.
LEMMA NobodyIn ==
    ASSUME TypeOK, RebuildInv, CountInv, WalkInv, KeepsOut, NEW t \in Searchers
    PROVE  ~In(t, slot)
<1>1. Rebuild_Ptr = slot /\ slot \in Subtrees /\ ~walk[t].counted
    BY DEF RebuildInv, Rebuilding, KeepsOut, CountInv, Counted
<1>2. SearcherInv(t) /\ pc[t] \in SearchPcs
    BY DEF WalkInv, TypeOK, PcOK
<1>3. CASE slot = "root"
    BY <1>1, <1>2, <1>3 DEF SearcherInv, In
<1>4. CASE slot \in Sons
  <2>1. pc[t] \in {"idle", "at_root"} => ~walk[t].root
      BY <1>2 DEF SearcherInv, NoWalk
  <2>2. pc[t] \in {"at_father", "choose"} => walk[t].son = None
      BY <1>2 DEF SearcherInv
  <2>3. pc[t] = "inside" => walk[t].son \notin {slot, "root"}
      BY <1>1, <1>2, <1>4 DEF SearcherInv, Sons, None
  <2> QED
      BY <1>2, <1>4, <2>1, <2>2, <2>3 DEF In, SearchPcs, Sons, None
<1> QED
    BY <1>1, <1>3, <1>4 DEF Subtrees

\* The rebuild thread swaps and frees what no search is in.
LEMMA RebuilderWalks ==
    ASSUME TypeOK, WalkInv, RebuildInv, CountInv, Rebuilder, pc["main"] # "crashed"
    PROVE  WalkInv'
<1>1. RebuilderKeeps /\ PcOK'
    BY RebuilderFrame DEF TypeOK
<1>2. \A t \in Searchers : walk'[t] = walk[t]
  <2>1. CASE Swap
      BY <2>1, SwapWalk, NobodyIn DEF Swap, KeepsOut
  <2>2. CASE ~Swap
      BY <1>1, <2>2 DEF RebuilderKeeps
  <2> QED
      BY <2>1, <2>2
<1>3. \A t \in Searchers : SearcherInv(t)'
    BY <1>1, <1>2 DEF WalkInv, SearcherInv, RebuilderKeeps, Sons, Subtrees, None
<1>4. MainWalkInv'
  <2>1. CASE Swap
    <3>1. /\ slot \in Subtrees /\ Rebuild_Ptr = slot /\ Rebuild_Ptr' = slot
          /\ pc["rebuild"] = "swap" /\ pc'["rebuild"] = "swapped"
        BY <2>1, RebuilderGoes DEF Swap, RebuildInv, Rebuilding, rvars, TypeOK, RebuildPcs
    <3>2. walk["main"] \in Walks
        BY WalkOf DEF TypeOK
    <3>3. CASE In("main", slot)
      <4>1. walk'["main"] = [walk["main"] EXCEPT !.old = @ \cup {slot}]
          BY <2>1, <3>3, SwapWalk
      <4>2. /\ walk'["main"].son = walk["main"].son
            /\ walk'["main"].old = walk["main"].old \cup {slot}
          BY <3>2, <4>1 DEF Walks
      <4>3. walk["main"] # NoWalk
          BY <3>3 DEF In, NoWalk
      <4>4. walk["main"].son = None => slot = "root"
          BY <3>1, <3>3 DEF In, Subtrees, Sons, None
      <4>5. walk["main"].son \in Sons /\ slot # "root" => walk["main"].son = slot
          BY <3>3 DEF In, Sons
      <4> QED
          BY <1>1, <3>1, <4>2, <4>3, <4>4, <4>5
          DEF WalkInv, MainWalkInv, RebuilderKeeps, Finding
    <3>4. CASE ~In("main", slot)
      <4>1. walk'["main"] = walk["main"]
          BY <2>1, <3>4, SwapWalk
      <4> QED
          BY <1>1, <3>1, <4>1 DEF WalkInv, MainWalkInv, RebuilderKeeps, Finding
    <3> QED
        BY <3>3, <3>4
  <2>2. CASE Swapped
    <3>1. Rebuild_Ptr' = None /\ ~search_flag_mutex /\ walk' = walk
        BY <2>2 DEF Swapped
    <3>2. walk["main"].son \in Sons => pc["main"] = "searching"
        BY DEF WalkInv, MainWalkInv, NoWalk, Sons, None
    <3> QED
        BY <1>1, <3>1, <3>2 DEF WalkInv, MainWalkInv, RebuilderKeeps, Finding, Sons, None
  <2>3. CASE ~Swap /\ ~Swapped
    <3>1. Rebuild_Ptr' = Rebuild_Ptr /\ walk' = walk /\ pc["rebuild"] # "swapped"
        BY <2>3
        DEF Rebuilder, Begin, Poll, Flatten, Copied, Drain, Free, LockSearches, rvars
    <3> QED
        BY <1>1, <3>1 DEF WalkInv, MainWalkInv, RebuilderKeeps, Finding
  <2> QED
      BY <2>1, <2>2, <2>3
<1> QED
    BY <1>1, <1>3, <1>4 DEF WalkInv, RebuilderKeeps

\* A search thread enters what is being rebuilt only as one of the counted.
LEMMA SearcherWalks ==
    ASSUME TypeOK, WalkInv, FlagInv, NEW u \in Searchers, SearchStep(u)
    PROVE  WalkInv'
<1>1. PcOK' /\ SearcherKeeps(u)
    BY SearcherFrame DEF TypeOK
<1>2. pc["main"] = "searches"
    BY DEF WalkInv, SearchStep, Nearest_Search, EnterFather, CountIn, CountOut, Search
<1>3. \A t \in (Searchers \cup {"main"}) \ {u} : walk'[t] = walk[t]
    BY SearcherType
<1>4. /\ walk[u] \in Walks /\ u \in DOMAIN walk /\ SearcherInv(u)
      /\ Rebuild_Ptr' = Rebuild_Ptr /\ Rebuild_Ptr \in Subtrees \cup {None}
    BY <1>1, WalkOf, IkdRebuildAssumption
    DEF TypeOK, WalkOK, Threads, WalkInv, SearcherKeeps, rvars, CopyOK
<1>5. SearcherInv(u)'
  <2>1. CASE Nearest_Search(u)
    <3>1. walk[u] = NoWalk
        BY <1>4, <2>1 DEF Nearest_Search, SearcherInv
    <3>2. CASE Rebuild_Ptr = "root"
      <4>1. walk' = [walk EXCEPT ![u].son = "root"]
          BY <2>1, <3>2 DEF Nearest_Search
      <4>2. /\ walk'[u].son = "root" /\ walk'[u].root = walk[u].root
            /\ walk'[u].counted = walk[u].counted /\ walk'[u].old = walk[u].old
          BY <1>4, <4>1 DEF Walks
      <4>3. pc'[u] = "count"
          BY <2>1, <3>2, SearcherGoes DEF Nearest_Search, TypeOK, SearchPcs
      <4> QED
          BY <1>4, <3>1, <3>2, <4>2, <4>3 DEF SearcherInv, NoWalk, Subtrees
    <3>3. CASE Rebuild_Ptr # "root"
      <4>1. walk' = [walk EXCEPT ![u] = AtRoot(FALSE)]
          BY <2>1, <3>3 DEF Nearest_Search
      <4>2. walk'[u] = AtRoot(FALSE)
          BY <1>4, <4>1
      <4>3. pc'[u] = "at_father"
          BY <2>1, <3>3, SearcherGoes DEF Nearest_Search, TypeOK, SearchPcs
      <4> QED
          BY <1>4, <3>3, <4>2, <4>3 DEF SearcherInv, AtRoot
    <3> QED
        BY <3>2, <3>3
  <2>2. CASE EnterFather(u)
    <3>1. walk' = walk /\ pc[u] = "at_father"
        BY <2>2 DEF EnterFather
    <3>2. pc'[u] \in {"inside", "choose"}
        BY <2>2, SearcherGoes DEF EnterFather, FlagInv, TypeOK, SearchPcs
    <3> QED
        BY <1>4, <3>1, <3>2 DEF SearcherInv, None
  <2>3. CASE CountIn(u)
    <3>1. CASE walk[u].son = "root"
      <4>1. walk' = [walk EXCEPT ![u] = AtRoot(TRUE)]
          BY <2>3, <3>1 DEF CountIn
      <4>2. walk'[u] = AtRoot(TRUE)
          BY <1>4, <4>1
      <4>3. pc'[u] = "at_father" /\ Rebuild_Ptr \in {"root", None}
          BY <1>4, <2>3, <3>1, SearcherGoes DEF CountIn, TypeOK, SearchPcs, SearcherInv
      <4> QED
          BY <1>4, <4>2, <4>3 DEF SearcherInv, AtRoot
    <3>2. CASE walk[u].son # "root"
      <4>1. walk' = [walk EXCEPT ![u].counted = TRUE]
          BY <2>3, <3>2 DEF CountIn
      <4>2. /\ walk'[u].counted = TRUE /\ walk'[u].son = walk[u].son
            /\ walk'[u].root = walk[u].root /\ walk'[u].old = walk[u].old
          BY <1>4, <4>1 DEF Walks
      <4>3. pc'[u] = "inside" /\ walk[u].root
          BY <1>4, <2>3, <3>2, SearcherGoes DEF CountIn, TypeOK, SearchPcs, SearcherInv
      <4> QED
          BY <1>4, <3>2, <4>2, <4>3 DEF SearcherInv
    <3> QED
        BY <3>1, <3>2
  <2>4. CASE CountOut(u)
    <3>1. walk'[u] = NoWalk
        BY <1>4, <2>4 DEF CountOut
    <3>2. pc'[u] = "idle"
        BY <2>4, SearcherGoes DEF CountOut, TypeOK, SearchPcs
    <3> QED
        BY <3>1, <3>2 DEF SearcherInv, NoWalk
  <2>5. ASSUME NEW s \in Sons, Search(u, s) PROVE SearcherInv(u)'
    <3>1. walk' = [walk EXCEPT ![u].son = s]
        BY <2>5 DEF Search
    <3>2. /\ walk'[u].son = s /\ walk'[u].root = walk[u].root
          /\ walk'[u].counted = walk[u].counted /\ walk'[u].old = walk[u].old
        BY <1>4, <3>1 DEF Walks
    <3>3. /\ pc'[u] = IF Rebuild_Ptr = s THEN "count" ELSE "inside"
          /\ walk[u].root /\ (walk[u].counted => Rebuild_Ptr \in {"root", None})
          /\ (Rebuild_Ptr = "root" => walk[u].counted) /\ walk[u].old = {}
        BY <1>4, <2>5, SearcherGoes DEF Search, TypeOK, SearchPcs, SearcherInv
    <3> QED
        BY <1>4, <3>2, <3>3 DEF SearcherInv, Sons, Subtrees, None
  <2> QED
      BY <2>1, <2>2, <2>3, <2>4, <2>5 DEF SearchStep
<1>6. MainWalkInv'
    BY <1>1, <1>2, <1>3, <1>4, IkdRebuildAssumption
    DEF WalkInv, MainWalkInv, SearcherKeeps, Finding
<1>7. \A t \in Searchers \ {u} : SearcherInv(t)'
    BY <1>1, <1>3, <1>4 DEF WalkInv, SearcherInv, SearcherKeeps
<1> QED
    BY <1>1, <1>2, <1>5, <1>6, <1>7 DEF WalkInv, SearcherKeeps

\* A walk that is counted in, or holds the lock, is in a subtree that stays.
LEMMA WalkStep ==
    ASSUME TypeOK, WalkInv, RebuildInv, CountInv, FlagInv, OpInv, [Next]_vars
    PROVE  WalkInv'
<1>1. CASE Main
    BY <1>1, MainLeavesSearchers, MainWalks DEF WalkInv
<1>2. CASE Rebuilder /\ pc["main"] # "crashed"
    BY <1>2, RebuilderWalks
<1>3. ASSUME NEW u \in Searchers, SearchStep(u) PROVE WalkInv'
    BY <1>3, SearcherWalks
<1>4. CASE UNCHANGED vars
    BY <1>4 DEF vars, tvars, rvars, mvars, mutexes, WalkInv, SearcherInv, MainWalkInv, Finding
<1> QED
    BY <1>1, <1>2, <1>3, <1>4, NextCases DEF TypeOK

-----------------------------------------------------------------------------
(* Flags and what an operation has still to do.                            *)

\* Steps of the mapping thread before and after it changes the tree, and the
\* beginning of an operation, now or as soon as it has the lock.
Calm ==
    /\ UNCHANGED <<tvars, rvars, live, history>>
    /\ Due = "none" /\ Due' = "none"
    /\ pc'["main"] \notin {"push_lock", "visit", "visit_lock", "root_lock", "add"}
    /\ pc'["main"] \in {"push", "search", "search_lock", "searching"} => op' \in Finds
    /\ pc'["main"] = "unlogged" => op' \in Downs /\ Rebuild_Ptr = "root"

Begun(o) ==
    /\ UNCHANGED <<tree, push_down, rvars, history>>
    /\ Due = "none" /\ op' = o
    /\ IF Rebuild_Ptr = "root"
       THEN pc'["main"] = "root_lock" /\ UNCHANGED <<live, father>>
       ELSE BeginPass(o) /\ pc'["main"] = "push"

\* A step of the mapping thread is one of these, or changes the tree.
LEMMA MainSplit ==
    ASSUME TypeOK, WalkInv, FlagInv, OpInv, Main
    PROVE  \/ Calm
           \/ \E o \in Operations : Begun(o)
           \/ \E s \in Sons : \/ Push_Down("main", s) \/ Push_Down_Locked("main", s)
                              \/ Visit(s) \/ VisitLocked(s)
           \/ AtFather \/ Return \/ EndUnlogged \/ RootLocked \/ RootFlagged
<1> DEFINE Quiet == Calm \/ \E o \in Operations : Begun(o)
<1>1. ASSUME NEW o \in Operations, Operate(o), Due = "none",
             UNCHANGED <<tree, push_down, rvars, history>>
      PROVE  Quiet
  <2>1. CASE Rebuild_Ptr = "root"
      BY <1>1, <2>1, MainGoes DEF Operate, Begun, TypeOK, MainPcs
  <2>2. CASE Rebuild_Ptr # "root"
      BY <1>1, <2>2, MainGoes DEF Operate, BeginPass, Begun, TypeOK, MainPcs
  <2> QED
      BY <2>1, <2>2
<1>2. ASSUME NEW p \in Points, Add_Points(p) PROVE Quiet
  <2>1. AddOf(p) \in Operations /\ Operate(AddOf(p)) /\ Due = "none"
      BY <1>2, AddOfType DEF Add_Points, Due
  <2> QED
      BY <1>2, <1>1, <2>1 DEF Add_Points
<1>3. ASSUME NEW p \in Points, NEW voxel \in Boxes, Add_Points_Downsampled(p, voxel) PROVE Quiet
  <2>1. op' \in Finds /\ pc["main"] = "idle" /\ pc'["main"] = "push"
      BY <1>3, MainGoes DEF Add_Points_Downsampled, Finds, TypeOK, MainPcs
  <2>2. Due = "none" /\ Due' = "none"
      BY <2>1 DEF Due, Finds
  <2> QED
      BY <1>3, <2>1, <2>2 DEF Add_Points_Downsampled, Calm
<1>4. ASSUME NEW box \in Boxes, Delete_Point_Boxes(box) PROVE Quiet
  <2>1. [kind |-> "delete", box |-> box] \in Operations /\ Due = "none"
      BY <1>4 DEF Delete_Point_Boxes, Operations, Deletes, Due
  <2> QED
      BY <1>4, <1>1, <2>1 DEF Delete_Point_Boxes
<1>5. CASE EnterSons
  <2>1. pc'["main"] = "search" /\ pc["main"] = "push" /\ op' = op /\ op \in Finds
      BY <1>5, OpFacts, MainGoes DEF EnterSons, TypeOK, MainPcs, OpInv
  <2>2. Due = "none" /\ Due' = "none"
      BY <2>1 DEF Due, Finds
  <2> QED
      BY <1>5, <2>1, <2>2 DEF EnterSons, Calm
<1>6. ASSUME NEW s \in Sons, Search_by_range(s) PROVE Quiet
    BY <1>6, MainGoes
    DEF Search_by_range, TypeOK, MainPcs, OpInv, Calm, Due, tvars, rvars, mvars, mutexes, history
<1>7. CASE LockSearch
    BY <1>7, MainGoes
    DEF LockSearch, TypeOK, MainPcs, OpInv, Calm, Due, tvars, rvars, mvars, mutexes, history
<1>8. CASE EndSearch_by_range
    BY <1>8, MainGoes
    DEF EndSearch_by_range, TypeOK, MainPcs, OpInv, Calm, Due, tvars, rvars, mvars, mutexes,
        history
<1>9. CASE Downsample
  <2>1. op \in Finds /\ pc["main"] = "search" /\ Due = "none"
      BY <1>9 DEF Downsample, OpInv, Due
  <2>2. AddOf(op.point) \in Operations /\ [op EXCEPT !.kind = "downsample"] \in Operations
      BY <2>1, DownsampleOp, AddOfType DEF Operations
  <2>3. UNCHANGED <<tree, push_down, rvars, history>>
      BY <1>9 DEF Downsample
  <2>4. \/ Goto("main", "idle") /\ UNCHANGED <<live, father>>
        \/ Operate(AddOf(op.point)) \/ Operate([op EXCEPT !.kind = "downsample"])
      BY <1>9 DEF Downsample
  <2>5. CASE Goto("main", "idle") /\ UNCHANGED <<live, father>>
      BY <2>1, <2>3, <2>5, MainGoes DEF TypeOK, MainPcs, Calm, Due, tvars
  <2> QED
      BY <1>1, <2>1, <2>2, <2>3, <2>4, <2>5
<1>10. CASE WalkFreed
  <2>1. pc["main"] \in {"push", "push_lock", "visit", "visit_lock"} => Finding
      BY <1>10 DEF WalkFreed, WalkInv, MainWalkInv, NoWalk
  <2>2. pc'["main"] = "crashed"
      BY <1>10, MainGoes DEF WalkFreed, TypeOK, MainPcs
  <2>3. Due = "none" /\ Due' = "none"
      BY <2>1, <2>2 DEF Due, Finding
  <2> QED
      BY <1>10, <2>2, <2>3 DEF WalkFreed, Calm, mvars
<1>11. CASE AddKept
  <2>1. op \in Downs /\ pc["main"] = "add" /\ Due = "none" /\ AddOf(op.point) \in Operations
      BY <1>11, AddOfType DEF AddKept, OpInv, Due, Downs
  <2>2. UNCHANGED <<tree, push_down, rvars, history>>
      BY <1>11 DEF AddKept
  <2>3. CASE Rebuild_Ptr = "root"
    <3>1. pc'["main"] = "unlogged" /\ UNCHANGED <<op, live, father>>
        BY <1>11, <2>3, MainGoes DEF AddKept, TypeOK, MainPcs
    <3>2. Due' = "none"
        BY <3>1 DEF Due
    <3> QED
        BY <2>1, <2>2, <2>3, <3>1, <3>2 DEF Calm, tvars
  <2>4. CASE Rebuild_Ptr # "root"
    <3>1. BeginPass(AddOf(op.point)) /\ pc'["main"] = "push" /\ op' = AddOf(op.point)
        BY <1>11, <2>4, MainGoes DEF AddKept, BeginPass, TypeOK, MainPcs
    <3> QED
        BY <2>1, <2>2, <2>4, <3>1 DEF Begun
  <2> QED
      BY <2>3, <2>4
<1>12. CASE StartSearches
  <2>1. pc["main"] = "idle" /\ pc'["main"] = "searches"
      BY <1>12, IkdRebuildAssumption DEF StartSearches, Threads
  <2> QED
      BY <1>12, <2>1 DEF StartSearches, Calm, Due
<1>13. CASE EndSearches
    BY <1>13, MainGoes
    DEF EndSearches, TypeOK, MainPcs, OpInv, Calm, Due, tvars, rvars, mvars, mutexes, history
<1>14. CASE stop_thread
    BY <1>14, MainGoes
    DEF stop_thread, TypeOK, MainPcs, OpInv, Calm, Due, tvars, rvars, mvars, mutexes, history
<1>15. CASE Join
    BY <1>15, MainGoes
    DEF Join, TypeOK, MainPcs, OpInv, Calm, Due, tvars, rvars, mvars, mutexes, history
<1> QED
    BY <1>2, <1>3, <1>4, <1>5, <1>6, <1>7, <1>8, <1>9, <1>10, <1>11, <1>12, <1>13, <1>14, <1>15
    DEF Main, Points

\* An operation that begins keeps the flags and is all due.
LEMMA BegunFlags ==
    ASSUME TypeOK, FlagInv, NEW o \in Operations, Begun(o)
    PROVE  /\ FlagInv' /\ OpInv'
           /\ Rebuild_Ptr # "root" => Due' = "all" /\ todo' = SonsOf(o) /\ live' = After(o, live)
           /\ Rebuild_Ptr = "root" => Due' = "none" /\ live' = live
           /\ father'.alive = father.alive
<1>1. op' = o /\ Rebuild_Ptr' = Rebuild_Ptr /\ push_down' = push_down
    BY DEF Begun, rvars
<1>2. o.kind \in {"add", "delete", "downsample"}
    BY OpFacts
<1>3. CASE Rebuild_Ptr = "root"
  <2>1. pc'["main"] = "root_lock" /\ father' = father /\ live' = live
      BY <1>3 DEF Begun
  <2>2. Due' = "none"
      BY <2>1 DEF Due
  <2>3. FlagInv'
      BY <1>1, <1>3, <2>1 DEF FlagInv, Passing
  <2>4. OpInv'
      BY <1>1, <2>1, <2>2 DEF OpInv
  <2> QED
      BY <1>3, <2>1, <2>2, <2>3, <2>4
<1>4. CASE Rebuild_Ptr # "root"
  <2>1. /\ pc'["main"] = "push" /\ todo' = SonsOf(o) /\ live' = After(o, live)
        /\ father' = [father EXCEPT !.working_flag = TRUE]
      BY <1>4 DEF Begun, BeginPass
  <2>2. /\ father'.alive = father.alive /\ father'.tree_deleted = father.tree_deleted
        /\ father'.working_flag
      BY <2>1 DEF TypeOK, TreeOK
  <2>3. Due' = "all"
      BY <1>1, <1>2, <2>1 DEF Due
  <2>4. FlagInv'
      BY <1>1, <1>4, <2>1, <2>2 DEF FlagInv, Passing
  <2>5. o.kind = "add" => SonsOf(o) = <<SideOf(o.point)>>
      BY DEF SonsOf
  <2>6. OpInv'
      BY <1>1, <2>1, <2>3, <2>5 DEF OpInv
  <2> QED
      BY <1>4, <2>1, <2>2, <2>3, <2>4, <2>6
<1> QED
    BY <1>3, <1>4

\* Flags pend below a deleted father only, and are pushed before a visit.
LEMMA MainFlags ==
    ASSUME TypeOK, WalkInv, FlagInv, OpInv, Main
    PROVE  FlagInv'
<1>1. CASE Calm
  <2>1. UNCHANGED <<father, push_down, Rebuild_Ptr>>
      BY <1>1 DEF Calm, tvars, rvars
  <2>2. pc'["main"] = "push" => op'.kind = "search"
      BY <1>1 DEF Calm, Finds
  <2> QED
      BY <1>1, <2>1, <2>2 DEF Calm, FlagInv, Passing
<1>2. ASSUME NEW o \in Operations, Begun(o) PROVE FlagInv'
    BY <1>2, BegunFlags
<1>3. ASSUME NEW s \in Sons, Push_Down("main", s) PROVE FlagInv'
    BY <1>3, MainGoes DEF Push_Down, TypeOK, FlagInv, Passing, MainPcs, TreeOK, mvars, mutexes
<1>4. ASSUME NEW s \in Sons, Push_Down_Locked("main", s) PROVE FlagInv'
    BY <1>4, MainGoes
    DEF Push_Down_Locked, TypeOK, FlagInv, Passing, MainPcs, TreeOK, mvars, mutexes
<1>5. ASSUME NEW s \in Sons, Visit(s) PROVE FlagInv'
    BY <1>5, MainGoes DEF Visit, TypeOK, FlagInv, Passing, MainPcs, MayRebuild, Sons
<1>6. ASSUME NEW s \in Sons, VisitLocked(s) PROVE FlagInv'
    BY <1>6, MainGoes DEF VisitLocked, TypeOK, FlagInv, Passing, MainPcs
<1>7. CASE AtFather
  <2>1. pc'["main"] \in {"idle", "add", "visit"} /\ op' = op /\ Rebuild_Ptr' = Rebuild_Ptr
      BY <1>7, MainGoes DEF AtFather, TypeOK, MainPcs, mvars, rvars
  <2>2. pc["main"] = "push" /\ op.kind # "search" /\ \A s \in Sons : ~push_down[s]
      BY <1>7 DEF AtFather
  <2>3. \/ father'.tree_deleted /\ father'.working_flag /\ pc'["main"] \in {"idle", "add"}
        \/ push_down' = push_down /\ father'.working_flag
      BY <1>7, <2>2, MainGoes
      DEF AtFather, TypeOK, TreeOK, MainPcs, FlagFather, FlagInv, Passing
  <2> QED
      BY <2>1, <2>2, <2>3 DEF FlagInv, Passing
<1>8. CASE Return
  <2>1. pc'["main"] \in {"idle", "add"} /\ push_down' = push_down /\ pc["main"] = "visit"
      BY <1>8, MainGoes DEF Return, TypeOK, MainPcs
  <2> QED
      BY <2>1 DEF FlagInv, Passing
<1>9. CASE EndUnlogged
  <2>1. pc'["main"] = "idle"
      BY <1>9, MainGoes DEF EndUnlogged, TypeOK, MainPcs
  <2>2. UNCHANGED <<father, push_down>> \/ push_down' = NoFlags
      BY <1>9 DEF EndUnlogged, tvars
  <2> QED
      BY <2>1, <2>2 DEF FlagInv, Passing, NoFlags
<1>10. CASE RootLocked
  <2>1. pc'["main"] = "idle" /\ push_down' = NoFlags
      BY <1>10, MainGoes DEF RootLocked, TypeOK, MainPcs
  <2> QED
      BY <2>1 DEF FlagInv, Passing, NoFlags
<1>11. CASE RootFlagged
  <2>1. pc'["main"] = "idle" /\ father'.tree_deleted /\ father'.working_flag
      BY <1>11, MainGoes DEF RootFlagged, FlagFather, TypeOK, TreeOK, MainPcs
  <2> QED
      BY <2>1 DEF FlagInv, Passing
<1> QED
    BY <1>1, <1>2, <1>3, <1>4, <1>5, <1>6, <1>7, <1>8, <1>9, <1>10, <1>11, MainSplit

\* A flag that waits to be pushed says that the father was deleted.
LEMMA FlagStep ==
    ASSUME TypeOK, RebuildInv, WalkInv, FlagInv, OpInv, [Next]_vars
    PROVE  FlagInv'
<1>1. CASE Main
    BY <1>1, MainFlags
<1>2. CASE Rebuilder
  <2>1. RebuilderKeeps
      BY <1>2, RebuilderFrame DEF TypeOK
  <2>2. CASE (Flatten \/ Swap) /\ slot = "root"
    <3>1. Rebuild_Ptr = "root" /\ Rebuild_Ptr' = "root" /\ push_down' = NoFlags
        BY <2>2 DEF Flatten, Swap, RebuildInv, Rebuilding, rvars
    <3>2. ~Passing /\ pc["main"] \notin {"push_lock", "visit", "visit_lock"}
        BY <3>1 DEF FlagInv, NextSon, TypeOK, OpOK, Passing, Sons, None
    <3> QED
        BY <2>1, <3>1, <3>2 DEF FlagInv, Passing, RebuilderKeeps, NoFlags
  <2>3. CASE ~((Flatten \/ Swap) /\ slot = "root")
    <3>1. push_down' = push_down
          /\ (father' = father \/ (~father.working_flag /\ ~father'.working_flag))
        BY <1>2, <2>3, FatherType
        DEF Rebuilder, Poll, Begin, LockSearches, Flatten, Copied, Drain, Swap, Swapped, Free,
            tvars, TypeOK, TreeOK
    <3> QED
        BY <2>1, <3>1 DEF FlagInv, Passing, RebuilderKeeps, None
  <2> QED
      BY <2>2, <2>3
<1>3. ASSUME NEW u \in Searchers, SearchStep(u) PROVE FlagInv'
    BY <1>3, SearcherFrame DEF TypeOK, SearcherKeeps, FlagInv, Passing, tvars, rvars
<1>4. CASE UNCHANGED vars
    BY <1>4 DEF vars, tvars, rvars, mvars, FlagInv, Passing
<1> QED
    BY <1>1, <1>2, <1>3, <1>4, NextCases DEF TypeOK

\* Nothing comes after one.
LEMMA TailOne ==
    ASSUME NEW x
    PROVE  Tail(<<x>>) = <<>>
    OBVIOUS

\* What is still to do is what the operation began with, or less.
LEMMA MainOps ==
    ASSUME TypeOK, WalkInv, FlagInv, OpInv, Main
    PROVE  OpInv'
<1>1. CASE Calm
    BY <1>1 DEF Calm, OpInv
<1>2. ASSUME NEW o \in Operations, Begun(o) PROVE OpInv'
    BY <1>2, BegunFlags
<1>3. ASSUME NEW s \in Sons, Push_Down("main", s) \/ Push_Down_Locked("main", s) PROVE OpInv'
  <2>1. /\ UNCHANGED <<op, todo>> /\ pc["main"] \in {"push", "push_lock"}
        /\ pc'["main"] \in {"push", "push_lock"}
      BY <1>3, MainGoes DEF Push_Down, Push_Down_Locked, TypeOK, MainPcs, mvars
  <2> QED
      BY <2>1 DEF OpInv, Due
<1>4. ASSUME NEW s \in Sons, Visit(s) \/ VisitLocked(s) PROVE OpInv'
  <2>1. /\ op' = op /\ pc["main"] \in {"visit", "visit_lock"}
        /\ pc'["main"] \in {"visit", "visit_lock"} /\ todo # <<>>
      BY <1>4, MainGoes DEF Visit, VisitLocked, TypeOK, MainPcs, FlagInv
  <2>2. todo' = todo \/ todo' = Tail(todo)
      BY <1>4 DEF Visit, VisitLocked
  <2>3. op.kind = "add" => Tail(todo) = <<>>
    <3>1. op.kind = "add" => todo = <<SideOf(op.point)>>
        BY <2>1 DEF OpInv, Due
    <3> QED
        BY <3>1, TailOne, Zenon
  <2> QED
      BY <2>1, <2>2, <2>3 DEF OpInv, Due
<1>5. CASE AtFather \/ Return
  <2>1. /\ op' = op /\ todo' = todo /\ Due # "none"
        /\ pc'["main"] \in {"idle", "visit", "add"} /\ op \in Operations
      BY <1>5, MainGoes DEF AtFather, Return, TypeOK, MainPcs, mvars, Due, OpInv
  <2>2. pc'["main"] = "add" => op \in Downs
      BY <1>5, <2>1, OpFacts, MainGoes DEF AtFather, Return, TypeOK, MainPcs
  <2>3. Due' \in {"none", "sons"}
      BY <2>1 DEF Due
  <2> QED
      BY <2>1, <2>2, <2>3 DEF OpInv
<1>6. CASE EndUnlogged \/ RootLocked \/ RootFlagged
  <2>1. pc'["main"] = "idle"
      BY <1>6, MainGoes DEF EndUnlogged, RootLocked, RootFlagged, TypeOK, MainPcs
  <2> QED
      BY <2>1 DEF OpInv, Due
<1> QED
    BY <1>1, <1>2, <1>3, <1>4, <1>5, <1>6, MainSplit

\* The operation at work keeps to its sons.
LEMMA OpStep ==
    ASSUME TypeOK, WalkInv, FlagInv, OpInv, [Next]_vars
    PROVE  OpInv'
<1>1. CASE Main
    BY <1>1, MainOps
<1>2. CASE Rebuilder
    BY <1>2, RebuilderFrame DEF TypeOK, RebuilderKeeps, OpInv, Due
<1>3. ASSUME NEW u \in Searchers, SearchStep(u) PROVE OpInv'
    BY <1>3, SearcherFrame DEF TypeOK, SearcherKeeps, OpInv, Due
<1>4. CASE UNCHANGED vars
    BY <1>4 DEF vars, mvars, OpInv, Due
<1> QED
    BY <1>1, <1>2, <1>3, <1>4, NextCases DEF TypeOK

-----------------------------------------------------------------------------
(* The log.                                                                *)

\* An entry more is a step more.
LEMMA ReplayMore ==
    ASSUME NEW os \in Seq(Logged), NEW A, NEW B, NEW o \in Logged,
           Replay(os, A, B), Applied(o, B) \in SUBSET All
    PROVE  Replay(os \o <<o>>, A, Applied(o, B))
<1> DEFINE n == Len(os)
<1> DEFINE q == os \o <<o>>
<1>1. PICK h \in [0 .. n -> SUBSET All] :
          /\ h[0] = A /\ h[n] = B
          /\ \A i \in 1 .. n : h[i] = Applied(os[i], h[i - 1])
    BY DEF Replay
<1>2. n \in Nat /\ Len(q) = n + 1 /\ q[n + 1] = o /\ \A i \in 1 .. n : q[i] = os[i]
    OBVIOUS
<1> DEFINE g == [i \in 0 .. n + 1 |-> IF i = n + 1 THEN Applied(o, B) ELSE h[i]]
<1>3. g \in [0 .. n + 1 -> SUBSET All]
    BY <1>2
<1>4. g[0] = A /\ g[n + 1] = Applied(o, B)
    BY <1>1, <1>2
<1>5. ASSUME NEW i \in 1 .. n + 1 PROVE g[i] = Applied(q[i], g[i - 1])
  <2>1. CASE i = n + 1
    <3>1. g[i] = Applied(o, B) /\ g[i - 1] = h[n]
        BY <1>2, <2>1
    <3> QED
        BY <1>1, <1>2, <2>1, <3>1
  <2>2. CASE i # n + 1
    <3>1. i \in 1 .. n /\ g[i] = h[i] /\ g[i - 1] = h[i - 1]
        BY <1>2, <2>2
    <3> QED
        BY <1>1, <1>2, <3>1
  <2> QED
      BY <2>1, <2>2
<1> HIDE DEF g, q
<1> QED
    BY <1>2, <1>3, <1>4, <1>5 DEF Replay, q

\* The first entry replayed is a step less.
LEMMA ReplayOne ==
    ASSUME NEW os \in Seq(Logged), NEW A, NEW B, os # <<>>, Replay(os, A, B)
    PROVE  Replay(Tail(os), Applied(Head(os), A), B)
<1> DEFINE n == Len(os)
<1> DEFINE q == Tail(os)
<1>1. PICK h \in [0 .. n -> SUBSET All] :
          /\ h[0] = A /\ h[n] = B
          /\ \A i \in 1 .. n : h[i] = Applied(os[i], h[i - 1])
    BY DEF Replay
<1>2. /\ n \in Nat \ {0} /\ Len(q) = n - 1 /\ Head(os) = os[1]
      /\ \A i \in 1 .. n - 1 : q[i] = os[i + 1]
    BY HeadTailProperties
<1> DEFINE g == [i \in 0 .. n - 1 |-> h[i + 1]]
<1>3. g \in [0 .. n - 1 -> SUBSET All]
    BY <1>2
<1>4. g[0] = Applied(os[1], A)
  <2>1. 1 \in 1 .. n /\ g[0] = h[1]
      BY <1>2
  <2>2. h[1] = Applied(os[1], h[1 - 1])
      BY <1>1, <2>1
  <2> QED
      BY <1>1, <2>1, <2>2
<1>5. g[n - 1] = B
    BY <1>1, <1>2
<1>6. \A i \in 1 .. n - 1 : g[i] = Applied(q[i], g[i - 1])
    BY <1>1, <1>2
<1> HIDE DEF g, q
<1> QED
    BY <1>2, <1>3, <1>4, <1>5, <1>6 DEF Replay, q

\* An empty log leads nowhere.
LEMMA ReplayNone ==
    ASSUME NEW A \in SUBSET All, NEW B
    PROVE  Replay(<<>>, A, B) <=> A = B
<1>1. Len(<<>>) = 0
    OBVIOUS
<1>2. ASSUME A = B PROVE Replay(<<>>, A, B)
  <2> DEFINE h == [i \in 0 .. 0 |-> A]
  <2>1. h \in [0 .. 0 -> SUBSET All] /\ h[0] = A
      OBVIOUS
  <2> HIDE DEF h
  <2> QED
      BY <1>1, <1>2, <2>1 DEF Replay
<1>3. ASSUME Replay(<<>>, A, B) PROVE A = B
    BY <1>1, <1>3 DEF Replay
<1> QED
    BY <1>2, <1>3

\* The father's own point after an operation under the lock of the root.
LEMMA RootFather ==
    ASSUME TypeOK, RootLocked
    PROVE  father'.alive = (father.alive /\ ~Removes(op, FatherPoint))
<1> DEFINE f == [father EXCEPT !.alive = @ /\ ~Removes(op, FatherPoint), !.working_flag = FALSE]
<1>1. f \in [alive : BOOLEAN, tree_deleted : BOOLEAN, working_flag : BOOLEAN]
      /\ f.alive = (father.alive /\ ~Removes(op, FatherPoint))
    BY DEF TypeOK, TreeOK, Removes
<1>2. father' = Update(f, tree')
    BY DEF RootLocked
<1> HIDE DEF f
<1> QED
    BY <1>1, <1>2, FatherType DEF TypeOK

\* The whole tree after an operation under the lock of the root.
LEMMA RootTarget ==
    ASSUME TypeOK, FlagInv, OpInv, RootLocked \/ RootFlagged
    PROVE  /\ op \in Operations
           /\ op.kind # "downsample" => Whole' = Applied(op, Whole)
           /\ op.kind = "downsample" => Whole' = Applied(AddOf(op.point), Applied(op, Whole))
<1>1. op \in Operations
    BY DEF RootLocked, RootFlagged, OpInv
<1>2. CASE RootLocked
  <2>1. \A s \in Sons : Visible(s)' = tree'[s].alive
      BY <1>2 DEF RootLocked, Visible, NoFlags
  <2>2. father'.alive = (father.alive /\ ~Removes(op, FatherPoint))
      BY <1>2, RootFather
  <2>3. OfFather' = IF op.kind # "add" THEN OfFather \ op.box ELSE OfFather
      BY <2>2 DEF OfFather, Removes
  <2>4. CASE op.kind = "add"
    <3>1. /\ SideOf(op.point) \in Sons
          /\ \A s \in Sons : Visible(s)' = IF s = SideOf(op.point)
                                           THEN Visible(s) \cup {op.point} ELSE Visible(s)
        BY <1>1, <1>2, <2>1, <2>4, RootLockedSons, OpFacts
    <3> QED
        BY <1>1, <2>3, <2>4, <3>1 DEF Whole, Applied, Sons
  <2>5. CASE op.kind = "delete"
    <3>1. \A s \in Sons : Visible(s)' = Visible(s) \ op.box
        BY <1>2, <2>1, <2>5, RootLockedSons
    <3> QED
        BY <1>1, <2>3, <2>5, <3>1 DEF Whole, Applied, Sons
  <2>6. CASE op.kind = "downsample"
    <3>1. /\ SideOf(op.point) \in Sons /\ op.point \in Points
          /\ \A s \in Sons : Visible(s)' = IF s = SideOf(op.point)
                                           THEN (Visible(s) \ op.box) \cup {op.point}
                                           ELSE Visible(s) \ op.box
        BY <1>1, <1>2, <2>1, <2>6, RootLockedSons, OpFacts DEF SideOf, Sons
    <3>2. Applied(AddOf(op.point), Applied(op, Whole)) = (Whole \ op.box) \cup {op.point}
        BY <2>6, <3>1, AddOfType DEF Applied
    <3> QED
        BY <1>1, <2>3, <2>6, <3>1, <3>2 DEF Whole, Sons
  <2> QED
      BY <1>1, <2>4, <2>5, <2>6, OpFacts
<1>3. CASE RootFlagged
  <2>1. op.kind = "delete" /\ Whole \subseteq op.box
      BY <1>3, HeldIsWhole DEF RootFlagged
  <2>2. ~father'.alive /\ \A s \in Sons : push_down'[s]
      BY <1>3 DEF RootFlagged, FlagFather, TypeOK, TreeOK
  <2>3. Whole' = {}
      BY <2>2 DEF Whole, Visible, OfFather, Sons
  <2> QED
      BY <1>1, <2>1, <2>3 DEF Applied
<1> QED
    BY <1>2, <1>3

\* The log stays, and what is rebuilt stays once it has been copied.
Steady == /\ Rebuild_Logger' = Rebuild_Logger
          /\ pc["rebuild"] \in {"copied", "drain", "lock_search_again", "swap"} =>
               Target' = Target

\* One operation, or two, goes into what is rebuilt and into the log.
Noted(o) == /\ Rebuild_Logger' = Rebuild_Logger \o <<o>>
            /\ Target' = Applied(o, Target)
NotedBoth(o, a) == /\ Rebuild_Logger' = Rebuild_Logger \o <<o, a>>
                   /\ Target' = Applied(a, Applied(o, Target))
OnTarget ==
    \/ Steady
    \/ /\ pc["rebuild"] = "drain"
       /\ \E o \in Logged : Noted(o) \/ \E a \in Logged : NotedBoth(o, a)

\* A push or a visit, logged if the son is rebuilt.
LEMMA LockedTarget ==
    ASSUME TypeOK, RebuildInv, Rebuilding, NEW s \in Sons, NEW o \in Logged, Locked(s, o),
           Rebuild_Ptr \in {None, s}, slot' = slot
    PROVE  pc["rebuild"] = "drain" /\ Noted(o)
<1>1. pc["rebuild"] = "drain" /\ slot = s /\ rebuild_flag
    BY DEF Locked, RebuildInv, Sons, Subtrees, None
<1>2. tree'[s].alive = Applied(o, tree[s].alive)
    BY OnSon DEF Locked, TypeOK, TreeOK
<1>3. Target = tree[s].alive /\ Target' = tree'[s].alive
    BY <1>1 DEF Target, Sons
<1> QED
    BY <1>1, <1>2, <1>3 DEF Noted, Locked, Log

\* A push or a visit of a son that is not rebuilt.
LEMMA DirectTarget ==
    ASSUME TypeOK, RebuildInv, Rebuilding, NEW s \in Sons, NEW o \in Logged, Direct(s, o),
           Rebuild_Ptr \in Sons \ {s}, slot' = slot
    PROVE  Steady
<1>1. slot \in Sons \ {s}
    BY DEF RebuildInv
<1>2. tree'[slot] = tree[slot]
    BY <1>1, OnSon DEF Direct, TypeOK, TreeOK
<1> QED
    BY <1>1, <1>2 DEF Steady, Target, Direct, Sons

\* An operation of the mapping thread goes into tree and log alike.
LEMMA MainTarget ==
    ASSUME TypeOK, RebuildInv, WalkInv, FlagInv, OpInv, Main, Good', Rebuilding
    PROVE  OnTarget
<1>1. Rebuild_Ptr = slot /\ slot \in Subtrees /\ rebuild_flag /\ slot' = slot
    BY MainFrame DEF RebuildInv, MainKeeps, TypeOK
<1>2. CASE Calm
    BY <1>2 DEF Calm, OnTarget, Steady, Target, Whole, Visible, OfFather, tvars, rvars
<1>3. ASSUME NEW o \in Operations, Begun(o) PROVE OnTarget
  <2>1. father'.alive = father.alive /\ UNCHANGED <<tree, push_down, slot, Rebuild_Logger>>
      BY <1>3, BegunFlags DEF Begun, rvars
  <2> QED
      BY <2>1 DEF OnTarget, Steady, Target, Whole, Visible, OfFather
<1>4. ASSUME NEW s \in Sons, Push_Down("main", s) PROVE OnTarget
  <2>1. father' = father /\ push_down[s] /\ PushOp \in Logged /\ PushOp \in Pushes
      BY <1>4, PushOpLogged DEF Push_Down
  <2>2. CASE Rebuild_Ptr = s
      BY <1>1, <1>4, <2>1, <2>2
      DEF Push_Down, OnTarget, Steady, Target, Whole, Visible, OfFather
  <2>3. CASE Rebuild_Ptr \in Sons \ {s}
      BY <1>1, <1>4, <2>1, <2>3, DirectTarget DEF Push_Down, OnTarget
  <2>4. CASE Rebuild_Ptr = "root"
    <3>1. Direct(s, PushOp) /\ push_down' = [push_down EXCEPT ![s] = FALSE]
        BY <1>4, <2>4 DEF Push_Down, Sons
    <3>2. tree'[s].alive = {} /\ \A r \in Sons \ {s} : tree'[r] = tree[r]
        BY <2>1, <3>1, OnSon DEF Direct, TypeOK, TreeOK, Applied, Pushes
    <3>3. \A r \in Sons : Visible(r)' = Visible(r)
        BY <2>1, <3>1, <3>2 DEF TypeOK, TreeOK, Visible
    <3>4. Target' = Target
        BY <1>1, <2>1, <2>4, <3>3 DEF Target, Whole, OfFather, Sons
    <3> QED
        BY <3>1, <3>4 DEF OnTarget, Steady, Direct
  <2> QED
      BY <1>1, <2>2, <2>3, <2>4 DEF Subtrees
<1>5. ASSUME NEW s \in Sons, Push_Down_Locked("main", s) PROVE OnTarget
  <2>1. Rebuild_Ptr \in {None, s} /\ push_down[s] /\ PushOp \in Logged
      BY <1>5, PushOpLogged DEF Push_Down_Locked, FlagInv, Sons
  <2> QED
      BY <1>1, <1>5, <2>1, LockedTarget DEF Push_Down_Locked, OnTarget
<1>6. ASSUME NEW s \in Sons, Visit(s) PROVE OnTarget
  <2>1. Rebuild_Ptr # "root" /\ op \in Logged
      BY <1>6, OpFacts DEF Visit, FlagInv, OpInv, Due, Passing
  <2>2. CASE Rebuild_Ptr = s
      BY <1>1, <1>6, <2>2
      DEF Visit, OnTarget, Steady, Target, Whole, Visible, OfFather
  <2>3. CASE Rebuild_Ptr # s
      BY <1>1, <1>6, <2>1, <2>3, DirectTarget DEF Visit, OnTarget, Subtrees
  <2> QED
      BY <2>2, <2>3
<1>7. ASSUME NEW s \in Sons, VisitLocked(s) PROVE OnTarget
  <2>1. Rebuild_Ptr \in {None, s} /\ op \in Logged
      BY <1>7, OpFacts DEF VisitLocked, FlagInv, OpInv, Due
  <2> QED
      BY <1>1, <1>7, <2>1, LockedTarget DEF VisitLocked, OnTarget
<1>8. CASE AtFather \/ Return
  <2>1. Rebuild_Ptr # "root" /\ UNCHANGED <<tree, Rebuild_Logger>>
      BY <1>8 DEF AtFather, Return, FlagInv, Passing, rvars
  <2> QED
      BY <1>1, <2>1 DEF OnTarget, Steady, Target
<1>9. CASE EndUnlogged
  <2>1. pc["rebuild"] \notin {"copied", "drain", "lock_search_again", "swap"}
      BY <1>9 DEF EndUnlogged, Good
  <2> QED
      BY <1>9, <2>1 DEF EndUnlogged, OnTarget, Steady
<1>10. CASE RootLocked \/ RootFlagged
  <2>1. slot = "root" /\ pc["rebuild"] = "drain" /\ Target = Whole /\ Target' = Whole'
      BY <1>1, <1>10 DEF RootLocked, RootFlagged, FlagInv, RebuildInv, Subtrees, None, Sons, Target
  <2>2. op \in Logged /\ op \in Operations
      BY <1>10, RootTarget, OpFacts
  <2>3. CASE op.kind # "downsample"
    <3>1. Rebuild_Logger' = Rebuild_Logger \o <<op>>
        BY <1>1, <1>10, <2>3 DEF RootLocked, RootFlagged, Log
    <3> QED
        BY <1>10, <2>1, <2>2, <2>3, <3>1, RootTarget DEF OnTarget, Noted
  <2>4. CASE op.kind = "downsample"
    <3>1. AddOf(op.point) \in Logged
        BY <2>2, <2>4, OpFacts, AddOfType
    <3>2. Rebuild_Logger' = Rebuild_Logger \o <<op, AddOf(op.point)>>
        BY <1>1, <1>10, <2>4 DEF RootLocked, RootFlagged, Log
    <3>3. NotedBoth(op, AddOf(op.point))
        BY <1>10, <2>1, <2>4, <3>2, RootTarget DEF NotedBoth
    <3> QED
        BY <2>1, <2>2, <3>1, <3>3 DEF OnTarget
  <2> QED
      BY <2>3, <2>4
<1> QED
    BY <1>2, <1>3, <1>4, <1>5, <1>6, <1>7, <1>8, <1>9, <1>10, MainSplit

\* The log still leads from the copy to what is rebuilt.
LEMMA MainLog ==
    ASSUME TypeOK, TypeOK', RebuildInv, WalkInv, FlagInv, OpInv, LogInv, Main
    PROVE  LogInv'
<1>1. MainKeeps
    BY MainFrame DEF TypeOK
<1> SUFFICES ASSUME Good', Rebuilding PROVE LogInv'
    BY <1>1 DEF LogInv, Rebuilding, MainKeeps
<1>2. Good /\ UNCHANGED <<copy, slot>> /\ pc'["rebuild"] = pc["rebuild"]
    BY <1>1 DEF Good, MainKeeps
<1>3. CASE Steady
    BY <1>2, <1>3 DEF Steady, LogInv, Rebuilding, Replayed
<1>4. slot \in Subtrees /\ Target' \in SUBSET All /\ Rebuild_Logger \in Seq(Logged)
  <2>1. (slot \in Subtrees => Target \subseteq All)'
      BY DEF TypeOK, TreeOK, CopyOK, Contents, Whole, Visible, OfFather, All, Target, Sons, Subtrees
  <2> QED
      BY <1>2, <2>1 DEF RebuildInv, TypeOK, CopyOK
<1>5. ASSUME NEW o \in Logged, Noted(o), pc["rebuild"] = "drain" PROVE LogInv'
  <2>1. Replay(Rebuild_Logger, copy.alive, Target)
      BY <1>2, <1>5 DEF LogInv, Replayed
  <2>2. Replay(Rebuild_Logger \o <<o>>, copy.alive, Applied(o, Target))
      BY <1>4, <1>5, <2>1, ReplayMore DEF Noted
  <2> QED
      BY <1>2, <1>5, <2>2 DEF LogInv, Replayed, Noted
<1>6. ASSUME NEW o \in Logged, NEW a \in Logged, NotedBoth(o, a), pc["rebuild"] = "drain"
      PROVE  LogInv'
  <2>1. Replay(Rebuild_Logger, copy.alive, Target)
      BY <1>2, <1>6 DEF LogInv, Replayed
  <2>2. Target \in SUBSET All /\ Applied(a, Applied(o, Target)) \in SUBSET All
      BY <1>4, <1>6, WholeType DEF NotedBoth, TypeOK
  <2>3. Applied(o, Target) \in SUBSET All
      BY <1>6, <2>2 DEF Applied, Logged, Operations, Adds, Deletes, Downs, Pushes, All
  <2>4. Replay(Rebuild_Logger \o <<o>>, copy.alive, Applied(o, Target))
      BY <1>4, <1>6, <2>1, <2>3, ReplayMore
  <2>5. Rebuild_Logger \o <<o>> \in Seq(Logged)
        /\ (Rebuild_Logger \o <<o>>) \o <<a>> = Rebuild_Logger \o <<o, a>>
    <3>1. <<o>> \in Seq(Logged) /\ <<a>> \in Seq(Logged)
        OBVIOUS
    <3>2. <<o>> \o <<a>> \in Seq(Logged) /\ <<o, a>> \in Seq(Logged)
        BY <3>1
    <3>3. <<o>> \o <<a>> = <<o, a>>
      <4>1. Len(<<o>> \o <<a>>) = 2 /\ Len(<<o, a>>) = 2
          BY <3>1
      <4>2. \A i \in 1 .. 2 : (<<o>> \o <<a>>)[i] = <<o, a>>[i]
          BY <3>1
      <4> QED
          BY <3>2, <4>1, <4>2, SeqEqual
    <3>4. Rebuild_Logger \o <<o>> \in Seq(Logged)
        BY <1>4, <3>1
    <3>5. (Rebuild_Logger \o <<o>>) \o <<a>> = Rebuild_Logger \o (<<o>> \o <<a>>)
        BY <1>4, <3>1, ConcatAssociative
    <3> QED
        BY <3>3, <3>4, <3>5
  <2>6. Replay((Rebuild_Logger \o <<o>>) \o <<a>>, copy.alive, Applied(a, Applied(o, Target)))
      BY <1>6, <2>2, <2>4, <2>5, ReplayMore
  <2> QED
      BY <1>2, <1>6, <2>5, <2>6 DEF LogInv, Replayed, NotedBoth
<1> QED
    BY <1>3, <1>5, <1>6, MainTarget DEF OnTarget

\* Copying, replaying and swapping keep copy and log equal to the tree.
LEMMA RebuilderLog ==
    ASSUME TypeOK, TypeOK', RebuildInv, RebuildInv', FlagInv, LogInv, Rebuilder
    PROVE  LogInv'
<1>1. CASE Poll
    BY <1>1, RebuilderGoes
    DEF Poll, TypeOK, LogInv, Rebuilding, RebuildPcs, tvars, rvars, mvars, history, Good
<1>2. CASE Begin
    BY <1>2, RebuilderGoes
    DEF Begin, TypeOK, LogInv, Rebuilding, RebuildPcs, tvars, rvars, mvars, Good
<1>3. CASE LockSearches("lock_search", "flatten")
    BY <1>3, RebuilderGoes
    DEF LockSearches, TypeOK, LogInv, Rebuilding, RebuildPcs, tvars, rvars, mvars, history, Good
<1>4. CASE LockSearches("lock_search_again", "swap")
  <2>1. pc'["rebuild"] = "swap" /\ UNCHANGED <<tvars, rvars, history>>
      BY <1>4, RebuilderGoes DEF LockSearches, TypeOK, RebuildPcs
  <2>2. Target' = Target
      BY <2>1 DEF Target, Whole, Visible, OfFather, tvars, rvars
  <2> QED
      BY <1>4, <2>1, <2>2 DEF LockSearches, LogInv, Rebuilding, rvars, history, Good
<1>5. CASE Flatten
  <2>1. /\ pc'["rebuild"] = "copied" /\ pc["rebuild"] = "flatten"
        /\ UNCHANGED <<Rebuild_Logger, history, slot, father>>
      BY <1>5, RebuilderGoes DEF Flatten, TypeOK, RebuildPcs
  <2>2. copy'.alive = Target'
    <3>1. CASE slot = "root"
      <4>1. copy'.alive = Whole /\ tree' = Settled /\ push_down' = NoFlags
          BY <1>5, <3>1, HeldIsWhole DEF Flatten, Content
      <4>2. \A s \in Sons : Visible(s)' = Visible(s)
          BY <4>1, SettledSons DEF TypeOK, Visible, NoFlags
      <4> QED
          BY <2>1, <3>1, <4>1, <4>2 DEF Target, Whole, OfFather, Sons
    <3>2. CASE slot # "root"
        BY <1>5, <2>1, <3>2 DEF Flatten, Content, Target
    <3> QED
        BY <3>1, <3>2
  <2> QED
      BY <2>1, <2>2 DEF LogInv, Rebuilding, Good, history
<1>6. CASE Copied
  <2>1. pc'["rebuild"] \in {"crashed", "drain"} /\ UNCHANGED <<tvars, rvars, history>>
      BY <1>6, RebuilderGoes DEF Copied, TypeOK, RebuildPcs
  <2>2. Good => Rebuild_Logger = <<>> /\ copy.alive = Target
      BY <1>6 DEF Copied, LogInv, Rebuilding
  <2>3. copy.alive \in SUBSET All
      BY DEF TypeOK, CopyOK, Contents
  <2>4. Good => Replayed
      BY <2>2, <2>3, ReplayNone DEF Replayed
  <2>5. (Good' <=> Good) /\ (Replayed' <=> Replayed)
      BY <2>1 DEF Good, Replayed, Target, Whole, Visible, OfFather, tvars, rvars, history
  <2> QED
      BY <2>1, <2>4, <2>5 DEF LogInv, Rebuilding
<1>7. CASE Drain
  <2>1. /\ pc["rebuild"] = "drain" /\ UNCHANGED <<tvars, slot, history>>
        /\ Good => Replay(Rebuild_Logger, copy.alive, Target)
        /\ Rebuild_Logger \in Seq(Logged) /\ copy \in Contents /\ copy.alive \in SUBSET All
      BY <1>7 DEF Drain, LogInv, TypeOK, CopyOK, Contents, Replayed
  <2>2. (Good' <=> Good) /\ Target' = Target
      BY <2>1 DEF Good, Target, Whole, Visible, OfFather, tvars, history
  <2>3. CASE Rebuild_Logger = <<>>
    <3>1. pc'["rebuild"] = "lock_search_again" /\ UNCHANGED <<copy, Rebuild_Logger>>
        BY <1>7, <2>3, RebuilderGoes DEF Drain, TypeOK, RebuildPcs
    <3>2. Good => copy.alive = Target
        BY <2>1, <2>3, ReplayNone
    <3> QED
        BY <2>2, <2>3, <3>1, <3>2 DEF LogInv, Rebuilding
  <2>4. CASE Rebuild_Logger # <<>>
    <3>1. /\ pc' = pc /\ Rebuild_Logger' = Tail(Rebuild_Logger)
          /\ copy' = run_operation(copy, Head(Rebuild_Logger)) /\ Head(Rebuild_Logger) \in Logged
        BY <1>7, <2>1, <2>4 DEF Drain
    <3>2. copy'.alive = Applied(Head(Rebuild_Logger), copy.alive)
        BY <2>1, <3>1, RunOperation
    <3>3. Good => Replay(Tail(Rebuild_Logger), Applied(Head(Rebuild_Logger), copy.alive), Target)
        BY <2>1, <2>4, ReplayOne
    <3> QED
        BY <2>1, <2>2, <3>1, <3>2, <3>3 DEF LogInv, Replayed
  <2> QED
      BY <2>3, <2>4
<1>8. CASE Swap
    BY <1>8, RebuilderGoes DEF Swap, TypeOK, LogInv, Rebuilding, RebuildPcs, rvars, mvars, mutexes
<1>9. CASE Swapped
    BY <1>9, RebuilderGoes
    DEF Swapped, TypeOK, LogInv, Rebuilding, RebuildPcs, tvars, rvars, mvars
<1>10. CASE Free
    BY <1>10, RebuilderGoes DEF Free, TypeOK, LogInv, Rebuilding, RebuildPcs, tvars, rvars, mvars
<1> QED
    BY <1>1, <1>2, <1>3, <1>4, <1>5, <1>6, <1>7, <1>8, <1>9, <1>10 DEF Rebuilder

\* Every step keeps the copy and the log equal to the tree.
LEMMA LogStep ==
    ASSUME TypeOK, TypeOK', RebuildInv, RebuildInv', WalkInv, FlagInv, OpInv, LogInv, [Next]_vars
    PROVE  LogInv'
<1>1. CASE Main
    BY <1>1, MainLog
<1>2. CASE Rebuilder
    BY <1>2, RebuilderLog
<1>3. ASSUME UNCHANGED <<tvars, rvars, history>>, pc'["rebuild"] = pc["rebuild"] PROVE LogInv'
  <2>1. UNCHANGED <<tree, father, push_down, Rebuild_Logger, slot, copy, confused, unlogged>>
      BY <1>3 DEF tvars, rvars, history
  <2>2. Target' = Target
      BY <2>1 DEF Target, Whole, Visible, OfFather
  <2> QED
      BY <1>3, <2>1, <2>2 DEF LogInv, Rebuilding, Replayed, Good
<1>4. ASSUME NEW u \in Searchers, SearchStep(u) PROVE LogInv'
    BY <1>3, <1>4, SearcherFrame DEF TypeOK, SearcherKeeps
<1>5. CASE UNCHANGED vars
    BY <1>3, <1>5 DEF vars
<1> QED
    BY <1>1, <1>2, <1>4, <1>5, NextCases DEF TypeOK

-----------------------------------------------------------------------------
(* What the tree holds.                                                    *)

\* The son visited is off the list, the others stay on it.
LEMMA TodoTail ==
    ASSUME OpOK, NEW s \in Sons, todo # <<>>, Head(todo) = s, todo' = Tail(todo)
    PROVE  /\ InTodo(s) /\ ~InTodo(s)'
           /\ \A r \in Sons \ {s} : InTodo(r)' <=> InTodo(r)
<1>1. CASE todo = <<"left">>
    BY <1>1 DEF Sons, InTodo
<1>2. CASE todo = <<"right">>
    BY <1>2 DEF Sons, InTodo
<1>3. CASE todo = <<"left", "right">>
  <2>1. s = "left" /\ todo' = <<"right">> /\ Len(todo) = 2
      BY <1>3
  <2>2. InTodo("left") /\ InTodo("right") /\ ~InTodo("left")' /\ InTodo("right")'
      BY <1>3, <2>1 DEF InTodo
  <2> QED
      BY <2>1, <2>2 DEF Sons
<1> QED
    BY <1>1, <1>2, <1>3 DEF OpOK

\* A point of the sons is one son's, and not the father's.
LEMMA SideFacts ==
    /\ \A p \in Points, s \in Sons : p \in PointsOf(s) <=> s = SideOf(p)
    /\ \A p \in Points : p # FatherPoint
    /\ \A s \in Sons : FatherPoint \notin PointsOf(s) /\ PointsOf(s) \subseteq Points
    BY IkdRebuildAssumption DEF PointsOf, SideOf, Sons, Points

\* A son that shows the same points, with the same still to do.
LEMMA SameSon ==
    ASSUME NEW s \in Sons, SonInv(s), Visible(s)' = Visible(s), live' = live,
           Due = "none" <=> Due' = "none", Due = "none" \/ UNCHANGED <<op, todo>>
    PROVE  SonInv(s)'
<1>1. CASE Due = "none"
    BY <1>1 DEF SonInv, PointsOf
<1>2. CASE Due # "none" /\ UNCHANGED <<op, todo>>
  <2>1. Applied(op, Visible(s))' = Applied(op, Visible(s)) /\ (InTodo(s)' <=> InTodo(s))
      BY <1>2 DEF Applied, InTodo
  <2> QED
      BY <1>2, <2>1 DEF SonInv, PointsOf
<1> QED
    BY <1>1, <1>2

\* Where neither the sons nor what is due change, neither does the map.
LEMMA SameMap ==
    ASSUME MapInv, Good' => Good, Due' = Due, Due = "none" \/ UNCHANGED <<op, todo>>,
           \A s \in Sons : Visible(s)' = Visible(s), father'.alive = father.alive,
           live' = live
    PROVE  MapInv'
<1> SUFFICES ASSUME Good PROVE MapInv'
    BY DEF MapInv
<1>1. \A s \in Sons : SonInv(s)'
    BY SameSon DEF MapInv
<1>2. live' \subseteq All /\ (FatherPoint \in live' <=> father'.alive
                                 /\ ~(Due' = "all" /\ Removes(op', FatherPoint)))
    BY DEF MapInv
<1> QED
    BY <1>1, <1>2 DEF MapInv, Removes

\* Where nothing is due, the tree is the map.
LEMMA DoneMap ==
    ASSUME Due' = "none", live' \subseteq All,
           \A s \in Sons : /\ Visible(s)' \subseteq PointsOf(s)
                          /\ live' \cap PointsOf(s) = Visible(s)',
           FatherPoint \in live' <=> father'.alive
    PROVE  MapInv'
<1>1. \A s \in Sons : PointsOf(s)' = PointsOf(s)
    BY DEF PointsOf
<1> QED
    BY <1>1 DEF MapInv, SonInv

\* A visit does the operation to the son, and no more is due there.
LEMMA VisitMap ==
    ASSUME TypeOK, FlagInv, OpInv, MapInv, NEW s \in Sons,
           pc["main"] \in {"visit", "visit_lock"}, pc'["main"] = "visit",
           todo # <<>>, Head(todo) = s, todo' = Tail(todo),
           tree' = [tree EXCEPT ![s] = run_operation(@, op)],
           UNCHANGED <<father, push_down, op, live, history>>
    PROVE  MapInv'
<1> SUFFICES ASSUME Good PROVE MapInv'
    BY DEF MapInv, Good, history
<1>1. Due = "sons" /\ Due' = "sons" /\ op \in Operations /\ op \in Logged
    BY OpFacts DEF Due, OpInv
<1>2. /\ tree'[s].alive = Applied(op, tree[s].alive)
      /\ \A r \in Sons \ {s} : tree'[r] = tree[r]
    BY <1>1, OnSon DEF TypeOK, TreeOK
<1>3. \A r \in Sons : Visible(r) = tree[r].alive /\ Visible(r)' = tree'[r].alive
    BY DEF FlagInv, Visible
<1>4. InTodo(s) /\ ~InTodo(s)' /\ \A r \in Sons \ {s} : InTodo(r)' <=> InTodo(r)
    BY TodoTail DEF TypeOK
<1>5. SonInv(s)'
  <2>1. live \cap PointsOf(s) = Applied(op, tree[s].alive)
      BY <1>1, <1>3, <1>4 DEF MapInv, SonInv
  <2>2. Visible(s)' = live \cap PointsOf(s)
      BY <1>2, <1>3, <2>1
  <2> QED
      BY <1>1, <1>4, <2>2 DEF SonInv, PointsOf
<1>6. ASSUME NEW r \in Sons \ {s} PROVE SonInv(r)'
  <2>1. Visible(r)' = Visible(r) /\ (InTodo(r)' <=> InTodo(r))
      BY <1>2, <1>3, <1>4
  <2>2. SonInv(r)
      BY DEF MapInv
  <2>3. Applied(op, Visible(r))' = Applied(op, Visible(r))
      BY <2>1 DEF Applied
  <2> QED
      BY <1>1, <2>1, <2>2, <2>3 DEF SonInv, PointsOf
<1>7. live' \subseteq All /\ (FatherPoint \in live' <=> father'.alive)
    BY <1>1 DEF MapInv
<1> QED
    BY <1>1, <1>5, <1>6, <1>7 DEF MapInv

\* A push makes plain what the flags said already.
LEMMA PushMap ==
    ASSUME TypeOK, FlagInv, MapInv, NEW s \in Sons,
           pc["main"] \in {"push", "push_lock"}, pc'["main"] \in {"push", "push_lock"},
           push_down[s], push_down' = [push_down EXCEPT ![s] = FALSE],
           tree' = [tree EXCEPT ![s] = run_operation(@, PushOp)],
           UNCHANGED <<father, op, todo, live, history>>
    PROVE  MapInv'
<1>1. /\ tree'[s].alive = {} /\ \A r \in Sons \ {s} : tree'[r] = tree[r]
    BY PushOpLogged, OnSon DEF TypeOK, TreeOK, Applied, Pushes
<1>2. \A r \in Sons : Visible(r)' = Visible(r)
    BY <1>1 DEF TypeOK, TreeOK, Visible
<1>3. Due' = Due /\ (Good' => Good)
    BY DEF Due, Good, history
<1> QED
    BY <1>2, <1>3, SameMap

\* The mapping thread at the father.
LEMMA FatherMap ==
    ASSUME TypeOK, FlagInv, OpInv, MapInv, AtFather
    PROVE  MapInv'
<1> SUFFICES ASSUME Good PROVE MapInv'
    BY DEF MapInv, AtFather, Good, history
<1>1. /\ UNCHANGED <<tree, op, todo, live, history>> /\ Due = "all" /\ op \in Operations
      /\ todo = SonsOf(op) /\ \A s \in Sons : Visible(s) = tree[s].alive
    BY DEF AtFather, Due, Visible, mvars, OpInv
<1>2. CASE op.kind # "add" /\ Held \subseteq op.box
  <2>1. pc'["main"] \in {"idle", "add"} /\ (\A s \in Sons : push_down'[s]) /\ ~father'.alive
      BY <1>2, MainGoes DEF AtFather, FlagFather, TypeOK, TreeOK, MainPcs
  <2>2. \A s \in Sons : InTodo(s)
    <3>1. todo = <<"left", "right">>
        BY <1>1, <1>2 DEF SonsOf
    <3> QED
        BY <3>1 DEF InTodo, Sons
  <2>3. Due' = "none" /\ \A s \in Sons : Visible(s)' = {}
      BY <2>1 DEF Due, Visible
  <2>4. Whole \subseteq op.box
      BY <1>2, HeldIsWhole
  <2>5. ASSUME NEW s \in Sons
        PROVE  Visible(s)' \subseteq PointsOf(s) /\ live' \cap PointsOf(s) = Visible(s)'
    <3>1. live \cap PointsOf(s) = Applied(op, Visible(s))
        BY <1>1, <2>2 DEF MapInv, SonInv
    <3>2. Applied(op, Visible(s)) = Visible(s) \ op.box
        BY <1>1, <1>2, OpFacts DEF Applied
    <3>3. Visible(s) \subseteq op.box
        BY <2>4 DEF Whole, Sons
    <3> QED
        BY <1>1, <2>3, <3>1, <3>2, <3>3
  <2>6. FatherPoint \notin live
    <3>1. father.alive => FatherPoint \in op.box
        BY <2>4 DEF Whole, OfFather
    <3> QED
        BY <1>1, <1>2, <3>1 DEF MapInv, Removes
  <2>7. live' \subseteq All
      BY <1>1 DEF MapInv
  <2> QED
      BY <1>1, <2>1, <2>3, <2>5, <2>6, <2>7, DoneMap
<1>3. CASE ~(op.kind # "add" /\ Held \subseteq op.box)
  <2>1. /\ pc'["main"] = "visit" /\ push_down' = push_down
        /\ father'.alive = (father.alive /\ ~Removes(op, FatherPoint))
      BY <1>3, MainGoes DEF AtFather, TypeOK, TreeOK, MainPcs, Removes
  <2>2. Due' = "sons" /\ \A s \in Sons : Visible(s)' = Visible(s)
      BY <1>1, <2>1 DEF Due, Visible
  <2>3. \A s \in Sons : SonInv(s)'
      BY <1>1, <2>2, SameSon DEF MapInv
  <2>4. live' \subseteq All /\ (FatherPoint \in live' <=> father'.alive)
      BY <1>1, <2>1 DEF MapInv
  <2> QED
      BY <2>2, <2>3, <2>4 DEF MapInv
<1> QED
    BY <1>2, <1>3

\* An operation begins: all of it is due.
LEMMA BegunMap ==
    ASSUME TypeOK, FlagInv, MapInv, NEW o \in Operations, Begun(o)
    PROVE  MapInv'
<1> SUFFICES ASSUME Good PROVE MapInv'
    BY DEF MapInv, Begun, Good, history
<1>1. /\ father'.alive = father.alive /\ Due = "none" /\ op' = o
      /\ \A s \in Sons : Visible(s)' = Visible(s)
    BY BegunFlags DEF Begun, Visible
<1>2. CASE Rebuild_Ptr = "root"
    BY <1>1, <1>2, BegunFlags, SameMap
<1>3. CASE Rebuild_Ptr # "root"
  <2>1. Due' = "all" /\ todo' = SonsOf(o) /\ live' = After(o, live)
      BY <1>3, BegunFlags
  <2>2. /\ live \subseteq All /\ (FatherPoint \in live <=> father.alive)
        /\ \A s \in Sons : Visible(s) \subseteq PointsOf(s) /\ live \cap PointsOf(s) = Visible(s)
      BY <1>1 DEF MapInv, SonInv
  <2>3. CASE o.kind = "add"
    <3>1. /\ live' = live \cup {o.point} /\ o.point \in Points /\ SideOf(o.point) \in Sons
          /\ \A s \in Sons : InTodo(s)' <=> s = SideOf(o.point)
      <4>1. todo' = <<SideOf(o.point)>>
          BY <2>1, <2>3 DEF SonsOf
      <4>2. \A s \in Sons : InTodo(s)' <=> s = SideOf(o.point)
          BY <4>1 DEF InTodo
      <4> QED
          BY <2>1, <2>3, <4>2, OpFacts DEF After
    <3>2. ASSUME NEW s \in Sons PROVE SonInv(s)'
      <4>1. Applied(op, Visible(s))' = Visible(s) \cup {o.point}
          BY <1>1, <2>3 DEF Applied
      <4> QED
          BY <1>1, <2>1, <2>2, <3>1, <4>1, SideFacts DEF SonInv, PointsOf
    <3>3. live' \subseteq All /\ FatherPoint # o.point /\ ~Removes(op, FatherPoint)'
        BY <1>1, <2>2, <2>3, <3>1, SideFacts DEF All, Removes
    <3> QED
        BY <1>1, <2>1, <2>2, <3>1, <3>2, <3>3 DEF MapInv
  <2>4. CASE o.kind # "add"
    <3>1. live' = live \ o.box /\ \A s \in Sons : InTodo(s)'
      <4>1. todo' = <<"left", "right">>
          BY <2>1, <2>4 DEF SonsOf
      <4>2. \A s \in Sons : InTodo(s)'
          BY <4>1 DEF InTodo, Sons
      <4> QED
          BY <2>1, <2>4, <4>2 DEF After
    <3>2. ASSUME NEW s \in Sons PROVE SonInv(s)'
      <4>1. Applied(op, Visible(s))' = Visible(s) \ o.box
          BY <1>1, <2>4, OpFacts DEF Applied
      <4> QED
          BY <1>1, <2>1, <2>2, <3>1, <4>1 DEF SonInv, PointsOf
    <3>3. Removes(op, FatherPoint)' <=> FatherPoint \in o.box
        BY <1>1, <2>4 DEF Removes
    <3> QED
        BY <1>1, <2>1, <2>2, <3>1, <3>2, <3>3 DEF MapInv
  <2> QED
      BY <2>3, <2>4
<1> QED
    BY <1>2, <1>3

\* An operation of its own on the whole tree, under the lock of the root or
\* without it.
LEMMA RootMap ==
    ASSUME TypeOK, FlagInv, OpInv, MapInv, RootLocked \/ RootFlagged
    PROVE  MapInv'
<1> SUFFICES ASSUME Good PROVE MapInv'
    BY DEF MapInv, RootLocked, RootFlagged, Good, history
<1>1. pc["main"] = "root_lock" /\ pc'["main"] = "idle" /\ op \in Operations
    BY MainGoes, RootTarget DEF RootLocked, RootFlagged, TypeOK, MainPcs
<1>2. Due = "none" /\ Due' = "none"
    BY <1>1 DEF Due
<1>3. /\ live \subseteq All /\ (FatherPoint \in live <=> father.alive)
      /\ \A s \in Sons : Visible(s) \subseteq PointsOf(s) /\ live \cap PointsOf(s) = Visible(s)
    BY <1>2 DEF MapInv, SonInv
<1>4. CASE RootLocked
  <2>1. \A s \in Sons : Visible(s)' = tree'[s].alive
      BY <1>4 DEF RootLocked, Visible, NoFlags
  <2>2. father'.alive = (father.alive /\ ~Removes(op, FatherPoint))
      BY <1>4, RootFather
  <2>3. CASE op.kind = "add"
    <3>1. /\ live' = live \cup {op.point} /\ op.point \in Points /\ ~Removes(op, FatherPoint)
          /\ \A s \in Sons : Visible(s)' = IF s = SideOf(op.point)
                                           THEN Visible(s) \cup {op.point} ELSE Visible(s)
        BY <1>1, <1>4, <2>1, <2>3, RootLockedSons, OpFacts DEF RootLocked, After, Removes
    <3>2. live' \subseteq All /\ (FatherPoint \in live' <=> father'.alive)
        BY <1>3, <2>2, <3>1, SideFacts DEF All
    <3>3. \A s \in Sons : Visible(s)' \subseteq PointsOf(s) /\ live' \cap PointsOf(s) = Visible(s)'
        BY <1>3, <3>1, SideFacts
    <3> QED
        BY <1>2, <3>2, <3>3, DoneMap
  <2>4. CASE op.kind = "delete"
    <3>1. /\ live' = live \ op.box /\ (Removes(op, FatherPoint) <=> FatherPoint \in op.box)
          /\ \A s \in Sons : Visible(s)' = Visible(s) \ op.box
        BY <1>4, <2>1, <2>4, RootLockedSons DEF RootLocked, After, Removes
    <3>2. live' \subseteq All /\ (FatherPoint \in live' <=> father'.alive)
        BY <1>3, <2>2, <3>1
    <3>3. \A s \in Sons : Visible(s)' \subseteq PointsOf(s) /\ live' \cap PointsOf(s) = Visible(s)'
        BY <1>3, <3>1
    <3> QED
        BY <1>2, <3>2, <3>3, DoneMap
  <2>5. CASE op.kind = "downsample"
    <3>1. op.point \in Points /\ AddOf(op.point).kind = "add" /\ AddOf(op.point).point = op.point
        BY <1>1, <2>5, OpFacts, AddOfType
    <3>2. /\ live' = (live \ op.box) \cup {op.point}
          /\ Removes(op, FatherPoint) <=> FatherPoint \in op.box
        BY <1>4, <2>5, <3>1 DEF RootLocked, After, Removes
    <3>3. \A s \in Sons : Visible(s)' = IF s = SideOf(op.point)
                                        THEN (Visible(s) \ op.box) \cup {op.point}
                                        ELSE Visible(s) \ op.box
        BY <1>4, <2>1, <2>5, RootLockedSons
    <3>4. live' \subseteq All /\ (FatherPoint \in live' <=> father'.alive)
        BY <1>3, <2>2, <3>1, <3>2, SideFacts DEF All
    <3>5. \A s \in Sons : Visible(s)' \subseteq PointsOf(s) /\ live' \cap PointsOf(s) = Visible(s)'
        BY <1>3, <3>1, <3>2, <3>3, SideFacts
    <3> QED
        BY <1>2, <3>4, <3>5, DoneMap
  <2> QED
      BY <1>1, <2>3, <2>4, <2>5, OpFacts
<1>5. CASE RootFlagged
  <2>1. op.kind = "delete" /\ Whole \subseteq op.box /\ live' = live \ op.box
      BY <1>5, HeldIsWhole DEF RootFlagged, After
  <2>2. ~father'.alive /\ \A s \in Sons : push_down'[s]
      BY <1>5 DEF RootFlagged, FlagFather, TypeOK, TreeOK
  <2>3. \A s \in Sons : Visible(s)' = {}
      BY <2>2 DEF Visible
  <2>4. (\A s \in Sons : Visible(s) \subseteq op.box) /\ (father.alive => FatherPoint \in op.box)
      BY <2>1 DEF Whole, OfFather, Sons
  <2> QED
      BY <1>2, <1>3, <2>1, <2>2, <2>3, <2>4, DoneMap
<1> QED
    BY <1>4, <1>5

\* The addition that is not logged, to a root that has not been swapped out.
LEMMA UnloggedMap ==
    ASSUME TypeOK, FlagInv, OpInv, MapInv, EndUnlogged
    PROVE  MapInv'
<1> SUFFICES ASSUME Good' PROVE MapInv'
    BY DEF MapInv
<1>1. Good /\ "root" \notin walk["main"].old
    BY DEF EndUnlogged, Good
<1>2. pc["main"] = "unlogged" /\ pc'["main"] = "idle" /\ op \in Downs
    BY MainGoes DEF EndUnlogged, TypeOK, MainPcs, OpInv
<1>3. Due = "none" /\ Due' = "none"
    BY <1>2 DEF Due
<1>4. /\ live \subseteq All /\ (FatherPoint \in live <=> father.alive)
      /\ \A s \in Sons : Visible(s) \subseteq PointsOf(s) /\ live \cap PointsOf(s) = Visible(s)
    BY <1>1, <1>3 DEF MapInv, SonInv
<1>5. /\ push_down' = NoFlags /\ live' = live \cup {op.point}
      /\ father' = [Update(father, tree') EXCEPT !.working_flag = FALSE]
    BY <1>1, <1>2, AddOfType DEF EndUnlogged, After, Downs
<1>6. father'.alive = father.alive
    BY <1>5, FatherType DEF TypeOK, TreeOK
<1>7. /\ op.point \in Points
      /\ \A s \in Sons : Visible(s)' = IF s = SideOf(op.point)
                                       THEN Visible(s) \cup {op.point} ELSE Visible(s)
    BY <1>1, <1>5, UnloggedSons DEF Visible, NoFlags
<1>8. live' \subseteq All /\ (FatherPoint \in live' <=> father'.alive)
    BY <1>4, <1>5, <1>6, <1>7, SideFacts DEF All
<1>9. \A s \in Sons : Visible(s)' \subseteq PointsOf(s) /\ live' \cap PointsOf(s) = Visible(s)'
    BY <1>4, <1>5, <1>7, SideFacts
<1> QED
    BY <1>3, <1>8, <1>9, DoneMap

\* The points in the tree, with what is still to do, are those that live.
LEMMA MainMap ==
    ASSUME TypeOK, WalkInv, FlagInv, OpInv, MapInv, Main
    PROVE  MapInv'
<1>1. Good' => Good
    BY MainFrame DEF TypeOK, MainKeeps, Good
<1>2. CASE Calm
    BY <1>1, <1>2, SameMap DEF Calm, tvars, Visible
<1>3. ASSUME NEW o \in Operations, Begun(o) PROVE MapInv'
    BY <1>3, BegunMap
<1>4. ASSUME NEW s \in Sons, Push_Down("main", s) PROVE MapInv'
  <2>1. CASE Rebuild_Ptr = s
    <3>1. Due' = Due /\ UNCHANGED <<tree, push_down, father, op, todo, live>>
        BY <1>4, <2>1, MainGoes DEF Push_Down, Due, TypeOK, MainPcs, mvars
    <3> QED
        BY <1>1, <3>1, SameMap DEF Visible
  <2>2. CASE Rebuild_Ptr # s
      BY <1>4, <2>2, PushMap DEF Push_Down, Direct, mvars
  <2> QED
      BY <2>1, <2>2
<1>5. ASSUME NEW s \in Sons, Push_Down_Locked("main", s) PROVE MapInv'
  <2>1. pc'["main"] = "push"
      BY <1>5, MainGoes DEF Push_Down_Locked, TypeOK, MainPcs
  <2> QED
      BY <1>5, <2>1, PushMap DEF Push_Down_Locked, Locked, mvars
<1>6. ASSUME NEW s \in Sons, Visit(s) PROVE MapInv'
  <2>1. CASE Rebuild_Ptr = s
    <3>1. Due' = Due /\ UNCHANGED <<tree, push_down, father, op, todo, live>>
        BY <1>6, <2>1, MainGoes DEF Visit, Due, TypeOK, MainPcs
    <3> QED
        BY <1>1, <3>1, SameMap DEF Visible
  <2>2. CASE Rebuild_Ptr # s
      BY <1>6, <2>2, VisitMap DEF Visit, Direct
  <2> QED
      BY <2>1, <2>2
<1>7. ASSUME NEW s \in Sons, VisitLocked(s) PROVE MapInv'
  <2>1. pc'["main"] = "visit" /\ todo # <<>>
      BY <1>7, MainGoes DEF VisitLocked, FlagInv, TypeOK, MainPcs
  <2> QED
      BY <1>7, <2>1, VisitMap DEF VisitLocked, Locked
<1>8. CASE AtFather
    BY <1>8, FatherMap
<1>9. CASE Return
  <2> SUFFICES ASSUME Good PROVE MapInv'
      BY <1>1 DEF MapInv
  <2>1. /\ pc["main"] = "visit" /\ pc'["main"] \in {"idle", "add"} /\ todo = <<>>
        /\ UNCHANGED <<tree, push_down, live>>
      BY <1>9, MainGoes DEF Return, TypeOK, MainPcs, mvars
  <2>2. father'.alive = father.alive
      BY <1>9, FatherType DEF Return, TypeOK, TreeOK
  <2>3. Due = "sons" /\ Due' = "none" /\ \A s \in Sons : ~InTodo(s)
      BY <2>1 DEF Due, InTodo
  <2>4. /\ live' \subseteq All /\ (FatherPoint \in live' <=> father'.alive)
        /\ \A s \in Sons : Visible(s)' \subseteq PointsOf(s) /\ live' \cap PointsOf(s) = Visible(s)'
      BY <2>1, <2>2, <2>3 DEF MapInv, SonInv, Visible
  <2> QED
      BY <2>3, <2>4, DoneMap
<1>10. CASE EndUnlogged
    BY <1>10, UnloggedMap
<1>11. CASE RootLocked \/ RootFlagged
    BY <1>11, RootMap
<1> QED
    BY <1>2, <1>3, <1>4, <1>5, <1>6, <1>7, <1>8, <1>9, <1>10, <1>11, MainSplit

\* What is swapped in holds the points of the old subtree.
LEMMA RebuilderMap ==
    ASSUME TypeOK, RebuildInv, FlagInv, LogInv, MapInv, Rebuilder
    PROVE  MapInv'
<1> SUFFICES ASSUME Good' PROVE MapInv'
    BY DEF MapInv
<1>1. Good /\ Due' = Due /\ UNCHANGED <<op, todo, live>>
    BY RebuilderFrame DEF TypeOK, RebuilderKeeps, Due, Good
<1>2. CASE Flatten
  <2>1. father' = father
      BY <1>2 DEF Flatten
  <2>2. \A s \in Sons : Visible(s)' = Visible(s)
    <3>1. CASE slot = "root"
        BY <1>2, <3>1, SettledSons DEF Flatten, TypeOK, Visible, NoFlags
    <3>2. CASE slot # "root"
        BY <1>2, <3>2 DEF Flatten, Visible
    <3> QED
        BY <3>1, <3>2
  <2> QED
      BY <1>1, <2>1, <2>2, SameMap
<1>3. CASE Swap
  <2>1. slot \in Subtrees /\ copy.alive = Target
      BY <1>1, <1>3 DEF Swap, RebuildInv, Rebuilding, LogInv
  <2>2. CASE slot = "root"
    <3>1. /\ copy.alive = Whole /\ push_down' = NoFlags
          /\ father'.alive = (FatherPoint \in copy.alive)
          /\ \A s \in Sons : tree'[s].alive = copy.alive \cap PointsOf(s)
        BY <1>3, <2>1, <2>2 DEF Swap, Target, Content
    <3>2. \A s \in Sons : Visible(s) \subseteq PointsOf(s)
        BY <1>1 DEF MapInv, SonInv
    <3>3. PointsOf("left") \cap PointsOf("right") = {}
        BY IkdRebuildAssumption DEF PointsOf
    <3>4. \A s \in Sons : Whole \cap PointsOf(s) = Visible(s)
        BY <3>2, <3>3, SideFacts DEF Whole, OfFather, Sons
    <3>5. FatherPoint \in Whole <=> father.alive
        BY <3>2, SideFacts DEF Whole, OfFather, Sons
    <3>6. father'.alive = father.alive
        BY <3>1, <3>5 DEF TypeOK, TreeOK
    <3>7. \A s \in Sons : Visible(s)' = Visible(s)
        BY <3>1, <3>4 DEF Visible, NoFlags
    <3> QED
        BY <1>1, <3>6, <3>7, SameMap
  <2>3. CASE slot \in Sons
    <3>1. copy.alive = tree[slot].alive /\ tree' = [tree EXCEPT ![slot] = copy]
          /\ push_down' = push_down
        BY <1>3, <2>1, <2>3 DEF Swap, Target, Sons
    <3>2. \A s \in Sons : Visible(s)' = Visible(s)
        BY <3>1 DEF Visible, TypeOK, TreeOK
    <3>3. father' = father \/ father' = Update(father, tree')
        BY <1>3, <2>3 DEF Swap, Sons
    <3>4. father'.alive = father.alive
        BY <3>3, FatherType DEF TypeOK, TreeOK
    <3> QED
        BY <1>1, <3>2, <3>4, SameMap
  <2> QED
      BY <2>1, <2>2, <2>3 DEF Subtrees
<1>4. CASE ~Flatten /\ ~Swap
  <2>1. UNCHANGED <<tree, father, push_down>>
      BY <1>4 DEF Rebuilder, Poll, Begin, LockSearches, Copied, Drain, Swapped, Free, tvars
  <2> QED
      BY <1>1, <2>1, SameMap DEF Visible
<1> QED
    BY <1>2, <1>3, <1>4

\* Every step keeps the points in the tree those that live.
LEMMA MapStep ==
    ASSUME TypeOK, RebuildInv, WalkInv, FlagInv, OpInv, LogInv, MapInv, [Next]_vars
    PROVE  MapInv'
<1>1. CASE Main
    BY <1>1, MainMap
<1>2. CASE Rebuilder
    BY <1>2, RebuilderMap
<1>3. ASSUME NEW u \in Searchers, SearchStep(u) PROVE MapInv'
  <2>1. Due' = Due /\ UNCHANGED <<tree, father, push_down, op, todo, live>> /\ (Good' => Good)
      BY <1>3, SearcherFrame DEF TypeOK, SearcherKeeps, Due, tvars, history, Good
  <2> QED
      BY <2>1, SameMap DEF Visible
<1>4. CASE UNCHANGED vars
  <2>1. Due' = Due /\ UNCHANGED <<tree, father, push_down, op, todo, live>> /\ (Good' => Good)
      BY <1>4 DEF vars, tvars, mvars, history, Due, Good
  <2> QED
      BY <2>1, SameMap DEF Visible
<1> QED
    BY <1>1, <1>2, <1>3, <1>4, NextCases DEF TypeOK

-----------------------------------------------------------------------------
(* The invariant and what follows from it.                                 *)

\* The invariant holds of the first tree.
LEMMA InitInv ==
    ASSUME Init
    PROVE  IInv
<1>1. TypeOK
  <2>1. PcOK
      BY IkdRebuildAssumption DEF Init, PcOK, Threads, MainPcs, RebuildPcs, SearchPcs
  <2>2. TreeOK
      BY DEF Init, TreeOK, Content, Contents, All, Points, PointsOf, Sons, NoFlags
  <2>3. CopyOK /\ OpOK
      BY DEF Init, CopyOK, OpOK, Content, Contents
  <2>4. WalkOK
      BY DEF Init, WalkOK, Walks, NoWalk
  <2> QED
      BY <2>1, <2>2, <2>3, <2>4 DEF TypeOK
<1>2. pc["main"] = "idle" /\ pc["rebuild"] = "poll" /\ \A t \in Searchers : pc[t] = "idle"
    BY IkdRebuildAssumption DEF Init, Threads
<1>3. RebuildInv
    BY <1>2 DEF Init, RebuildInv, Rebuilding
<1>4. walk["main"] = NoWalk /\ \A t \in Searchers : walk[t] = NoWalk
    BY IkdRebuildAssumption DEF Init, Threads
<1>5. ~NoWalk.root /\ ~NoWalk.counted /\ NoWalk.son = None /\ NoWalk.old = {}
    BY DEF NoWalk
<1>6. CountInv
  <2>1. Counted = {}
      BY <1>4, <1>5 DEF Counted
  <2> QED
      BY <1>2, <2>1, FS_EmptySet DEF Init, CountInv, KeepsOut
<1>7. WalkInv
  <2>1. \A t \in Searchers : SearcherInv(t)
      BY <1>2, <1>4, <1>5 DEF SearcherInv
  <2>2. MainWalkInv
      BY <1>2, <1>4, <1>5 DEF MainWalkInv, Sons, None
  <2> QED
      BY <1>2, <2>1, <2>2 DEF WalkInv
<1>8. FlagInv
    BY <1>2 DEF Init, FlagInv, NoFlags, Passing
<1>9. Due = "none"
    BY <1>2 DEF Due
<1>10. OpInv
    BY <1>2, <1>9 DEF OpInv
<1>11. LogInv
    BY <1>2 DEF LogInv, Rebuilding
<1>12. MapInv
  <2>1. ASSUME NEW s \in Sons PROVE SonInv(s)
    <3>1. Visible(s) = PointsOf(s)
        BY DEF Init, Visible, Content, NoFlags
    <3>2. live \cap PointsOf(s) = PointsOf(s)
        BY DEF Init, PointsOf
    <3> QED
        BY <1>9, <3>1, <3>2 DEF SonInv
  <2>2. FatherPoint \in live /\ live \subseteq All /\ father.alive
      BY DEF Init, Points, All
  <2> QED
      BY <1>9, <2>1, <2>2 DEF MapInv
<1> QED
    BY <1>1, <1>3, <1>6, <1>7, <1>8, <1>10, <1>11, <1>12 DEF IInv

\* And no step breaks it.
LEMMA NextInv ==
    ASSUME IInv, [Next]_vars
    PROVE  IInv'
<1> USE DEF IInv
<1>1. TypeOK'
    BY TypeStep
<1>2. RebuildInv'
    BY RebuildStep
<1>3. CountInv' /\ WalkInv' /\ FlagInv' /\ OpInv'
    BY CountStep, WalkStep, FlagStep, OpStep
<1>4. LogInv' /\ MapInv'
    BY <1>1, <1>2, LogStep, MapStep
<1> QED
    BY <1>1, <1>2, <1>3, <1>4

\* The invariant holds throughout: where the threads are (TypeOK) and who
\* holds what, for any number of search threads, operations and boxes.
THEOREM Invariant == Spec => []IInv
<1>1. Init => IInv
    BY InitInv
<1>2. IInv /\ [Next]_vars => IInv'
    BY NextInv
<1> QED
    BY <1>1, <1>2, PTL DEF Spec

\* Between operations the tree holds what the operations made of it, unless
\* an operation is known to have been lost (confused, unlogged): the copy, of
\* a son or of the whole tree, the logged operations replayed on it and the
\* swap lose no point and bring none back (Add_Points with and without
\* downsampling, Delete_Point_Boxes, multi_thread_rebuild).
THEOREM MapIsRight == Spec => []MapRight
<1>1. IInv => MapRight
  <2> SUFFICES ASSUME IInv, pc["main"] \in {"idle", "searches"}, ~confused, ~unlogged
               PROVE  live = Held
      BY DEF MapRight
  <2>1. Due = "none" /\ Good
      BY DEF Due, Good
  <2>2. Held = Whole
      BY HeldIsWhole DEF IInv
  <2>3. \A s \in Sons : live \cap PointsOf(s) = Visible(s)
      BY <2>1 DEF IInv, MapInv, SonInv
  <2>4. live \subseteq LeftPoints \cup RightPoints \cup {FatherPoint}
      BY <2>1 DEF IInv, MapInv, All, Points
  <2>5. FatherPoint \in live <=> father.alive
      BY <2>1 DEF IInv, MapInv
  <2>6. live \cap LeftPoints = Visible("left") /\ live \cap RightPoints = Visible("right")
      BY <2>3 DEF PointsOf, Sons
  <2> QED
      BY <2>2, <2>4, <2>5, <2>6 DEF Whole, OfFather
<1> QED
    BY <1>1, Invariant, PTL

\* No search thread is in what is copied or swapped, a son or the whole tree,
\* nor ever on nodes that were swapped out (search_mutex_counter); and the
\* mapping thread, in a son it has locked (search_flag_mutex), keeps the
\* rebuild thread from freeing the old nodes, unless the root was swapped.
THEOREM WalksAreExcluded == Spec => []WalksExcluded
<1>1. IInv => WalksExcluded
  <2> SUFFICES ASSUME IInv PROVE WalksExcluded
      OBVIOUS
  <2>1. ASSUME NEW t \in Searchers
        PROVE  /\ walk[t].old = {}
               /\ pc["rebuild"] \in {"flatten", "copied", "swap", "swapped"} => ~In(t, slot)
    <3>1. walk[t].old = {}
        BY DEF IInv, WalkInv, SearcherInv
    <3>2. KeepsOut => ~In(t, slot)
        BY NobodyIn DEF IInv
    <3> QED
        BY <3>1, <3>2 DEF KeepsOut
  <2>2. walk["main"].son \in Sons /\ "root" \notin walk["main"].old =>
            walk["main"].old = {} \/ pc["rebuild"] = "swapped"
      BY DEF IInv, WalkInv, MainWalkInv
  <2> QED
      BY <2>1, <2>2 DEF WalksExcluded
<1> QED
    BY <1>1, Invariant, PTL

\* No flag waits below a father that is not deleted, and no search thread
\* pushes one.
FlagsOnlyDeleted ==
    /\ \A s \in Sons : push_down[s] => father.tree_deleted
    /\ \A t \in Searchers : pc[t] \notin {"push", "push_lock"}

\* Flags wait to be pushed only below a deleted father, so no search thread,
\* which turns back there, comes to push any: the calls of Push_Down in Search
\* find nothing to do, and need no lock against each other.
THEOREM FlagsAreDeletions == Spec => []FlagsOnlyDeleted
<1>1. IInv => FlagsOnlyDeleted
    BY DEF IInv, FlagInv, TypeOK, PcOK, SearchPcs, FlagsOnlyDeleted
<1> QED
    BY <1>1, Invariant, PTL
=============================================================================
