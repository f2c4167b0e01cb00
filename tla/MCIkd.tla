------------------------------- MODULE MCIkd -------------------------------
(***************************************************************************)
(* The two models of the ikd-Tree side by side: in a behaviour either one  *)
(* thread uses the tree (IkdTree) or two threads rebuild it (IkdRebuild).  *)
(***************************************************************************)
EXTENDS IkdRebuild

VARIABLES part, Root_Node

MCLeft == {"l1", "l2"}
MCRight == {"r1"}
MCBoxes == {{"l1", "r1"}, {"l1", "l2", "f", "r1"}}

Tree == INSTANCE IkdTree WITH
    Points <- {<<0, 0>>, <<1, 1>>, <<0, 1>>, <<1, 3>>, <<3, 0>>},
    Boxes <- {<< <<2, 0>>, <<4, 2>> >>, << <<0, 0>>, <<2, 3>> >>, << <<1, 2>>, <<4, 4>> >>},
    Queries <- {<<0, 0>>, <<2, 1>>, <<3, 3>>},
    Voxel <- 2, Minimal_Unbalanced_Tree_Size <- 3, MaxNodes <- 6

MCInit == part \in {"tree", "rebuild"} /\ Tree!Init /\ Init
MCNext == \/ part = "tree" /\ Tree!Next /\ UNCHANGED <<part, vars>>
          \/ part = "rebuild" /\ Next /\ UNCHANGED <<part, Root_Node>>

MCSpec == /\ MCInit /\ [][MCNext]_<<part, Root_Node, vars>>
          /\ WF_vars(part = "rebuild" /\ Running /\ Rebuilder)
          /\ WF_vars(part = "rebuild" /\ Running /\ Main)
          /\ \A t \in Searchers : WF_vars(part = "rebuild" /\ Running /\ Searcher(t))

\* The tree is a set of points (IkdTree's Refines): building, adding and
\* deleting have the effect they have on the set, rebuilding has none.
Refines == Tree!Refines

\* The searches and validnum() tell the truth about the set, and Add_Points
\* never empties the tree it is about to read (IkdTree).
AnswersRight == Tree!AnswersRight /\ Tree!RootSurvives
=============================================================================
