---------------------------- MODULE MCDecoder ----------------------------
(***************************************************************************)
(* Splitting, timing and stamping of clouds (Decoder), or their layout     *)
(* (CloudLayout); and values for the constants of Decoder that a           *)
(* configuration cannot write.                                             *)
(***************************************************************************)
EXTENDS Decoder

VARIABLES
    part,
    scanner, taken, faults, strategy, pre_strategy, points, clouds, foreseen, misread

Layout == INSTANCE CloudLayout WITH
    Start <- 100, PacketsPerFrame <- 13, Blind <- 3..7, MaxPackets <- 9, MaxFaults <- 1

layoutVars == <<scanner, taken, faults, strategy, pre_strategy, points, clouds,
                foreseen, misread>>

\* Inside the half turn after the split angle, and across it.
McFields == {<<1000, 1500>>, <<35800, 300>>}

\* As shipped, and the other way round.
McShipped == [tsFirst |-> TRUE, fromFile |-> FALSE]
McSettings == {McShipped, [tsFirst |-> FALSE, fromFile |-> TRUE]}
McShippedOnly == {McShipped}

\* The part at rest keeps one of its initial states.
MCInit ==
    \/ /\ part = "frames"
       /\ Init
       /\ Layout!Init /\ scanner = [model |-> "RS16", dual |-> FALSE, dense |-> FALSE]
    \/ /\ part = "layout"
       /\ Init /\ lidar = CHOOSE l \in Lidars : TRUE
       /\ Layout!Init

MCNext ==
    \/ part = "frames" /\ Next /\ UNCHANGED <<part, layoutVars>>
    \/ part = "layout" /\ Layout!Next /\ UNCHANGED <<part, vars>>

MCSpec == MCInit /\ [][MCNext]_<<part, vars, layoutVars>>

\* The points of a cloud fill the rows and columns of their message, and
\* isNewFrame foretells the splits (CloudLayout).
LayoutRight == Layout!LayoutRight
=============================================================================
