------------------------------ MODULE MCFastLio ------------------------------
(***************************************************************************)
(* The stages of FAST-LIO side by side.  In a behaviour the mapping node   *)
(* receives and processes (FastLio), or one cloud is converted or one scan *)
(* line searched for features (Preparation), or the local map moved with   *)
(* the lidar (LocalMap).                                                   *)
(***************************************************************************)
EXTENDS FastLio, LocalMap, Preparation

VARIABLE part

MCClouds == {<<>>, <<1, 1, 2>>}
MCLidarSteps == {2, -3}
MCImuSteps == {0, 2, 3, -3}
MCSteps == {-10, 0, 6, 10}
MCLines == UNION {[1..n -> BOOLEAN] : n \in 1..7}
MCStarts == {-1, 2}

cloudVars == <<handler, feature_enabled, given_offset_time, start, turn, at, began,
               point, is_first, yaw_fp, time_last, put>>
mcVars == <<part, vars, lmVars, lineVars, cloudVars>>

MCInit == /\ part \in {"mapping", "line", "cloud", "localmap"}
          /\ Init /\ LineInit /\ LMInit
          /\ Cloud!Init /\ (feature_enabled => part = "cloud")
MCNext ==
    \/ part = "mapping" /\ Next /\ UNCHANGED <<part, lmVars, lineVars, cloudVars>>
    \/ part = "line" /\ LineNext /\ UNCHANGED <<part, lmVars, vars, cloudVars>>
    \/ part = "cloud" /\ Cloud!Next /\ UNCHANGED <<part, lmVars, vars, lineVars>>
    \/ part = "localmap" /\ LMNext /\ UNCHANGED <<part, vars, lineVars, cloudVars>>

MCSpec == /\ MCInit /\ [][MCNext]_mcVars
          /\ WF_vars(part = "mapping" /\ Turn)
          /\ WF_vars(part = "mapping" /\ ImuAdvances)
=============================================================================
