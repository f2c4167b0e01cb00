----------------------------- MODULE Preparation -----------------------------
(***************************************************************************)
(* preprocess.cpp as a whole: a cloud's points get their times             *)
(* (Preprocess), and each scan line is searched for features (GiveFeature). *)
(***************************************************************************)
EXTENDS GiveFeature

CONSTANTS Revolution, Rings, N_SCANS, Starts, TurnSteps    \* of Preprocess
\* Angles are whole parts of a revolution, and the lidar never turns back.
ASSUME CloudAssumption ==
    /\ Revolution \in Nat \ {0} /\ Rings \subseteq Int /\ N_SCANS \in Int
    /\ Starts \subseteq Int /\ TurnSteps \subseteq Nat

VARIABLES handler, feature_enabled, given_offset_time, start, turn, at, began,
          point, is_first, yaw_fp, time_last, put      \* of Preprocess

Cloud == INSTANCE Preprocess WITH i <- point, Steps <- TurnSteps

\* Marking a scan line keeps to the line, never marks a blind point and puts
\* out every plane (GiveFeature); the time given to a point is the time since
\* its ring began (Preprocess).
CloudsPrepared == FeaturesRight /\ Cloud!OffsetsRight
=============================================================================
