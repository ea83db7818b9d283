---------------------------- MODULE MCTrackerSession ----------------------------
(***************************************************************************)
(* Instances of the session lifecycle.  The kinds are the code's own, so   *)
(* they are strings; sessions, quests and segments are model values and    *)
(* symmetric.                                                              *)
(***************************************************************************)
EXTENDS TrackerSession, TLC

SymmetricSessions   == Permutations(Session)
SymmetricActivities == Permutations(Quest) \cup Permutations(Segment)
=============================================================================
