--------------------------- MODULE MCLeaderFollower --------------------------
(***************************************************************************)
(* LeaderFollower for TLC.  The nodes of this module do not touch one      *)
(* another's state, so one node of each initial role shows every           *)
(* behaviour but those of properties that compare nodes.                   *)
(***************************************************************************)
EXTENDS LeaderFollower

CONSTANTS n1, n2
=============================================================================
