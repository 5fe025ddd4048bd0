----------------------------- MODULE MCMembership ----------------------------
(***************************************************************************)
(* Membership for TLC: three nodes, of which the configurations use two or *)
(* three.                                                                  *)
(***************************************************************************)
EXTENDS Membership

CONSTANTS n1, n2, n3
=============================================================================
