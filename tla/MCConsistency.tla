---------------------------- MODULE MCConsistency ----------------------------
(***************************************************************************)
(* Consistency for TLC: two clients that share a cache, or with a message  *)
(* queue have one each.                                                    *)
(***************************************************************************)
EXTENDS Consistency

CONSTANTS c1, c2, n1, n2

OneCache == [c \in Client |-> n1]
OwnCaches == [c \in Client |-> IF c = c1 THEN n1 ELSE n2]
AllDeployments ==
    {<<"aside", OneCache>>, <<"through", OneCache>>, <<"delayed", OneCache>>, <<"mq", OwnCaches>>}
DelayedWrites == {<<"delayed", OneCache>>}
=============================================================================
