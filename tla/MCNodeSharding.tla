---------------------------- MODULE MCNodeSharding ----------------------------
(***************************************************************************)
(* NodeSharding for TLC: four nodes with two virtual nodes each on eight   *)
(* positions.  In Shared two of the nodes have the same positions.         *)
(***************************************************************************)
EXTENDS NodeSharding

CONSTANTS n1, n2, n3, n4, c1, c2

Place(a, b, c, d) == n1 :> a @@ n2 :> b @@ n3 :> c @@ n4 :> d

Spread == [vnode |-> Place(<<0, 5>>, <<2, 3>>, <<4, 7>>, <<1, 6>>), first |-> <<n1, n2, n3>>]
Shared == [vnode |-> Place(<<1, 6>>, <<2, 3>>, <<2, 3>>, <<0, 5>>), first |-> <<n2, n3>>]

AllDeployments == {Spread, Shared}
SpreadOnly     == {Spread}

ClientSymmetry == Permutations(Client)

KeyAt(p) == [k \in Key |-> p]
AtOne    == {KeyAt(1)}
=============================================================================
