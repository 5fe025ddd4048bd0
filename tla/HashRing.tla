------------------------------- MODULE HashRing -------------------------------
(***************************************************************************)
(* The consistent-hash ring (cache/consthash.go) as operators on its       *)
(* record.  A position is a uint32 of the hash function; positions run     *)
(* from 0 to Size - 1.  vnode[n][i] is the position of the i-th virtual    *)
(* node of n; the hash function is a parameter because NewConsistentHash   *)
(* takes one.  A map of Go is a function on its keys.                      *)
(***************************************************************************)
EXTENDS Integers, FiniteSets, Sequences, SequencesExt, FiniteSetsExt, Functions, TLC

CONSTANTS
    Size,      \* number of positions
    Replicas   \* virtual nodes per unit of weight

ASSUME RingAssumption == Size \in Nat \ {0} /\ Replicas \in Nat \ {0}

Position == 0 .. Size - 1

NoNode == "no node"

EmptyRing ==
    [sortedHashes |-> <<>>, hashMap |-> <<>>, weights |-> <<>>, nodeHashes |-> <<>>]

Without(f, S) == Restrict(f, DOMAIN f \ S)

\* The capacity of the new slice is computed before the entries are counted,
\* and make panics when it is negative.
RemovePanics(ring, n) ==
    /\ n \in DOMAIN ring.nodeHashes
    /\ Len(ring.sortedHashes) < Cardinality(Range(ring.nodeHashes[n]))

\* A removal that leaves the points which a weight above 1 brought.
RemoveFirstPoints(ring, n) ==
    IF n \notin DOMAIN ring.nodeHashes
    THEN ring
    ELSE LET hashSet == Range(SubSeq(ring.nodeHashes[n], 1, Replicas)) IN
         [sortedHashes |-> SelectSeq(ring.sortedHashes, LAMBDA h : h \notin hashSet),
          hashMap      |-> Without(ring.hashMap, hashSet),
          weights      |-> Without(ring.weights, {n}),
          nodeHashes   |-> Without(ring.nodeHashes, {n})]

\* A removal that leaves the node's weight.
RemoveKeepingWeight(ring, n) ==
    IF n \notin DOMAIN ring.nodeHashes
    THEN ring
    ELSE LET hashSet == Range(ring.nodeHashes[n]) IN
         [ring EXCEPT !.sortedHashes = SelectSeq(@, LAMBDA h : h \notin hashSet),
                      !.hashMap      = Without(@, hashSet),
                      !.nodeHashes   = Without(@, {n})]

RemoveFromRing(ring, n) ==
    IF n \notin DOMAIN ring.nodeHashes
    THEN ring
    ELSE LET hashSet == Range(ring.nodeHashes[n]) IN
         [sortedHashes |-> SelectSeq(ring.sortedHashes, LAMBDA h : h \notin hashSet),
          hashMap      |-> Without(ring.hashMap, hashSet),
          weights      |-> Without(ring.weights, {n}),
          nodeHashes   |-> Without(ring.nodeHashes, {n})]

AddToRing(ring, n, weight, vnode) ==
    LET w      == IF weight <= 0 THEN 1 ELSE weight
        old    == RemoveFromRing(ring, n)
        hashes == [i \in 1 .. Replicas * w |-> vnode[n][i]]
    IN  [sortedHashes |-> SortSeq(old.sortedHashes \o hashes, <),
         hashMap      |-> [h \in Range(hashes) |-> n] @@ old.hashMap,
         weights      |-> n :> w @@ old.weights,
         nodeHashes   |-> n :> hashes @@ old.nodeHashes]

-----------------------------------------------------------------------------
\* sort.Search: the first index at or after hash, or the first of the ring.
search(ring, hash) ==
    LET after == {i \in DOMAIN ring.sortedHashes : ring.sortedHashes[i] >= hash}
    IN  IF after = {} THEN 1 ELSE Min(after)

\* The owners met on one round of the ring from hash on.
Walk(ring, hash) ==
    LET s == ring.sortedHashes
        i == search(ring, hash)
    IN  [d \in 1 .. Len(s) |-> ring.hashMap[s[((i + d - 2) % Len(s)) + 1]]]

RingGet(ring, hash) ==
    IF ring.sortedHashes = <<>> THEN NoNode ELSE Walk(ring, hash)[1]

\* GetN walks until it has met count nodes or as many as have a weight.  It
\* never ends when fewer of them are on the ring.
GetNSpins(ring, count) ==
    /\ ring.sortedHashes # <<>>
    /\ LET met == Cardinality(Range(ring.hashMap))
       IN  met < count /\ met < Cardinality(DOMAIN ring.weights)

RingGetN(ring, hash, count) ==
    FoldLeft(LAMBDA result, n :
                 IF Len(result) >= count \/ n \in Range(result)
                 THEN result ELSE Append(result, n),
             <<>>, Walk(ring, hash))
=============================================================================
