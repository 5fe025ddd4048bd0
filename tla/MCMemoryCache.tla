---------------------------- MODULE MCMemoryCache ----------------------------
(***************************************************************************)
(* MemoryCache for TLC: two keys, each in a shard of its own.              *)
(***************************************************************************)
EXTENDS MemoryCache

CONSTANTS k1, k2, s1, s2

OwnShards == [k \in Key |-> IF k = k1 THEN s1 ELSE s2]
TwoShards == <<s1, s2>>
=============================================================================
