---------------------------- MODULE MCMemoryBound ----------------------------
(***************************************************************************)
(* MemoryBound for TLC.  In Overlapping two clients call at once and       *)
(* nothing expires; in WithCleaner one client's items expire and the       *)
(* Cleaner removes them.                                                   *)
(***************************************************************************)
EXTENDS MemoryBound

CONSTANTS c1, c2, k1, k2

Overlapping == [clients |-> {c1, c2}, keys |-> {k1, k2}, cleaning |-> "sync", expires |-> FALSE]
WithCleaner == [clients |-> {c1}, keys |-> Key, cleaning |-> "async", expires |-> TRUE]
WithTimer   == [clients |-> {c1}, keys |-> Key, cleaning |-> "sync", expires |-> TRUE]

Counted   == {Overlapping, WithCleaner}
TimerOnly == {WithTimer}
=============================================================================
