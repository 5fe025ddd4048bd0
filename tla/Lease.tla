------------------------------- MODULE Lease -------------------------------
(***************************************************************************)
(* What a lock with an expiry promises its users, whatever scripts,        *)
(* retries and watchdogs carry it out: it has at most one owner, only the  *)
(* owner gives it back, and a user who works under it either owns it or    *)
(* has had it expire.                                                      *)
(***************************************************************************)
CONSTANTS Client, None

VARIABLES
    owner,    \* who owns the lock
    inside,   \* the clients that were told they own it and have not unlocked
    overdue   \* the clients whose ownership ended by expiry

leaseVars == <<owner, inside, overdue>>

LeaseInit == owner = None /\ inside = {} /\ overdue = {}

Acquire(c) ==
    /\ owner = None
    /\ owner' = c
    /\ overdue' = overdue \ {c}
    /\ UNCHANGED inside

Enter(c) ==
    /\ owner = c \/ c \in overdue
    /\ inside' = inside \cup {c}
    /\ UNCHANGED <<owner, overdue>>

Leave(c) ==
    /\ inside' = inside \ {c}
    /\ UNCHANGED <<owner, overdue>>

Release(c) ==
    /\ owner = c /\ c \notin inside
    /\ owner' = None
    /\ UNCHANGED <<inside, overdue>>

Lapse ==
    /\ owner # None
    /\ owner' = None
    /\ overdue' = overdue \cup {owner}
    /\ UNCHANGED inside

LeaseNext ==
    \/ Lapse
    \/ \E c \in Client : Acquire(c) \/ Enter(c) \/ Leave(c) \/ Release(c)

LeaseSpec == LeaseInit /\ [][LeaseNext]_leaseVars
=============================================================================
