------------------------------ MODULE RedisLock ------------------------------
(***************************************************************************)
(* The distributed lock of distributelock/: RedisLock instances that       *)
(* compete for one key, their watchdog goroutines, and the Redis server    *)
(* that runs their scripts.  A call is its check of isLocked, the script   *)
(* the server runs, and the return; anything may happen in between, the    *)
(* expiry of the key included.  The watchdogs of a dead client stop with   *)
(* it, so a crash is a client that takes no further step.                  *)
(***************************************************************************)
EXTENDS Integers, FiniteSets

CONSTANTS
    Client,        \* the RedisLock instances; each has its own random val
    None,          \* no value under the key
    Watchdog,      \* the instances with EnableWatchdog
    RetryTimes, BlockWaiting,  \* the options of Lock
    MaxDogs,       \* bound on the watchdog goroutines of a client alive at once
    Faults         \* whether a script may fail or its answer get lost

ASSUME ClientAssumption == None \notin Client /\ Watchdog \subseteq Client
ASSUME OptionAssumption ==
    /\ RetryTimes \in Nat /\ MaxDogs \in Nat \ {0}
    /\ BlockWaiting \in BOOLEAN /\ Faults \in BOOLEAN

VARIABLES
    key,       \* whose val Redis holds
    isLocked,
    op, stage, \* the call a client is in, and how far it is
    retryCnt,
    watchdog,  \* l.watchdog: a dog, or 0 for nil
    dog,       \* where the goroutines that refresh are; 0 is a caller of Refresh
    stopped,   \* the dog's stopChan is closed
    holds,     \* history: TryLock returned nil and Unlock was not called since
    lapsed     \* history: clients whose key expired after they last acquired it

callVars == <<op, stage, retryCnt>>
dogVars == <<watchdog, dog, stopped>>
vars == <<key, isLocked, callVars, dogVars, holds, lapsed>>

Answer == {"ok", "no", "err"}
Stage == {"eval", "wait"} \cup Answer
DogStage == {"off", "select", "eval"} \cup Answer
Dogs == 1 .. MaxDogs

\* Type correctness of the lock instances (lock.go:13-22, watchdog.go:15-20).
TypeOK ==
    /\ key \in Client \cup {None}
    /\ isLocked \in [Client -> BOOLEAN]
    /\ op \in [Client -> {"none", "TryLock", "Lock", "Unlock"}]
    /\ stage \in [Client -> Stage]
    /\ retryCnt \in [Client -> 0 .. RetryTimes + 1]
    /\ watchdog \in [Client -> 0 .. MaxDogs]
    /\ dog \in [Client \X (0 .. MaxDogs) -> DogStage]
    /\ stopped \in [Client \X Dogs -> BOOLEAN]
    /\ holds \in [Client -> BOOLEAN]
    /\ lapsed \subseteq Client

Init ==
    /\ key = None
    /\ isLocked = [c \in Client |-> FALSE]
    /\ op = [c \in Client |-> "none"]
    /\ stage = [c \in Client |-> "wait"]
    /\ retryCnt = [c \in Client |-> 0]
    /\ watchdog = [c \in Client |-> 0]
    /\ dog = [x \in Client \X (0 .. MaxDogs) |-> "off"]
    /\ stopped = [x \in Client \X Dogs |-> FALSE]
    /\ holds = [c \in Client |-> FALSE]
    /\ lapsed = {}
-----------------------------------------------------------------------------
\* A script whose test is cond puts newKey under the key.  A script that
\* fails, or whose answer the client does not get, may have run or not.
Eval(cond, newKey, answer) ==
    \/ answer = "ok" /\ cond /\ key' = newKey
    \/ answer = "no" /\ ~cond /\ key' = key
    \/ /\ answer = "err" /\ Faults
       /\ key' \in {key, IF cond THEN newKey ELSE key}

LockScriptUnchecked(c, answer) == Eval(TRUE, c, answer)
LockScript(c, answer) == Eval(key = None, c, answer)
UnlockScriptUnchecked(c, answer) == Eval(key # None, None, answer)
UnlockScript(c, answer) == Eval(key = c, None, answer)
RefreshScript(c, answer) == Eval(key = c, c, answer)

\* The server drops the key when its time is over.
Expire ==
    /\ key # None
    /\ key' = None
    /\ lapsed' = lapsed \cup {key}
    /\ UNCHANGED <<isLocked, callVars, dogVars, holds>>

Call(c, name) ==
    /\ op[c] = "none"
    /\ op' = [op EXCEPT ![c] = name]
    /\ stage' = [stage EXCEPT ![c] = "eval"]
    /\ retryCnt' = [retryCnt EXCEPT ![c] = 0]

Return(c) ==
    /\ op' = [op EXCEPT ![c] = "none"]
    /\ stage' = [stage EXCEPT ![c] = "wait"]
    /\ retryCnt' = [retryCnt EXCEPT ![c] = 0]

\* NewWatchDog and Start, when the option is on; l.watchdog forgets the dog
\* it had.
StartWatchdog(c) ==
    IF c \notin Watchdog THEN UNCHANGED dogVars
    ELSE \E d \in Dogs :
           /\ dog[<<c, d>>] = "off" /\ \A e \in Dogs : dog[c, e] = "off" => d <= e
           /\ watchdog' = [watchdog EXCEPT ![c] = d]
           /\ dog' = [dog EXCEPT ![<<c, d>>] = "select"]
           /\ stopped' = [stopped EXCEPT ![<<c, d>>] = FALSE]
-----------------------------------------------------------------------------
\* TryLock and Lock return at once (ErrLockAlreadyHeld) when isLocked.
CallTryLock(c) ==
    /\ ~isLocked[c] /\ Call(c, "TryLock")
    /\ UNCHANGED <<key, isLocked, dogVars, holds, lapsed>>

CallLock(c) ==
    /\ ~isLocked[c] /\ Call(c, "Lock")
    /\ UNCHANGED <<key, isLocked, dogVars, holds, lapsed>>

\* tryAcquire
TryAcquire(c) ==
    /\ op[c] \in {"TryLock", "Lock"} /\ stage[c] = "eval"
    /\ \E answer \in Answer :
         LockScript(c, answer) /\ stage' = [stage EXCEPT ![c] = answer]
    /\ lapsed' = IF key = None /\ key' = c THEN lapsed \ {c} ELSE lapsed
    /\ UNCHANGED <<isLocked, op, retryCnt, dogVars, holds>>

\* The rest of TryLock.
TryLockReturn(c) ==
    /\ op[c] = "TryLock" /\ stage[c] \in Answer
    /\ IF stage[c] = "ok"
       THEN /\ isLocked' = [isLocked EXCEPT ![c] = TRUE]
            /\ holds' = [holds EXCEPT ![c] = TRUE]
            /\ StartWatchdog(c)
       ELSE UNCHANGED <<isLocked, holds, dogVars>>
    /\ Return(c)
    /\ UNCHANGED <<key, lapsed>>

\* Lock after tryAcquire: success does not end the loop.  It returns
\* ErrLockAcquireFailed when the retries are used up or it may not block.
GivesUp(c) == retryCnt[c] > RetryTimes \/ ~BlockWaiting

LockAttempt(c) ==
    /\ op[c] = "Lock" /\ stage[c] \in Answer
    /\ IF stage[c] = "ok"
       THEN isLocked' = [isLocked EXCEPT ![c] = TRUE] /\ StartWatchdog(c)
       ELSE UNCHANGED <<isLocked, dogVars>>
    /\ IF stage[c] = "err" \/ GivesUp(c)
       THEN Return(c)
       ELSE stage' = [stage EXCEPT ![c] = "wait"] /\ UNCHANGED <<op, retryCnt>>
    /\ UNCHANGED <<key, holds, lapsed>>

\* The wait between two attempts ends with the context or with the interval.
LockCancelled(c) ==
    /\ op[c] = "Lock" /\ stage[c] = "wait"
    /\ Return(c)
    /\ UNCHANGED <<key, isLocked, dogVars, holds, lapsed>>

LockRetry(c) ==
    /\ op[c] = "Lock" /\ stage[c] = "wait"
    /\ stage' = [stage EXCEPT ![c] = "eval"]
    /\ retryCnt' = [retryCnt EXCEPT ![c] = @ + 1]
    /\ UNCHANGED <<key, isLocked, op, dogVars, holds, lapsed>>
-----------------------------------------------------------------------------
\* WatchDog.Stop
StopDog(c, d) == stopped' = [stopped EXCEPT ![<<c, d>>] = TRUE]

\* Unlock up to the script: it needs isLocked, and stops the watchdog.
CallUnlock(c) ==
    /\ op[c] = "none"
    /\ holds' = [holds EXCEPT ![c] = FALSE]
    /\ IF isLocked[c]
       THEN /\ Call(c, "Unlock")
            /\ IF watchdog[c] = 0 THEN UNCHANGED stopped ELSE StopDog(c, watchdog[c])
            /\ watchdog' = [watchdog EXCEPT ![c] = 0]
       ELSE UNCHANGED <<callVars, watchdog, stopped>>
    /\ UNCHANGED <<key, isLocked, dog, lapsed>>

UnlockEval(c) ==
    /\ op[c] = "Unlock" /\ stage[c] = "eval"
    /\ \E answer \in Answer :
         UnlockScript(c, answer) /\ stage' = [stage EXCEPT ![c] = answer]
    /\ UNCHANGED <<isLocked, op, retryCnt, dogVars, holds, lapsed>>

\* An error leaves isLocked as it was.
UnlockReturn(c) ==
    /\ op[c] = "Unlock" /\ stage[c] \in Answer
    /\ isLocked' = [isLocked EXCEPT ![c] = @ /\ stage[c] = "err"]
    /\ Return(c)
    /\ UNCHANGED <<key, dogVars, holds, lapsed>>
-----------------------------------------------------------------------------
\* Refresh: called by a dog when its ticker ticks (even if its stopChan is
\* closed too: select takes either), or by anyone (0).
DogEnd(c, d) ==
    /\ dog' = [dog EXCEPT ![<<c, d>>] = "off"]
    /\ IF d = 0 THEN UNCHANGED stopped ELSE StopDog(c, d)

DogGoesOn(c, d) ==
    /\ dog' = [dog EXCEPT ![<<c, d>>] = IF d = 0 THEN "off" ELSE "select"]
    /\ UNCHANGED stopped

\* A watchdog that goes on after a renewal it could not ask for.
RefreshCallUnending(c, d) ==
    /\ dog[<<c, d>>] = IF d = 0 THEN "off" ELSE "select"
    /\ IF isLocked[c]
       THEN dog' = [dog EXCEPT ![<<c, d>>] = "eval"] /\ UNCHANGED stopped
       ELSE DogGoesOn(c, d)
    /\ UNCHANGED <<key, isLocked, callVars, watchdog, holds, lapsed>>

RefreshCall(c, d) ==
    /\ dog[<<c, d>>] = IF d = 0 THEN "off" ELSE "select"
    /\ IF isLocked[c]
       THEN dog' = [dog EXCEPT ![<<c, d>>] = "eval"] /\ UNCHANGED stopped
       ELSE DogEnd(c, d)
    /\ UNCHANGED <<key, isLocked, callVars, watchdog, holds, lapsed>>

RefreshEval(c, d) ==
    /\ dog[<<c, d>>] = "eval"
    /\ \E answer \in Answer :
         RefreshScript(c, answer) /\ dog' = [dog EXCEPT ![<<c, d>>] = answer]
    /\ UNCHANGED <<isLocked, callVars, watchdog, stopped, holds, lapsed>>

\* Only a refused renewal clears isLocked, but any error ends the dog.
RefreshReturn(c, d) ==
    /\ dog[<<c, d>>] \in Answer
    /\ isLocked' = [isLocked EXCEPT ![c] = @ /\ dog[<<c, d>>] # "no"]
    /\ IF dog[<<c, d>>] = "ok" THEN DogGoesOn(c, d) ELSE DogEnd(c, d)
    /\ UNCHANGED <<key, callVars, watchdog, holds, lapsed>>

DogExit(c, d) ==
    /\ dog[<<c, d>>] = "select" /\ stopped[c, d]
    /\ dog' = [dog EXCEPT ![<<c, d>>] = "off"]
    /\ UNCHANGED <<key, isLocked, callVars, watchdog, stopped, holds, lapsed>>

DogStep(c, d) ==
    \/ RefreshCall(c, d) \/ RefreshEval(c, d) \/ RefreshReturn(c, d)
    \/ d # 0 /\ DogExit(c, d)

ClientStep(c) ==
    \/ CallTryLock(c) \/ TryLockReturn(c)
    \/ CallLock(c) \/ LockAttempt(c) \/ LockCancelled(c) \/ LockRetry(c)
    \/ TryAcquire(c)
    \/ CallUnlock(c) \/ UnlockEval(c) \/ UnlockReturn(c)

Next ==
    \/ Expire
    \/ \E c \in Client :
         ClientStep(c) \/ \E d \in 0 .. MaxDogs : DogStep(c, d)

\* The ticker of a dog ticks and its calls return.
Spec == Init /\ [][Next]_vars /\ \A c \in Client, d \in Dogs : WF_vars(DogStep(c, d))
-----------------------------------------------------------------------------
\* The clients inside their critical sections exclude each other, except
\* that one whose key expired under it may meet others (lock.go:96-157).
MutualExclusion ==
    \A c, d \in Client : holds[c] /\ holds[d] /\ c # d => {c, d} \cap lapsed # {}

\* What holds up MutualExclusion: the key of a client that holds the lock,
\* or is about to be told so, is there until it expires.
KeyBacksHolder ==
    \A c \in Client :
        (holds[c] \/ (op[c] = "TryLock" /\ stage[c] = "ok")) /\ c \notin lapsed => key = c

HolderNotUnlocking == \A c \in Client : op[c] = "Unlock" => ~holds[c]

RetriesBounded == \A c \in Client : stage[c] = "wait" => retryCnt[c] <= RetryTimes

\* The inductive invariant: the types of the instances, the key that backs a
\* holder until it lapses, no holder in Unlock, and the bound on the retries
\* of Lock (lock.go:40-157).
LockInv == TypeOK /\ KeyBacksHolder /\ HolderNotUnlocking /\ RetriesBounded

\* Nobody takes the key away from its owner: it disappears when it expires or
\* when its owner unlocks, however late an Unlock or Refresh of an earlier
\* owner arrives (lua.go:12-26).
OnlyOwnerReleases ==
    [][key # None /\ key' # key => Expire \/ UnlockEval(key)]_vars

L == INSTANCE Lease WITH
             owner   <- key,
             inside  <- {c \in Client : holds[c]},
             overdue <- lapsed

\* RedisLock implements Lease: an owner is never replaced, only the owner's own
\* Unlock or expiry ends its ownership, also when a late script of an earlier
\* owner arrives, and nobody is told it holds the lock who does not
\* (lock.go:96-157, lua.go:12-26).
ImplementsLease == L!LeaseSpec

\* A client that is done with the lock for good gets rid of every watchdog it
\* started, the ones Lock lost track of included (watchdog.go:46-79).
WatchdogsEnd ==
    \A c \in Client :
        <>[](~isLocked[c]) => <>[](\A d \in Dogs : dog[<<c, d>>] = "off")

\* Lock blocks until it has the lock: "0表示无限重试" (0 means retry without
\* limit, option.go:92), "会阻塞直到获取成功或上下文取消" (blocks until it succeeds or
\* the context is cancelled, interface.go:8).
LockBlocksUntilAcquired ==
    [][\A c \in Client :
         op[c] = "Lock" /\ stage[c] \in {"ok", "no"} => op'[c] = "Lock" \/ key = c]_vars

\* isLocked is right about the lock, "以及在续约失败时能正确更新状态" (and is updated
\* correctly when a renewal fails, lock.go:20): a client that is in no call
\* and not locked does not own the key.
IsLockedTracksOwnership ==
    \A c \in Client : op[c] = "none" /\ ~isLocked[c] => key # c
=============================================================================
