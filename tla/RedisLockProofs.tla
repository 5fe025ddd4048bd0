--------------------------- MODULE RedisLockProofs ---------------------------
(***************************************************************************)
(* Proofs about RedisLock, for any set of clients, options and number of   *)
(* watchdogs.                                                              *)
(***************************************************************************)
EXTENDS RedisLock, TLAPS

\* The invariant carries mutual exclusion: the key has one value.
LEMMA LockInvSafe == LockInv => MutualExclusion
    BY DEF LockInv, KeyBacksHolder, MutualExclusion

\* Fresh instances satisfy the invariant (NewRedisLock).
LEMMA LockInvInit == Init => LockInv
<1> SUFFICES ASSUME Init PROVE LockInv
    OBVIOUS
<1>1. TypeOK
    BY OptionAssumption DEF Init, TypeOK, Answer, Stage, DogStage, Dogs
<1>2. QED
    BY <1>1, OptionAssumption
    DEF Init, LockInv, KeyBacksHolder, HolderNotUnlocking, RetriesBounded

\* The watchdogs of an instance keep their types.
LEMMA DogTypes ==
    ASSUME TypeOK, [Next]_vars
    PROVE  /\ watchdog' \in [Client -> 0 .. MaxDogs]
           /\ dog' \in [Client \X (0 .. MaxDogs) -> DogStage]
           /\ stopped' \in [Client \X Dogs -> BOOLEAN]
<1> DEFINE G == /\ watchdog' \in [Client -> 0 .. MaxDogs]
                /\ dog' \in [Client \X (0 .. MaxDogs) -> DogStage]
                /\ stopped' \in [Client \X Dogs -> BOOLEAN]
<1>1. /\ watchdog \in [Client -> 0 .. MaxDogs]
      /\ dog \in [Client \X (0 .. MaxDogs) -> DogStage]
      /\ stopped \in [Client \X Dogs -> BOOLEAN]
    BY DEF TypeOK
<1>2. /\ Dogs \subseteq 0 .. MaxDogs
      /\ 0 \in 0 .. MaxDogs /\ (0 .. MaxDogs) \ {0} = Dogs
    BY OptionAssumption DEF Dogs
<1>3. {"off", "select", "eval", "ok", "no", "err"} \subseteq DogStage
    BY DEF DogStage, Answer
<1>4. (UNCHANGED dogVars) => G
    BY <1>1 DEF dogVars
<1>5. ASSUME NEW c \in Client, NEW d \in Dogs, StopDog(c, d)
      PROVE  stopped' \in [Client \X Dogs -> BOOLEAN]
    BY <1>1, <1>5 DEF StopDog
<1>6. ASSUME NEW c \in Client, StartWatchdog(c) PROVE G
    <2>1. CASE c \notin Watchdog
        BY <1>4, <1>6, <2>1 DEF StartWatchdog
    <2>2. CASE c \in Watchdog
        <3>1. PICK d \in Dogs :
                /\ watchdog' = [watchdog EXCEPT ![c] = d]
                /\ dog' = [dog EXCEPT ![<<c, d>>] = "select"]
                /\ stopped' = [stopped EXCEPT ![<<c, d>>] = FALSE]
            BY <1>6, <2>2 DEF StartWatchdog
        <3>2. QED
            BY <1>1, <1>2, <1>3, <3>1
    <2>3. QED
        BY <2>1, <2>2
<1>7. ASSUME NEW c \in Client, CallUnlock(c) PROVE G
    BY <1>1, <1>2, <1>5, <1>7 DEF CallUnlock
<1>8. ASSUME NEW c \in Client, NEW d \in 0 .. MaxDogs,
             RefreshCall(c, d) \/ RefreshEval(c, d) \/ RefreshReturn(c, d)
                \/ (d # 0 /\ DogExit(c, d))
      PROVE  G
    <2>1. watchdog' = watchdog
        BY <1>8 DEF RefreshCall, RefreshEval, RefreshReturn, DogExit
    <2>2. stopped' \in [Client \X Dogs -> BOOLEAN]
        BY <1>1, <1>2, <1>5, <1>8
        DEF RefreshCall, RefreshEval, RefreshReturn, DogExit, DogEnd, DogGoesOn
    <2>3. \E x \in DogStage : dog' = [dog EXCEPT ![<<c, d>>] = x]
        BY <1>3, <1>8 DEF RefreshCall, RefreshEval, RefreshReturn, DogExit, DogEnd,
            DogGoesOn, Answer
    <2>4. QED
        BY <1>1, <2>1, <2>2, <2>3
<1> HIDE DEF G
<1>9. ASSUME NEW c \in Client, ClientStep(c) PROVE G
    BY <1>4, <1>6, <1>7, <1>9 DEF ClientStep, CallTryLock, TryLockReturn, CallLock,
        LockAttempt, LockCancelled, LockRetry, TryAcquire, UnlockEval, UnlockReturn, dogVars
<1>10. QED
    <2>1. G
        BY <1>4, <1>8, <1>9 DEF Next, vars, Expire, DogStep
    <2>2. QED
        BY <2>1 DEF G

\* A dog's step touches no call, no holder and no lapse; its script leaves
\* the key as it is.
LEMMA DogStepFrame ==
    ASSUME NEW c \in Client, NEW d \in 0 .. MaxDogs, DogStep(c, d), TypeOK
    PROVE  /\ key' = key /\ op' = op /\ stage' = stage /\ retryCnt' = retryCnt
           /\ holds' = holds /\ lapsed' = lapsed
           /\ isLocked' \in [Client -> BOOLEAN]
    BY DEF DogStep, RefreshCall, RefreshEval, RefreshReturn, DogExit, RefreshScript, Eval,
        callVars, TypeOK

\* A client's step disturbs no other client's call.
LEMMA TypeStep == LockInv /\ [Next]_vars => TypeOK'
<1> SUFFICES ASSUME LockInv, [Next]_vars PROVE TypeOK'
    OBVIOUS
<1>1. TypeOK /\ RetriesBounded
    BY DEF LockInv
<1>2. /\ watchdog' \in [Client -> 0 .. MaxDogs]
      /\ dog' \in [Client \X (0 .. MaxDogs) -> DogStage]
      /\ stopped' \in [Client \X Dogs -> BOOLEAN]
    BY <1>1, DogTypes
<1> DEFINE G == /\ key' \in Client \cup {None}
                /\ isLocked' \in [Client -> BOOLEAN]
                /\ op' \in [Client -> {"none", "TryLock", "Lock", "Unlock"}]
                /\ stage' \in [Client -> Stage]
                /\ retryCnt' \in [Client -> 0 .. RetryTimes + 1]
                /\ holds' \in [Client -> BOOLEAN]
                /\ lapsed' \subseteq Client
<1>3. {"eval", "wait", "ok", "no", "err"} \subseteq Stage
    BY DEF Stage, Answer
<1>4. 0 \in 0 .. RetryTimes + 1
    BY OptionAssumption
<1>5. (UNCHANGED vars \/ Expire) => G
    BY <1>1 DEF vars, Expire, callVars, TypeOK
<1>6. ASSUME NEW c \in Client, CallTryLock(c) \/ CallLock(c) PROVE G
    BY <1>1, <1>3, <1>4, <1>6 DEF CallTryLock, CallLock, Call, TypeOK
<1>7. ASSUME NEW c \in Client, TryAcquire(c) \/ UnlockEval(c) PROVE G
    <2>1. key' \in Client \cup {None}
        BY <1>1, <1>7 DEF TryAcquire, UnlockEval, LockScript, UnlockScript, Eval, TypeOK
    <2>2. stage' \in [Client -> Stage]
        BY <1>1, <1>3, <1>7 DEF TryAcquire, UnlockEval, Answer, TypeOK
    <2>3. QED
        BY <1>1, <1>7, <2>1, <2>2 DEF TryAcquire, UnlockEval, TypeOK
<1>8. ASSUME NEW c \in Client, TryLockReturn(c) \/ LockCancelled(c) \/ UnlockReturn(c) PROVE G
    <2>1. isLocked' \in [Client -> BOOLEAN] /\ holds' \in [Client -> BOOLEAN]
        BY ZenonT(60), <1>1, <1>8 DEF TryLockReturn, LockCancelled, UnlockReturn, TypeOK
    <2>2. QED
        BY SMTT(60), <1>1, <1>3, <1>4, <1>8, <2>1
        DEF TryLockReturn, LockCancelled, UnlockReturn, Return, TypeOK
<1>9. ASSUME NEW c \in Client, LockAttempt(c) PROVE G
    BY ZenonT(60), <1>1, <1>3, <1>4, <1>9 DEF LockAttempt, Return, TypeOK
<1>10. ASSUME NEW c \in Client, LockRetry(c) PROVE G
    <2>1. retryCnt[c] \in Nat /\ retryCnt[c] <= RetryTimes
        BY <1>1, <1>10, OptionAssumption DEF LockRetry, RetriesBounded, TypeOK
    <2>2. retryCnt' \in [Client -> 0 .. RetryTimes + 1]
        BY <1>1, <1>10, <2>1, OptionAssumption DEF LockRetry, TypeOK
    <2>3. QED
        BY <1>1, <1>3, <1>10, <2>2 DEF LockRetry, TypeOK
<1>11. ASSUME NEW c \in Client, CallUnlock(c) PROVE G
    <2>1. op' \in [Client -> {"none", "TryLock", "Lock", "Unlock"}] /\ stage' \in [Client -> Stage]
        BY <1>1, <1>3, <1>11 DEF CallUnlock, Call, callVars, TypeOK
    <2>2. retryCnt' \in [Client -> 0 .. RetryTimes + 1]
        BY <1>1, <1>4, <1>11 DEF CallUnlock, Call, callVars, TypeOK
    <2>3. QED
        BY ZenonT(60), <1>1, <1>11, <2>1, <2>2 DEF CallUnlock, TypeOK
<1>12. ASSUME NEW c \in Client, NEW d \in 0 .. MaxDogs, DogStep(c, d) PROVE G
    BY <1>1, <1>12, DogStepFrame DEF TypeOK
<1> HIDE DEF G
<1>13. G
    BY <1>5, <1>6, <1>7, <1>8, <1>9, <1>10, <1>11, <1>12 DEF Next, ClientStep
<1>14. QED
    BY <1>2, <1>13 DEF G, TypeOK

\* Every step keeps the invariant: the key of a holder is taken away only by
\* Expire, which records the lapse, or by the holder's own Unlock, which it
\* has to call first.
LEMMA LockInvStep == LockInv /\ [Next]_vars => LockInv'
<1> SUFFICES ASSUME LockInv, [Next]_vars PROVE LockInv'
    OBVIOUS
<1>1. TypeOK /\ KeyBacksHolder /\ HolderNotUnlocking /\ RetriesBounded
    BY DEF LockInv
<1>2. TypeOK'
    BY TypeStep
<1> DEFINE G == KeyBacksHolder' /\ HolderNotUnlocking' /\ RetriesBounded'
<1> USE DEF TypeOK, KeyBacksHolder, HolderNotUnlocking, RetriesBounded
<1>3. ASSUME UNCHANGED vars PROVE G
    BY <1>1, <1>3 DEF vars, callVars
<1>4. ASSUME Expire PROVE G
    BY <1>1, <1>4 DEF Expire, callVars
<1>5. ASSUME NEW c \in Client, CallTryLock(c) \/ CallLock(c) PROVE G
    BY <1>1, <1>5 DEF CallTryLock, CallLock, Call
<1>6. ASSUME NEW c \in Client, TryAcquire(c) PROVE G
    <2>1. PICK a \in Answer : LockScript(c, a) /\ stage' = [stage EXCEPT ![c] = a]
        BY ZenonT(60), <1>6 DEF TryAcquire
    <2>2. key' = key \/ (key = None /\ key' = c)
        BY <2>1 DEF LockScript, Eval
    <2>3. a = "ok" => key' = c
        BY <2>1 DEF LockScript, Eval
    <2>4. KeyBacksHolder'
        BY <1>1, <1>6, <2>1, <2>2, <2>3, ClientAssumption DEF TryAcquire
    <2>5. HolderNotUnlocking' /\ RetriesBounded'
        BY <1>1, <1>6, <2>1 DEF TryAcquire, Answer
    <2>6. QED
        BY <2>4, <2>5
<1>7. ASSUME NEW c \in Client, TryLockReturn(c) \/ LockCancelled(c) \/ UnlockReturn(c) PROVE G
    <2>1. KeyBacksHolder'
        BY <1>1, <1>7 DEF TryLockReturn, LockCancelled, UnlockReturn, Return
    <2>2. HolderNotUnlocking'
        BY <1>1, <1>7 DEF TryLockReturn, LockCancelled, UnlockReturn, Return
    <2>3. RetriesBounded'
        BY <1>1, <1>7, OptionAssumption DEF TryLockReturn, LockCancelled, UnlockReturn, Return
    <2>4. QED
        BY <2>1, <2>2, <2>3
<1>8. ASSUME NEW c \in Client, LockAttempt(c) PROVE G
    BY <1>1, <1>8, OptionAssumption DEF LockAttempt, GivesUp, Return
<1>9. ASSUME NEW c \in Client, LockRetry(c) PROVE G
    BY <1>1, <1>9 DEF LockRetry
<1>10. ASSUME NEW c \in Client, CallUnlock(c) PROVE G
    <2>1. CASE isLocked[c]
        BY <1>1, <1>10, <2>1 DEF CallUnlock, Call
    <2>2. CASE ~isLocked[c]
        BY <1>1, <1>10, <2>2 DEF CallUnlock, callVars
    <2>3. QED
        BY <2>1, <2>2
<1>11. ASSUME NEW c \in Client, UnlockEval(c) PROVE G
    <2>1. ~holds[c] /\ op[c] = "Unlock" /\ (key' = key \/ key = c)
        BY <1>1, <1>11 DEF UnlockEval, UnlockScript, Eval
    <2>2. QED
        BY <1>1, <1>11, <2>1 DEF UnlockEval, Answer
<1>12. ASSUME NEW c \in Client, NEW d \in 0 .. MaxDogs, DogStep(c, d) PROVE G
    BY <1>1, <1>12, DogStepFrame
<1> HIDE DEF G
<1>13. G
    BY <1>3, <1>4, <1>5, <1>6, <1>7, <1>8, <1>9, <1>10, <1>11, <1>12
    DEF Next, ClientStep
<1>14. QED
    BY <1>2, <1>13 DEF G, LockInv

\* Every lock instance keeps the invariant (lock.go:40-178).
THEOREM LockInvariant == Spec => []LockInv
    BY LockInvInit, LockInvStep, PTL DEF Spec

\* Two clients inside their critical sections: one of them lost its key to
\* the expiry (lock.go:96-157).
THEOREM Exclusion == Spec => []MutualExclusion
    BY LockInvariant, LockInvSafe, PTL

\* The scripts take the key only from its owner (lua.go:12-26).
THEOREM OwnerReleases == Spec => OnlyOwnerReleases
<1>1. LockInv /\ [Next]_vars => [key # None /\ key' # key => Expire \/ UnlockEval(key)]_vars
    <2> SUFFICES ASSUME LockInv, Next, key # None, key' # key, ~Expire
                 PROVE  UnlockEval(key)
        OBVIOUS
    <2>1. TypeOK
        BY DEF LockInv
    <2>2. \A c \in Client, d \in 0 .. MaxDogs : ~DogStep(c, d)
        BY <2>1, DogStepFrame
    <2>3. PICK c \in Client : ClientStep(c)
        BY <2>2 DEF Next
    <2>4. UnlockEval(c)
        BY <2>3 DEF ClientStep, CallTryLock, TryLockReturn, CallLock, LockAttempt,
            LockCancelled, LockRetry, TryAcquire, CallUnlock, UnlockReturn, LockScript, Eval
    <2>5. key = c
        BY <2>4 DEF UnlockEval, UnlockScript, Eval
    <2>6. QED
        BY <2>4, <2>5
<1>2. QED
    BY <1>1, LockInvariant, PTL DEF Spec, OnlyOwnerReleases

\* Fresh instances map to a free lease.
LEMMA LeaseInitially == Init => L!LeaseInit
    BY DEF Init, L!LeaseInit

\* Every step of an instance, a watchdog or the server is a step of the lease
\* or leaves it alone: TryAcquire acquires, TryLockReturn enters, CallUnlock
\* leaves, UnlockEval releases and Expire lapses.
LEMMA LeaseStep == LockInv /\ [Next]_vars => [L!LeaseNext]_(L!leaseVars)
<1> SUFFICES ASSUME LockInv, [Next]_vars PROVE [L!LeaseNext]_(L!leaseVars)
    OBVIOUS
<1>1. TypeOK /\ KeyBacksHolder /\ HolderNotUnlocking
    BY DEF LockInv
<1>2. (key' = key /\ holds' = holds /\ lapsed' = lapsed) => UNCHANGED L!leaseVars
    BY DEF L!leaseVars
<1>3. ASSUME UNCHANGED vars PROVE UNCHANGED L!leaseVars
    BY <1>2, <1>3 DEF vars
<1>4. ASSUME Expire PROVE L!Lapse
    BY <1>4 DEF Expire, L!Lapse
<1>5. ASSUME NEW c \in Client, TryAcquire(c) PROVE L!Acquire(c) \/ UNCHANGED L!leaseVars
    <2>1. key' = key \/ (key = None /\ key' = c)
        BY <1>5 DEF TryAcquire, LockScript, Eval
    <2>2. CASE key' = key
        BY <1>2, <1>5, <2>2, ClientAssumption DEF TryAcquire
    <2>3. CASE key = None /\ key' = c
        BY <1>5, <2>3 DEF TryAcquire, L!Acquire
    <2>4. QED
        BY <2>1, <2>2, <2>3
<1>6. ASSUME NEW c \in Client, TryLockReturn(c) PROVE L!Enter(c) \/ UNCHANGED L!leaseVars
    <2>1. CASE stage[c] = "ok"
        <3>1. key = c \/ c \in lapsed
            BY <1>1, <1>6, <2>1 DEF TryLockReturn, KeyBacksHolder
        <3>2. holds' = [holds EXCEPT ![c] = TRUE] /\ key' = key /\ lapsed' = lapsed
            BY <1>6, <2>1 DEF TryLockReturn
        <3>3. {d \in Client : holds'[d]} = {d \in Client : holds[d]} \cup {c}
            BY <1>1, <3>2 DEF TypeOK
        <3>4. QED
            BY <3>1, <3>2, <3>3 DEF L!Enter
    <2>2. CASE stage[c] # "ok"
        BY <1>2, <1>6, <2>2 DEF TryLockReturn
    <2>3. QED
        BY <2>1, <2>2
<1>7. ASSUME NEW c \in Client, CallUnlock(c) PROVE L!Leave(c)
    <2>1. holds' = [holds EXCEPT ![c] = FALSE] /\ key' = key /\ lapsed' = lapsed
        BY <1>7 DEF CallUnlock
    <2>2. {d \in Client : holds'[d]} = {d \in Client : holds[d]} \ {c}
        BY <1>1, <2>1 DEF TypeOK
    <2>3. QED
        BY <2>1, <2>2 DEF L!Leave
<1>8. ASSUME NEW c \in Client, UnlockEval(c) PROVE L!Release(c) \/ UNCHANGED L!leaseVars
    <2>1. ~holds[c] /\ (key' = key \/ (key = c /\ key' = None))
        BY <1>1, <1>8 DEF UnlockEval, UnlockScript, Eval, HolderNotUnlocking
    <2>2. CASE key' = key
        BY <1>2, <1>8, <2>2 DEF UnlockEval
    <2>3. CASE key = c /\ key' = None
        BY <1>8, <2>1, <2>3 DEF UnlockEval, L!Release
    <2>4. QED
        BY <2>1, <2>2, <2>3
<1>9. ASSUME NEW c \in Client,
             CallTryLock(c) \/ CallLock(c) \/ LockAttempt(c) \/ LockCancelled(c)
                 \/ LockRetry(c) \/ UnlockReturn(c)
      PROVE  UNCHANGED L!leaseVars
    BY <1>2, <1>9 DEF CallTryLock, CallLock, LockAttempt, LockCancelled, LockRetry, UnlockReturn
<1>10. ASSUME NEW c \in Client, NEW d \in 0 .. MaxDogs, DogStep(c, d)
       PROVE  UNCHANGED L!leaseVars
    BY <1>1, <1>2, <1>10, DogStepFrame
<1>11. QED
    BY <1>3, <1>4, <1>5, <1>6, <1>7, <1>8, <1>9, <1>10 DEF Next, ClientStep, L!LeaseNext

\* The lock implements the lease, for any clients, watchdogs and faults
\* (lock.go:40-178, lua.go:3-26).
THEOREM LockImplementsLease == Spec => ImplementsLease
    BY LockInvariant, LeaseInitially, LeaseStep, PTL DEF Spec, ImplementsLease, L!LeaseSpec
=============================================================================
