---------------------------- MODULE GuardDouble ----------------------------
(***************************************************************************)
(* DoubleWordGuard of guard.cc (32-bit platforms other than Arm): the two  *)
(* halves of the 64-bit guard are separate atomic words, so every function *)
(* takes several atomic steps.                                             *)
(***************************************************************************)
EXTENDS GuardClient

CONSTANT Asserts   \* FALSE when the library is compiled with NDEBUG

ASSUME AssertsAssumption == Asserts \in BOOLEAN

VARIABLES init_word, lock_word

words == <<init_word, lock_word>>
vars == <<pc, object, throws, init_word, lock_word>>

Init == ClientInit /\ init_word = {} /\ lock_word = {}

\* A failed assert calls abort(), which ends all threads.
Running == \A t \in Threads : pc[t] # "aborted"

is_initialised == initialised \subseteq init_word

\* The generated code, and the assert in unlock, read the first byte.
firstByteSet == init_word \cap FirstByte # {}

FastCheck(t) ==
    /\ Goto(t, "idle", IF firstByteSet THEN "use" ELSE "acquire")
    /\ UNCHANGED <<object, throws, words>>

AcquireCheck(t) ==
    /\ Goto(t, "acquire", IF is_initialised THEN "use" ELSE "try")
    /\ UNCHANGED <<object, throws, words>>

\* Mutant: the exchange does not test the old value.
MutantTryLockWins(t) ==
    /\ Goto(t, "try", "recheck")
    /\ lock_word' = locked
    /\ UNCHANGED <<object, throws, init_word>>

\* lock_word.compare_exchange(0, locked) succeeds.
TryLockWins(t) ==
    /\ lock_word = {}
    /\ Goto(t, "try", "recheck")
    /\ lock_word' = locked
    /\ UNCHANGED <<object, throws, init_word>>

\* The exchange fails, for a held lock or spuriously: InitLockFailed.
TryLockFails(t) ==
    /\ lock_word # {} \/ WeakCAS
    /\ Goto(t, "try", "yield")
    /\ UNCHANGED <<object, throws, words>>

\* Mutant: the initialised bit is not read again under the lock.
MutantRecheck(t) ==
    /\ Goto(t, "recheck", "locked")
    /\ UNCHANGED <<object, throws, words>>

\* Mutant: the lock is given back whatever the second load finds.
MutantEarlyRecheck(t) ==
    /\ Goto(t, "recheck", IF is_initialised THEN "undo" ELSE "locked")
    /\ lock_word' = {}
    /\ UNCHANGED <<object, throws, init_word>>

\* The second is_initialised() of try_lock, with the lock held.
Recheck(t) ==
    /\ Goto(t, "recheck", IF is_initialised THEN "undo" ELSE "locked")
    /\ UNCHANGED <<object, throws, words>>

\* Mutant: try_lock returns InitDone and keeps the lock.
MutantUndo(t) ==
    /\ Goto(t, "undo", "use")
    /\ UNCHANGED <<object, throws, words>>

\* Give the lock back and return InitDone.
Undo(t) ==
    /\ Goto(t, "undo", "use")
    /\ lock_word' = {}
    /\ UNCHANGED <<object, throws, init_word>>

\* sched_yield() and round the loop.
Yield(t) ==
    /\ Goto(t, "yield", "try")
    /\ UNCHANGED <<object, throws, words>>

\* unlock(isInitialised): the store to init_word.
StoreInit(t) ==
    /\ \/ Goto(t, "release", "releaseUnlock") /\ init_word' = initialised
       \/ Goto(t, "abort", "abortUnlock") /\ init_word' = {}
    /\ UNCHANGED <<object, throws, lock_word>>

\* Mutant: the store to lock_word publishes init_word as well.
MutantStoreLock(t) ==
    /\ \/ Goto(t, "releaseUnlock", IF Asserts THEN "releaseAssert" ELSE "use")
       \/ Goto(t, "abortUnlock", IF Asserts THEN "abortAssert" ELSE "idle")
    /\ lock_word' = {}
    /\ init_word' = initialised
    /\ UNCHANGED <<object, throws>>

\* unlock(isInitialised): the store to lock_word.
StoreLock(t) ==
    /\ \/ Goto(t, "releaseUnlock", IF Asserts THEN "releaseAssert" ELSE "use")
       \/ Goto(t, "abortUnlock", IF Asserts THEN "abortAssert" ELSE "idle")
    /\ lock_word' = {}
    /\ UNCHANGED <<object, throws, init_word>>

\* unlock(isInitialised): the assert, evaluated without the lock.
AssertByte(t) ==
    /\ \/ Goto(t, "releaseAssert", IF firstByteSet THEN "use" ELSE "aborted")
       \/ Goto(t, "abortAssert", IF ~firstByteSet THEN "idle" ELSE "aborted")
    /\ UNCHANGED <<object, throws, words>>

Constructor(t) ==
    (StartConstructor(t) \/ ConstructorReturns(t) \/ ConstructorThrows(t)) /\ UNCHANGED words

AcquireStep(t) ==
    \/ AcquireCheck(t) \/ TryLockWins(t) \/ TryLockFails(t)
    \/ Recheck(t) \/ Undo(t) \/ Yield(t)

Unlock(t) == StoreInit(t) \/ StoreLock(t) \/ AssertByte(t)

Next ==
    /\ Running
    /\ \E t \in Threads :
        \/ FastCheck(t)
        \/ AcquireStep(t)
        \/ Constructor(t)
        \/ Unlock(t)
        \/ ReturnFromFunction(t) /\ UNCHANGED words

Spec == Init /\ [][Next]_vars

\* A thread inside the guard functions or the constructor keeps running;
\* nobody is forced to call the function, or to return from it. A weak
\* exchange that is tried again and again does not always fail spuriously.
FairSpec ==
    /\ Spec
    /\ \A t \in Threads : /\ WF_vars(AcquireStep(t) /\ Running)
                          /\ SF_vars(TryLockWins(t) /\ Running)
                          /\ WF_vars(Constructor(t) /\ Running)
                          /\ WF_vars(Unlock(t) /\ Running)
-----------------------------------------------------------------------------
TypeOK ==
    /\ pc \in [Threads -> {"idle", "acquire", "try", "yield", "recheck", "undo", "locked",
                           "construct", "release", "abort", "releaseUnlock", "abortUnlock",
                           "releaseAssert", "abortAssert", "use", "aborted"}]
    /\ object \in {"raw", "partial", "built"}
    /\ throws \in 0..MaxThrows
    /\ init_word \in {{}, initialised}
    /\ lock_word \in {{}, locked}

\* The threads that own lock_word.
Holders ==
    Initialising \cup {t \in Threads : pc[t] \in {"recheck", "undo", "releaseUnlock"}}

(***************************************************************************)
(* lock_word is a lock: it is set exactly while one thread is between its  *)
(* exchange and its store of 0, in try_lock or in unlock.                  *)
(***************************************************************************)
LockWordIsLock ==
    /\ lock_word = locked <=> Holders # {}
    /\ \A t, u \in Holders : t = u

(***************************************************************************)
(* The ordering rule of guard.cc ("the guard word is never modified unless *)
(* the lock word is in the locked state"), and the variable never becomes  *)
(* uninitialised again.                                                    *)
(***************************************************************************)
InitWordWrittenUnderLock ==
    [][init_word' # init_word => lock_word = locked /\ init_word' = initialised]_vars

(***************************************************************************)
(* The assert at the end of unlock(true) reads the first byte after the    *)
(* lock was given back, when other threads may have won it: it still finds *)
(* the variable initialised.                                               *)
(***************************************************************************)
ReleaseAssertionHolds == \A t \in Threads : pc[t] = "releaseAssert" => firstByteSet

(***************************************************************************)
(* DoubleWordGuard implements OnceInit. Initialisation is over when        *)
(* init_word is stored; it is abandoned when lock_word is.                 *)
(***************************************************************************)
Once == INSTANCE OnceInit WITH
    owners <- Initialising,
    done   <- init_word = initialised,
    users  <- {t \in Threads : pc[t] \in {"releaseUnlock", "releaseAssert", "undo", "use"}}

\* Every step of the two-word guard is a step that OnceInit allows.
ImplementsOnceInit == Once!Spec
=============================================================================
