---------------------------- MODULE GuardSingle ----------------------------
(***************************************************************************)
(* SingleWordGuard of guard.cc: lock bit and initialised bit in one atomic *)
(* word (Arm, and every 64-bit platform).                                  *)
(***************************************************************************)
EXTENDS GuardClient

VARIABLE val   \* the guard word

vars == <<pc, object, throws, val>>

Init == ClientInit /\ val = {}

is_initialised == initialised \subseteq val

\* The inline test the compiler emits before the call.
FastCheck(t) ==
    /\ Goto(t, "idle", IF val \cap FirstByte # {} THEN "use" ELSE "acquire")
    /\ UNCHANGED <<object, throws, val>>

\* The load at the start of __cxa_guard_acquire.
AcquireCheck(t) ==
    /\ Goto(t, "acquire", IF is_initialised THEN "use" ELSE "try")
    /\ UNCHANGED <<object, throws, val>>

\* Mutant: the compare-and-exchange split into a load and a store.
MutantTryLockWins(t) ==
    /\ Goto(t, "try", "locked")
    /\ val \in {{}, locked}
    /\ val' = locked
    /\ UNCHANGED <<object, throws>>

\* compare_exchange(0, locked) succeeds: GuardState::InitLockSucceeded.
TryLockWins(t) ==
    /\ val = {}
    /\ Goto(t, "try", "locked")
    /\ val' = locked
    /\ UNCHANGED <<object, throws>>

\* Mutant: any failed exchange is taken for InitDone.
MutantTryLockSeesDone(t) ==
    /\ val # {}
    /\ Goto(t, "try", "use")
    /\ UNCHANGED <<object, throws, val>>

\* The exchange fails and old = initialised: GuardState::InitDone.
TryLockSeesDone(t) ==
    /\ val # {}
    /\ val = initialised
    /\ Goto(t, "try", "use")
    /\ UNCHANGED <<object, throws, val>>

\* The exchange fails, for a held lock or spuriously: InitLockFailed.
TryLockFails(t) ==
    /\ val # {} \/ WeakCAS
    /\ val # initialised
    /\ Goto(t, "try", "yield")
    /\ UNCHANGED <<object, throws, val>>

\* sched_yield() and round the loop.
Yield(t) ==
    /\ Goto(t, "yield", "try")
    /\ UNCHANGED <<object, throws, val>>

\* Mutant: the initialised state is stored with the lock bit still set.
MutantRelease(t) ==
    /\ Goto(t, "release", "use")
    /\ val' = val \cup initialised
    /\ UNCHANGED <<object, throws>>

\* __cxa_guard_release: unlock(true), one store.
Release(t) ==
    /\ Goto(t, "release", "use")
    /\ val' = initialised
    /\ UNCHANGED <<object, throws>>

\* Mutant: abort marks the variable initialised.
MutantAbort(t) ==
    /\ Goto(t, "abort", "idle")
    /\ val' = initialised
    /\ UNCHANGED <<object, throws>>

\* __cxa_guard_abort: unlock(false), one store.
Abort(t) ==
    /\ Goto(t, "abort", "idle")
    /\ val' = {}
    /\ UNCHANGED <<object, throws>>

Constructor(t) ==
    (StartConstructor(t) \/ ConstructorReturns(t) \/ ConstructorThrows(t)) /\ UNCHANGED val

AcquireStep(t) ==
    AcquireCheck(t) \/ TryLockWins(t) \/ TryLockSeesDone(t) \/ TryLockFails(t) \/ Yield(t)

Next ==
    \E t \in Threads :
        \/ FastCheck(t)
        \/ AcquireStep(t)
        \/ Constructor(t)
        \/ Release(t)
        \/ Abort(t)
        \/ ReturnFromFunction(t) /\ UNCHANGED val

Spec == Init /\ [][Next]_vars

\* A thread that is inside the guard functions or the constructor keeps
\* running; nobody is forced to call the function, or to return from it. A
\* weak exchange that is tried again and again does not always fail
\* spuriously.
FairSpec ==
    /\ Spec
    /\ \A t \in Threads : /\ WF_vars(AcquireStep(t))
                          /\ SF_vars(TryLockWins(t))
                          /\ WF_vars(Constructor(t))
                          /\ WF_vars(Release(t) \/ Abort(t))
-----------------------------------------------------------------------------
TypeOK ==
    /\ pc \in [Threads -> {"idle", "acquire", "try", "yield", "locked", "construct",
                           "release", "abort", "use"}]
    /\ object \in {"raw", "partial", "built"}
    /\ throws \in 0..MaxThrows
    /\ val \in {{}, locked, initialised}

\* The guard word always tells the truth about the object: it is locked
\* exactly while some thread initialises, and initialised only when built.
WordMatchesObject ==
    /\ val = locked <=> Initialising # {}
    /\ val = initialised => object = "built"
    /\ object = "built" => val = initialised \/ \E t \in Threads : pc[t] = "release"

(***************************************************************************)
(* SingleWordGuard implements OnceInit.                                    *)
(***************************************************************************)
Once == INSTANCE OnceInit WITH
    owners <- Initialising,
    done   <- val = initialised,
    users  <- {t \in Threads : pc[t] = "use"}

\* Every step of the single-word guard is a step that OnceInit allows.
ImplementsOnceInit == Once!Spec
=============================================================================
