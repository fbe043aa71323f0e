-------------------------- MODULE GuardDoubleProofs --------------------------
(***************************************************************************)
(* DoubleWordGuard is correct for any number of threads and constructor    *)
(* failures, although it changes its two words one after the other.        *)
(***************************************************************************)
EXTENDS GuardDouble, TLAPS

OwnerPcs == {"locked", "construct", "release", "abort", "abortUnlock"}
HolderPcs == OwnerPcs \cup {"recheck", "undo", "releaseUnlock"}
UserPcs == {"releaseUnlock", "releaseAssert", "undo", "use"}

\* init_word and the object agree, except between the constructor's return
\* and the store in unlock.
InitWordMatchesObject ==
    /\ init_word = initialised => object = "built"
    /\ object = "built" => init_word = initialised \/ \E t \in Threads : pc[t] = "release"

\* What each thread may rely on at each place of the code. The owner relies
\* on init_word staying 0: that is what Recheck, under the lock, is for.
PlaceInv ==
    \A t \in Threads :
        /\ pc[t] \in UserPcs => init_word = initialised
        /\ pc[t] \in OwnerPcs => init_word = {}
        /\ pc[t] = "release" => object = "built"
        /\ pc[t] \in OwnerPcs \ {"release"} => object # "built"

IInv == TypeOK /\ LockWordIsLock /\ InitWordMatchesObject /\ PlaceInv

LEMMA WordValues ==
    /\ locked # {} /\ initialised # {}
    /\ ~(initialised \subseteq {})
    /\ {} \cap FirstByte = {}
    /\ initialised \cap FirstByte # {}
  BY GuardAssumption DEF locked, initialised

LEMMA TestsAgree ==
    ASSUME TypeOK
    PROVE  /\ is_initialised <=> init_word = initialised
           /\ firstByteSet <=> init_word = initialised
  BY WordValues DEF TypeOK, is_initialised, firstByteSet

LEMMA HoldersByPc == Holders = {t \in Threads : pc[t] \in HolderPcs}
  BY DEF Holders, Initialising, HolderPcs, OwnerPcs

LEMMA InitHolds == Init => IInv
  BY GuardAssumption, WordValues
  DEF Init, ClientInit, IInv, TypeOK, LockWordIsLock, InitWordMatchesObject, PlaceInv,
      Holders, Initialising, OwnerPcs, UserPcs

\* The steps that write neither word and move no thread into or out of the lock.
LEMMA OutsidePreserves ==
    ASSUME IInv, NEW t \in Threads,
           \/ FastCheck(t) \/ AcquireCheck(t) \/ TryLockFails(t) \/ Yield(t)
           \/ AssertByte(t) \/ (ReturnFromFunction(t) /\ UNCHANGED words)
    PROVE  IInv'
  <1>1. PICK p \in {"idle", "acquire", "try", "yield", "use", "aborted"} :
          /\ UNCHANGED <<object, throws, init_word, lock_word>>
          /\ pc[t] \in {"idle", "acquire", "try", "yield", "use", "releaseAssert", "abortAssert"}
          /\ pc' = [pc EXCEPT ![t] = p]
          /\ p = "use" => init_word = initialised
    BY TestsAgree
    DEF IInv, FastCheck, AcquireCheck, TryLockFails, Yield, AssertByte,
        ReturnFromFunction, Goto, words
  <1>2. \A u \in Threads : pc'[u] = IF u = t THEN p ELSE pc[u]
    BY <1>1 DEF IInv, TypeOK
  <1>3. Holders' = Holders
    BY <1>1, <1>2 DEF Holders, Initialising
  <1>4. TypeOK'
    BY <1>1 DEF IInv, TypeOK
  <1>5. LockWordIsLock'
    BY <1>1, <1>3 DEF IInv, LockWordIsLock
  <1>6. InitWordMatchesObject'
    BY <1>1, <1>2 DEF IInv, InitWordMatchesObject
  <1>7. PlaceInv'
    BY <1>1, <1>2 DEF IInv, PlaceInv, OwnerPcs, UserPcs
  <1> QED BY <1>4, <1>5, <1>6, <1>7 DEF IInv

LEMMA TryLockPreserves ==
    ASSUME IInv, NEW t \in Threads, TryLockWins(t)
    PROVE  IInv'
  <1>1. /\ UNCHANGED <<object, throws, init_word>> /\ lock_word = {} /\ lock_word' = locked
        /\ pc[t] = "try" /\ pc' = [pc EXCEPT ![t] = "recheck"]
    BY DEF TryLockWins, Goto
  <1>2. \A u \in Threads : pc'[u] = IF u = t THEN "recheck" ELSE pc[u]
    BY <1>1 DEF IInv, TypeOK
  <1>3. Holders = {} /\ Holders' = {t}
    BY <1>1, <1>2, WordValues DEF IInv, LockWordIsLock, Holders, Initialising
  <1>4. TypeOK'
    BY <1>1 DEF IInv, TypeOK
  <1>5. LockWordIsLock'
    BY <1>1, <1>3 DEF LockWordIsLock
  <1>6. InitWordMatchesObject'
    BY <1>1, <1>2 DEF IInv, InitWordMatchesObject
  <1>7. PlaceInv'
    BY <1>1, <1>2 DEF IInv, PlaceInv, OwnerPcs, UserPcs
  <1> QED BY <1>4, <1>5, <1>6, <1>7 DEF IInv

\* A thread that holds lock_word is the only one.
LEMMA HolderIsAlone ==
    ASSUME IInv, NEW t \in Threads, pc[t] \in HolderPcs
    PROVE  /\ Holders = {t} /\ lock_word = locked
           /\ \A u \in Threads : u # t => pc[u] \notin HolderPcs
  BY HoldersByPc DEF IInv, LockWordIsLock

\* The lock holder moves on and keeps the lock: Recheck, the constructor and
\* the store to init_word.
LEMMA HolderPreserves ==
    ASSUME IInv, NEW t \in Threads, Recheck(t) \/ Constructor(t) \/ StoreInit(t)
    PROVE  IInv'
  <1>1. PICK p \in HolderPcs \ {"recheck"} :
          /\ pc[t] \in HolderPcs /\ pc' = [pc EXCEPT ![t] = p]
          /\ lock_word' = lock_word
          /\ object' \in {"raw", "partial", "built"} /\ throws' \in 0..MaxThrows
          /\ init_word' \in {{}, initialised}
    BY GuardAssumption
    DEF IInv, TypeOK, Recheck, Constructor, StoreInit, StartConstructor, ConstructorReturns,
        ConstructorThrows, Goto, words, HolderPcs, OwnerPcs
  <1>2. \A u \in Threads : pc'[u] = IF u = t THEN p ELSE pc[u]
    BY <1>1 DEF IInv, TypeOK
  <1>3. /\ Holders = {t} /\ lock_word = locked
        /\ \A u \in Threads : u # t => pc[u] \notin HolderPcs
    BY <1>1, HolderIsAlone
  <1>4. Holders' = {t}
    BY <1>1, <1>2, <1>3 DEF Holders, Initialising, HolderPcs, OwnerPcs
  <1>5. TypeOK'
    BY <1>1 DEF IInv, TypeOK, HolderPcs, OwnerPcs
  <1>6. LockWordIsLock'
    BY <1>1, <1>3, <1>4 DEF LockWordIsLock
  <1>7. CASE Recheck(t)
    <2>1. /\ UNCHANGED <<object, init_word>> /\ pc[t] = "recheck"
          /\ p = (IF init_word = initialised THEN "undo" ELSE "locked")
      BY <1>2, <1>7, TestsAgree DEF IInv, TypeOK, Recheck, Goto, words
    <2>2. init_word = {} => object # "built"
      BY <1>3, <2>1, WordValues DEF IInv, InitWordMatchesObject, HolderPcs, OwnerPcs
    <2>3. InitWordMatchesObject'
      BY <1>2, <2>1 DEF IInv, InitWordMatchesObject
    <2>4. PlaceInv'
      BY <1>2, <2>1, <2>2 DEF IInv, TypeOK, PlaceInv, OwnerPcs, UserPcs
    <2> QED BY <1>5, <1>6, <2>3, <2>4 DEF IInv
  <1>8. CASE Constructor(t)
    <2>1. /\ UNCHANGED init_word /\ pc[t] \in {"locked", "construct"}
          /\ p \in {"construct", "release", "abort"}
          /\ p = "release" <=> object' = "built"
      BY <1>2, <1>8 DEF IInv, TypeOK, Constructor, StartConstructor, ConstructorReturns,
                        ConstructorThrows, Goto, words
    <2>2. init_word = {}
      BY <2>1 DEF IInv, PlaceInv, OwnerPcs
    <2>3. InitWordMatchesObject'
      BY <1>2, <2>1, <2>2, WordValues DEF InitWordMatchesObject
    <2>4. PlaceInv'
      BY <1>2, <1>3, <2>1, <2>2, WordValues DEF IInv, PlaceInv, OwnerPcs, UserPcs, HolderPcs
    <2> QED BY <1>5, <1>6, <2>3, <2>4 DEF IInv
  <1>9. CASE StoreInit(t)
    <2>1. /\ UNCHANGED object
          /\ \/ pc[t] = "release" /\ p = "releaseUnlock" /\ init_word' = initialised
             \/ pc[t] = "abort" /\ p = "abortUnlock" /\ init_word' = {}
      BY <1>2, <1>9 DEF IInv, TypeOK, StoreInit, Goto
    <2>2. object = "built" <=> pc[t] = "release"
      BY <2>1 DEF IInv, PlaceInv, OwnerPcs
    <2>3. InitWordMatchesObject'
      BY <1>2, <2>1, <2>2, WordValues DEF IInv, InitWordMatchesObject
    <2>4. init_word = {}
      BY <2>1 DEF IInv, PlaceInv, OwnerPcs
    <2>5. PlaceInv'
      BY <1>2, <1>3, <2>1, <2>2, <2>4, WordValues DEF IInv, PlaceInv, OwnerPcs, UserPcs, HolderPcs
    <2> QED BY <1>5, <1>6, <2>3, <2>5 DEF IInv
  <1> QED BY <1>7, <1>8, <1>9

\* The lock holder stores 0 in lock_word: Undo and the second store of unlock.
LEMMA ReleasePreserves ==
    ASSUME IInv, NEW t \in Threads, Undo(t) \/ StoreLock(t)
    PROVE  IInv'
  <1>1. PICK p \in {"use", "idle", "releaseAssert", "abortAssert"} :
          /\ \/ pc[t] \in {"undo", "releaseUnlock"} /\ p \in {"use", "releaseAssert"}
             \/ pc[t] = "abortUnlock" /\ p \in {"idle", "abortAssert"}
          /\ pc' = [pc EXCEPT ![t] = p]
          /\ lock_word' = {} /\ UNCHANGED <<object, throws, init_word>>
    BY DEF Undo, StoreLock, Goto
  <1>2. \A u \in Threads : pc'[u] = IF u = t THEN p ELSE pc[u]
    BY <1>1 DEF IInv, TypeOK
  <1>3. \A u \in Threads : u # t => pc[u] \notin HolderPcs
    BY <1>1, HolderIsAlone DEF HolderPcs, OwnerPcs
  <1>4. Holders' = {}
    BY <1>1, <1>2, <1>3 DEF Holders, Initialising, HolderPcs, OwnerPcs
  <1>5. TypeOK'
    BY <1>1 DEF IInv, TypeOK
  <1>6. LockWordIsLock'
    BY <1>1, <1>4, WordValues DEF LockWordIsLock
  <1>7. InitWordMatchesObject'
    BY <1>1, <1>2 DEF IInv, InitWordMatchesObject
  <1>8. PlaceInv'
    BY <1>1, <1>2 DEF IInv, PlaceInv, OwnerPcs, UserPcs
  <1> QED BY <1>5, <1>6, <1>7, <1>8 DEF IInv

LEMMA NextPreserves == IInv /\ [Next]_vars => IInv'
  <1> SUFFICES ASSUME IInv, [Next]_vars PROVE IInv'
    OBVIOUS
  <1>1. CASE UNCHANGED vars
    BY <1>1 DEF vars, IInv, TypeOK, LockWordIsLock, InitWordMatchesObject, PlaceInv, Holders,
                Initialising
  <1>2. ASSUME NEW t \in Threads,
               \/ FastCheck(t) \/ AcquireStep(t) \/ Constructor(t) \/ Unlock(t)
               \/ (ReturnFromFunction(t) /\ UNCHANGED words)
        PROVE  IInv'
    BY <1>2, OutsidePreserves, TryLockPreserves, HolderPreserves, ReleasePreserves
    DEF AcquireStep, Unlock
  <1> QED BY <1>1, <1>2 DEF Next

\* The two words and the threads' places satisfy the invariant for ever.
THEOREM InvariantHolds == Spec => []IInv
  BY InitHolds, NextPreserves, PTL DEF Spec

\* lock_word is held by at most one thread, inside try_lock or unlock.
THEOREM LockWordIsALock == Spec => []LockWordIsLock
  BY InvariantHolds, PTL DEF IInv

\* The constructor runs in one thread at a time and never after it returned:
\* the recheck in try_lock closes the window between the two words.
THEOREM ConstructorIsExclusive == Spec => []ConstructorExclusive
  <1>1. IInv => ConstructorExclusive
    BY DEF IInv, LockWordIsLock, Holders, Initialising, PlaceInv, OwnerPcs, ConstructorExclusive
  <1> QED BY <1>1, InvariantHolds, PTL

\* Whoever the guard lets past sees the completely constructed variable.
THEOREM UsersAreSafe == Spec => []UsersSeeBuiltObject
  <1>1. IInv => UsersSeeBuiltObject
    BY DEF IInv, InitWordMatchesObject, PlaceInv, UserPcs, UsersSeeBuiltObject
  <1> QED BY <1>1, InvariantHolds, PTL

\* unlock(true) finds the first byte set although it has given the lock back:
\* whoever wins the lock meanwhile reads init_word again and leaves it alone.
THEOREM ReleaseAssertionCannotFail == Spec => []ReleaseAssertionHolds
  <1>1. IInv => ReleaseAssertionHolds
    <2> SUFFICES ASSUME IInv, NEW t \in Threads, pc[t] = "releaseAssert"
                 PROVE  firstByteSet
      BY DEF ReleaseAssertionHolds
    <2>1. init_word = initialised
      BY DEF IInv, PlaceInv, UserPcs
    <2> QED BY <2>1, TestsAgree DEF IInv
  <1> QED BY <1>1, InvariantHolds, PTL

\* Only StoreInit in unlock changes init_word, with the lock held.
THEOREM InitWordIsGuarded == Spec => InitWordWrittenUnderLock
  <1>1. ASSUME IInv, [Next]_vars, init_word' # init_word
        PROVE  lock_word = locked /\ init_word' = initialised
    <2>1. PICK t \in Threads : StoreInit(t)
      BY <1>1
      DEF Next, vars, FastCheck, AcquireStep, AcquireCheck, TryLockWins, TryLockFails, Recheck,
          Undo, Yield, Constructor, Unlock, StoreLock, AssertByte, words
    <2>2. pc[t] \in HolderPcs /\ (init_word' = initialised \/ pc[t] = "abort")
      BY <2>1 DEF StoreInit, Goto, HolderPcs, OwnerPcs
    <2>3. pc[t] = "abort" => init_word = {} /\ init_word' = {}
      BY <1>1, <2>1 DEF IInv, PlaceInv, OwnerPcs, StoreInit, Goto
    <2> QED BY <1>1, <2>2, <2>3, HolderIsAlone
  <1>2. IInv /\ [Next]_vars
          => [init_word' # init_word => lock_word = locked /\ init_word' = initialised]_vars
    BY <1>1
  <1> QED BY <1>2, InvariantHolds, PTL DEF Spec, InitWordWrittenUnderLock
-----------------------------------------------------------------------------
Users == {t \in Threads : pc[t] \in {"releaseUnlock", "releaseAssert", "undo", "use"}}

\* Every step of DoubleWordGuard and of the code around it is a step of
\* OnceInit or leaves its variables alone.
LEMMA StepRefines ==
    ASSUME IInv, [Next]_vars PROVE [Once!Next]_(Once!abstractVars)
  <1>1. CASE UNCHANGED vars
    BY <1>1 DEF vars, Once!abstractVars, Initialising
  <1>2. ASSUME NEW t \in Threads,
               \/ FastCheck(t) \/ AcquireCheck(t) \/ TryLockWins(t) \/ TryLockFails(t)
               \/ Yield(t)
        PROVE  Once!Skip(t) \/ UNCHANGED Once!abstractVars
    <2>1. PICK p \in {"acquire", "try", "yield", "recheck", "use"} :
              /\ pc[t] \in {"idle", "acquire", "try", "yield"}
              /\ pc' = [pc EXCEPT ![t] = p]
              /\ p = "use" => init_word = initialised
              /\ init_word' = init_word
      BY <1>2, TestsAgree
      DEF IInv, FastCheck, AcquireCheck, TryLockWins, TryLockFails, Yield, Goto, words
    <2>2. Initialising' = Initialising /\ Users' = IF p = "use" THEN Users \cup {t} ELSE Users
      BY <2>1 DEF IInv, TypeOK, Initialising, Users
    <2> QED BY <2>1, <2>2 DEF Once!Skip, Once!abstractVars, Users
  <1>3. ASSUME NEW t \in Threads, Recheck(t) PROVE Once!Begin(t) \/ Once!Skip(t)
    <2>1. /\ pc[t] = "recheck" /\ init_word' = init_word
          /\ pc' = [pc EXCEPT ![t] = IF init_word = initialised THEN "undo" ELSE "locked"]
      BY <1>3, TestsAgree DEF IInv, Recheck, Goto, words
    <2>2. Initialising = {}
      BY <2>1, HolderIsAlone DEF HolderPcs, OwnerPcs, Initialising
    <2>3. CASE init_word = initialised
      <3>1. Initialising' = {} /\ Users' = Users \cup {t}
        BY <2>1, <2>2, <2>3 DEF IInv, TypeOK, Initialising, Users
      <3> QED BY <2>1, <2>2, <2>3, <3>1 DEF Once!Skip, Users
    <2>4. CASE init_word # initialised
      <3>1. Initialising' = {t} /\ Users' = Users
        BY <2>1, <2>2, <2>4 DEF IInv, TypeOK, Initialising, Users
      <3> QED BY <2>1, <2>2, <2>4, <3>1 DEF Once!Begin, Users
    <2> QED BY <2>3, <2>4
  <1>4. ASSUME NEW t \in Threads, Constructor(t) \/ Undo(t) \/ AssertByte(t)
        PROVE  Once!Leave(t) \/ UNCHANGED Once!abstractVars
    <2>1. PICK p \in {"construct", "release", "abort", "use", "idle", "aborted"} :
              /\ \/ pc[t] \in {"locked", "construct"} /\ p \in {"construct", "release", "abort"}
                 \/ pc[t] \in {"undo", "releaseAssert"} /\ p \in {"use", "aborted"}
                 \/ pc[t] = "abortAssert" /\ p \in {"idle", "aborted"}
              /\ pc' = [pc EXCEPT ![t] = p]
              /\ init_word' = init_word
      BY <1>4 DEF Constructor, StartConstructor, ConstructorReturns, ConstructorThrows, Undo,
                  AssertByte, Goto, words
    <2>2. Initialising' = Initialising
      BY <2>1 DEF IInv, TypeOK, Initialising
    <2>3. CASE t \in Users /\ p = "aborted"
      <3>1. Users' = Users \ {t}
        BY <2>1, <2>3 DEF IInv, TypeOK, Users
      <3> QED BY <2>1, <2>2, <2>3, <3>1 DEF Once!Leave, Users
    <2>4. CASE ~(t \in Users /\ p = "aborted")
      <3>1. Users' = Users
        BY <2>1, <2>4 DEF IInv, TypeOK, Users
      <3> QED BY <2>1, <2>2, <3>1 DEF Once!abstractVars, Users
    <2> QED BY <2>3, <2>4
  <1>5. ASSUME NEW t \in Threads, StoreInit(t)
        PROVE  Once!Finish(t) \/ UNCHANGED Once!abstractVars
    <2>1. CASE pc[t] = "release"
      <3>1. pc' = [pc EXCEPT ![t] = "releaseUnlock"] /\ init_word' = initialised
        BY <1>5, <2>1 DEF StoreInit, Goto
      <3>2. Initialising = {t}
        BY <2>1, HolderIsAlone DEF HolderPcs, OwnerPcs, Initialising
      <3>3. Initialising' = {} /\ Users' = Users \cup {t}
        BY <2>1, <3>1, <3>2 DEF IInv, TypeOK, Initialising, Users
      <3> QED BY <3>1, <3>2, <3>3 DEF Once!Finish, Users
    <2>2. CASE pc[t] = "abort"
      <3>1. pc' = [pc EXCEPT ![t] = "abortUnlock"] /\ init_word' = init_word
        BY <1>5, <2>2 DEF IInv, PlaceInv, OwnerPcs, StoreInit, Goto
      <3>2. Initialising' = Initialising /\ Users' = Users
        BY <2>2, <3>1 DEF IInv, TypeOK, Initialising, Users
      <3> QED BY <3>1, <3>2 DEF Once!abstractVars, Users
    <2> QED BY <1>5, <2>1, <2>2 DEF StoreInit, Goto
  <1>6. ASSUME NEW t \in Threads, StoreLock(t)
        PROVE  Once!Abort(t) \/ UNCHANGED Once!abstractVars
    <2>1. CASE pc[t] = "abortUnlock"
      <3>1. PICK p \in {"idle", "abortAssert"} :
               pc' = [pc EXCEPT ![t] = p] /\ init_word' = init_word
        BY <1>6, <2>1 DEF StoreLock, Goto
      <3>2. Initialising = {t}
        BY <2>1, HolderIsAlone DEF HolderPcs, OwnerPcs, Initialising
      <3>3. Initialising' = {} /\ Users' = Users
        BY <2>1, <3>1, <3>2 DEF IInv, TypeOK, Initialising, Users
      <3> QED BY <3>1, <3>2, <3>3 DEF Once!Abort, Users
    <2>2. CASE pc[t] = "releaseUnlock"
      <3>1. PICK p \in {"use", "releaseAssert"} :
               pc' = [pc EXCEPT ![t] = p] /\ init_word' = init_word
        BY <1>6, <2>2 DEF StoreLock, Goto
      <3>2. Initialising' = Initialising /\ Users' = Users
        BY <2>2, <3>1 DEF IInv, TypeOK, Initialising, Users
      <3> QED BY <3>1, <3>2 DEF Once!abstractVars, Users
    <2> QED BY <1>6, <2>1, <2>2 DEF StoreLock, Goto
  <1>7. ASSUME NEW t \in Threads, ReturnFromFunction(t) /\ UNCHANGED words PROVE Once!Leave(t)
    <2>1. pc[t] = "use" /\ pc' = [pc EXCEPT ![t] = "idle"] /\ init_word' = init_word
      BY <1>7 DEF ReturnFromFunction, Goto, words
    <2>2. t \in Users /\ Initialising' = Initialising /\ Users' = Users \ {t}
      BY <2>1 DEF IInv, TypeOK, Initialising, Users
    <2> QED BY <2>1, <2>2 DEF Once!Leave, Users
  <1> QED
    BY <1>1, <1>2, <1>3, <1>4, <1>5, <1>6, <1>7 DEF Next, AcquireStep, Unlock, Once!Next

\* DoubleWordGuard implements the abstract once-only initialisation.
THEOREM Refinement == Spec => ImplementsOnceInit
  <1>1. Init => Once!Init
    BY WordValues DEF Init, ClientInit, Once!Init, Initialising
  <1>2. IInv /\ [Next]_vars => [Once!Next]_(Once!abstractVars)
    BY StepRefines
  <1> QED BY <1>1, <1>2, InvariantHolds, PTL DEF Spec, ImplementsOnceInit, Once!Spec
=============================================================================
