-------------------------- MODULE GuardSingleProofs --------------------------
(***************************************************************************)
(* SingleWordGuard is correct for any number of threads, any of the bit    *)
(* layouts GuardAssumption allows, and any number of constructor failures. *)
(***************************************************************************)
EXTENDS GuardSingle, TLAPS

\* What each thread may rely on at each place of the code.
PlaceInv ==
    \A t \in Threads :
        /\ pc[t] = "use" => val = initialised
        /\ pc[t] = "release" => object = "built"
        /\ pc[t] \in {"locked", "construct", "abort"} => object # "built"

\* The inductive invariant. WordMatchesObject alone does not say that a user
\* arrived after the store of initialised, nor what the owner has built.
IInv == TypeOK /\ WordMatchesObject /\ PlaceInv /\ ConstructorExclusive

\* The states of the word are distinct, and only the initialised one makes
\* the inline test of the first byte succeed.
LEMMA WordValues ==
    /\ locked # {} /\ initialised # {} /\ locked # initialised
    /\ initialised \subseteq initialised
    /\ ~(initialised \subseteq {}) /\ ~(initialised \subseteq locked)
    /\ locked \cap FirstByte = {} /\ {} \cap FirstByte = {}
    /\ initialised \cap FirstByte # {}
  BY GuardAssumption DEF locked, initialised

\* In every state of the invariant both tests for "initialised" mean that
\* the word has the value initialised.
LEMMA TestsAgree ==
    ASSUME TypeOK
    PROVE  /\ is_initialised <=> val = initialised
           /\ val \cap FirstByte # {} <=> val = initialised
  BY WordValues DEF TypeOK, is_initialised

LEMMA InitHolds == Init => IInv
  BY GuardAssumption, WordValues
  DEF Init, ClientInit, IInv, TypeOK, WordMatchesObject, PlaceInv, ConstructorExclusive,
      Initialising

\* The steps that end in "use" without writing the word.
LEMMA SkipPreserves ==
    ASSUME IInv, NEW t \in Threads,
           \/ FastCheck(t) \/ AcquireCheck(t) \/ TryLockSeesDone(t)
           \/ TryLockFails(t) \/ Yield(t) \/ (ReturnFromFunction(t) /\ UNCHANGED val)
    PROVE  IInv'
  <1>1. /\ UNCHANGED <<object, throws, val>>
        /\ pc[t] \notin {"locked", "construct", "release", "abort", "abortUnlock"}
        /\ \E p \in {"idle", "acquire", "try", "yield", "use"} :
              /\ pc' = [pc EXCEPT ![t] = p]
              /\ p = "use" => val = initialised
    BY TestsAgree
    DEF IInv, FastCheck, AcquireCheck, TryLockSeesDone, TryLockFails, Yield,
        ReturnFromFunction, Goto
  <1>2. PICK p \in {"idle", "acquire", "try", "yield", "use"} :
              /\ pc' = [pc EXCEPT ![t] = p]
              /\ p = "use" => val = initialised
    BY <1>1
  <1>3. Initialising' = Initialising
    BY <1>1, <1>2 DEF IInv, TypeOK, Initialising
  <1>4. \A u \in Threads : u # t => pc'[u] = pc[u]
    BY <1>2 DEF IInv, TypeOK
  <1>5. pc'[t] = p
    BY <1>2 DEF IInv, TypeOK
  <1>6. TypeOK'
    BY <1>1, <1>2 DEF IInv, TypeOK
  <1>7. WordMatchesObject'
    BY <1>1, <1>3, <1>4, <1>5 DEF IInv, WordMatchesObject
  <1>8. PlaceInv'
    BY <1>1, <1>2, <1>4, <1>5 DEF IInv, PlaceInv
  <1>9. ConstructorExclusive'
    BY <1>1, <1>2, <1>3, <1>4, <1>5 DEF IInv, ConstructorExclusive
  <1> QED BY <1>6, <1>7, <1>8, <1>9 DEF IInv

LEMMA TryLockPreserves ==
    ASSUME IInv, NEW t \in Threads, TryLockWins(t)
    PROVE  IInv'
  <1>1. /\ UNCHANGED <<object, throws>> /\ val = {} /\ val' = locked
        /\ pc[t] = "try" /\ pc' = [pc EXCEPT ![t] = "locked"]
    BY DEF TryLockWins, Goto
  <1>2. Initialising = {} /\ object # "built"
    BY <1>1, WordValues DEF IInv, WordMatchesObject, Initialising
  <1>3. Initialising' = {t}
    BY <1>1, <1>2 DEF IInv, TypeOK, Initialising
  <1>4. \A u \in Threads : pc'[u] = IF u = t THEN "locked" ELSE pc[u]
    BY <1>1 DEF IInv, TypeOK
  <1>5. TypeOK'
    BY <1>1 DEF IInv, TypeOK
  <1>6. WordMatchesObject'
    BY <1>1, <1>2, <1>3, WordValues DEF WordMatchesObject
  <1>7. PlaceInv'
    BY <1>1, <1>2, <1>4, WordValues DEF IInv, PlaceInv
  <1>8. ConstructorExclusive'
    BY <1>1, <1>2, <1>3 DEF ConstructorExclusive
  <1> QED BY <1>5, <1>6, <1>7, <1>8 DEF IInv

\* The owner's steps: the invariant says there is no other owner.
LEMMA ConstructorPreserves ==
    ASSUME IInv, NEW t \in Threads, Constructor(t)
    PROVE  IInv'
  <1>1. PICK p \in {"construct", "release", "abort"} :
        /\ pc[t] \in {"locked", "construct"}
        /\ pc' = [pc EXCEPT ![t] = p]
        /\ p = "release" <=> object' = "built"
        /\ object' \in {"raw", "partial", "built"}
        /\ throws' \in 0..MaxThrows
        /\ val' = val
    BY GuardAssumption
    DEF IInv, TypeOK, Constructor, StartConstructor, ConstructorReturns, ConstructorThrows, Goto
  <1>2. Initialising = {t} /\ val = locked
    BY <1>1 DEF IInv, WordMatchesObject, ConstructorExclusive, Initialising
  <1>3. Initialising' = {t}
    BY <1>1, <1>2 DEF IInv, TypeOK, Initialising
  <1>4. \A u \in Threads : pc'[u] = IF u = t THEN p ELSE pc[u]
    BY <1>1 DEF IInv, TypeOK
  <1>5. TypeOK'
    BY <1>1 DEF IInv, TypeOK
  <1>6. WordMatchesObject'
    BY <1>1, <1>2, <1>3, <1>4, WordValues DEF WordMatchesObject
  <1>7. \A u \in Threads : u # t => pc[u] \notin {"locked", "construct", "release", "abort", "abortUnlock"}
    BY <1>2 DEF Initialising
  <1>8. PlaceInv'
    BY <1>1, <1>2, <1>4, <1>7, WordValues DEF IInv, PlaceInv
  <1>9. ConstructorExclusive'
    BY <1>1, <1>3, <1>4, <1>7 DEF ConstructorExclusive
  <1> QED BY <1>5, <1>6, <1>8, <1>9 DEF IInv

LEMMA UnlockPreserves ==
    ASSUME IInv, NEW t \in Threads, Release(t) \/ Abort(t)
    PROVE  IInv'
  <1>1. PICK p \in {"use", "idle"} :
        /\ pc[t] = (IF p = "use" THEN "release" ELSE "abort")
        /\ pc' = [pc EXCEPT ![t] = p]
        /\ val' = (IF p = "use" THEN initialised ELSE {})
        /\ UNCHANGED <<object, throws>>
    BY DEF Release, Abort, Goto
  <1>2. Initialising = {t} /\ val = locked /\ (object = "built" <=> p = "use")
    BY <1>1 DEF IInv, WordMatchesObject, ConstructorExclusive, PlaceInv, Initialising
  <1>3. Initialising' = {}
    BY <1>1, <1>2 DEF IInv, TypeOK, Initialising
  <1>4. \A u \in Threads : pc'[u] = IF u = t THEN p ELSE pc[u]
    BY <1>1 DEF IInv, TypeOK
  <1>5. TypeOK'
    BY <1>1 DEF IInv, TypeOK
  <1>6. WordMatchesObject'
    BY <1>1, <1>2, <1>3, WordValues DEF WordMatchesObject
  <1>7. \A u \in Threads : u # t => pc[u] \notin {"locked", "construct", "release", "abort", "abortUnlock"}
    BY <1>2 DEF Initialising
  <1>8. PlaceInv'
    BY <1>1, <1>2, <1>4, <1>7, WordValues DEF IInv, PlaceInv
  <1>9. ConstructorExclusive'
    BY <1>1, <1>3, <1>4, <1>7 DEF ConstructorExclusive
  <1> QED BY <1>5, <1>6, <1>8, <1>9 DEF IInv

LEMMA NextPreserves == IInv /\ [Next]_vars => IInv'
  <1> SUFFICES ASSUME IInv, [Next]_vars PROVE IInv'
    OBVIOUS
  <1>1. CASE UNCHANGED vars
    BY <1>1 DEF vars, IInv, TypeOK, WordMatchesObject, PlaceInv, ConstructorExclusive, Initialising
  <1>2. ASSUME NEW t \in Threads,
               \/ FastCheck(t) \/ AcquireStep(t) \/ Constructor(t)
               \/ Release(t) \/ Abort(t) \/ (ReturnFromFunction(t) /\ UNCHANGED val)
        PROVE  IInv'
    BY <1>2, SkipPreserves, TryLockPreserves, ConstructorPreserves, UnlockPreserves DEF AcquireStep
  <1> QED BY <1>1, <1>2 DEF Next

\* The guard word and the threads' places satisfy the invariant for ever.
THEOREM InvariantHolds == Spec => []IInv
  BY InitHolds, NextPreserves, PTL DEF Spec

\* try_lock and unlock keep the constructor in one thread at a time, and
\* nobody starts it again once it has returned.
THEOREM ConstructorIsExclusive == Spec => []ConstructorExclusive
  BY InvariantHolds, PTL DEF IInv

\* Whoever the guard lets past sees the completely constructed variable.
THEOREM UsersAreSafe == Spec => []UsersSeeBuiltObject
  <1>1. IInv => UsersSeeBuiltObject
    BY DEF IInv, WordMatchesObject, PlaceInv, UsersSeeBuiltObject
  <1> QED BY <1>1, InvariantHolds, PTL

\* Every step of SingleWordGuard and of the code around it is a step of
\* OnceInit or leaves its variables alone.
LEMMA StepRefines ==
    ASSUME IInv, [Next]_vars PROVE [Once!Next]_(Once!abstractVars)
  <1> DEFINE Users == {t \in Threads : pc[t] = "use"}
  <1>1. CASE UNCHANGED vars
    BY <1>1 DEF vars, Once!abstractVars, Initialising
  <1>2. ASSUME NEW t \in Threads,
               \/ FastCheck(t) \/ AcquireCheck(t) \/ TryLockSeesDone(t)
               \/ TryLockFails(t) \/ Yield(t)
        PROVE  Once!Skip(t) \/ UNCHANGED Once!abstractVars
    <2>1. PICK p \in {"acquire", "try", "yield", "use"} :
              /\ pc[t] \in {"idle", "acquire", "try", "yield"}
              /\ pc' = [pc EXCEPT ![t] = p]
              /\ p = "use" => val = initialised
              /\ val' = val
      BY <1>2, TestsAgree
      DEF IInv, FastCheck, AcquireCheck, TryLockSeesDone, TryLockFails, Yield, Goto
    <2>2. Initialising' = Initialising
      BY <2>1 DEF IInv, TypeOK, Initialising
    <2>3. Users' = IF p = "use" THEN Users \cup {t} ELSE Users
      BY <2>1 DEF IInv, TypeOK
    <2> QED BY <2>1, <2>2, <2>3 DEF Once!Skip, Once!abstractVars
  <1>3. ASSUME NEW t \in Threads, TryLockWins(t) PROVE Once!Begin(t)
    <2>1. pc[t] = "try" /\ pc' = [pc EXCEPT ![t] = "locked"] /\ val = {} /\ val' = locked
      BY <1>3 DEF TryLockWins, Goto
    <2>2. Initialising = {} /\ Initialising' = {t}
      BY <2>1, WordValues DEF IInv, TypeOK, WordMatchesObject, Initialising
    <2>3. Users' = Users
      BY <2>1 DEF IInv, TypeOK
    <2> QED BY <2>1, <2>2, <2>3, WordValues DEF Once!Begin
  <1>4. ASSUME NEW t \in Threads, Constructor(t) PROVE UNCHANGED Once!abstractVars
    <2>1. PICK p \in {"construct", "release", "abort"} :
              /\ pc[t] \in {"locked", "construct"}
              /\ pc' = [pc EXCEPT ![t] = p]
              /\ val' = val
      BY <1>4 DEF Constructor, StartConstructor, ConstructorReturns, ConstructorThrows, Goto
    <2>2. Initialising' = Initialising /\ Users' = Users
      BY <2>1 DEF IInv, TypeOK, Initialising
    <2> QED BY <2>1, <2>2 DEF Once!abstractVars
  <1>5. ASSUME NEW t \in Threads, Release(t) PROVE Once!Finish(t)
    <2>1. pc[t] = "release" /\ pc' = [pc EXCEPT ![t] = "use"] /\ val' = initialised
      BY <1>5 DEF Release, Goto
    <2>2. Initialising = {t} /\ Initialising' = {} /\ Users' = Users \cup {t}
      BY <2>1 DEF IInv, TypeOK, ConstructorExclusive, Initialising
    <2> QED BY <2>1, <2>2 DEF Once!Finish
  <1>6. ASSUME NEW t \in Threads, Abort(t) PROVE Once!Abort(t)
    <2>1. pc[t] = "abort" /\ pc' = [pc EXCEPT ![t] = "idle"] /\ val' = {}
      BY <1>6 DEF Abort, Goto
    <2>2. Initialising = {t} /\ Initialising' = {} /\ Users' = Users
      BY <2>1 DEF IInv, TypeOK, ConstructorExclusive, Initialising
    <2>3. val = locked
      BY <2>2 DEF IInv, WordMatchesObject
    <2> QED BY <2>1, <2>2, <2>3, WordValues DEF Once!Abort
  <1>7. ASSUME NEW t \in Threads, ReturnFromFunction(t) /\ UNCHANGED val PROVE Once!Leave(t)
    <2>1. pc[t] = "use" /\ pc' = [pc EXCEPT ![t] = "idle"] /\ val' = val
      BY <1>7 DEF ReturnFromFunction, Goto
    <2>2. t \in Users /\ Initialising' = Initialising /\ Users' = Users \ {t}
      BY <2>1 DEF IInv, TypeOK, Initialising
    <2> QED BY <2>1, <2>2 DEF Once!Leave
  <1> QED
    BY <1>1, <1>2, <1>3, <1>4, <1>5, <1>6, <1>7 DEF Next, AcquireStep, Once!Next

\* SingleWordGuard implements the abstract once-only initialisation.
THEOREM Refinement == Spec => ImplementsOnceInit
  <1>1. Init => Once!Init
    BY WordValues DEF Init, ClientInit, Once!Init, Initialising
  <1>2. IInv /\ [Next]_vars => [Once!Next]_(Once!abstractVars)
    BY StepRefines
  <1> QED BY <1>1, <1>2, InvariantHolds, PTL DEF Spec, ImplementsOnceInit, Once!Spec
=============================================================================
