------------------------- MODULE EmergencyPoolProofs -------------------------
(***************************************************************************)
(* The emergency pool is correct for any number of threads, of buffers and *)
(* of buffers allowed per thread.                                          *)
(***************************************************************************)
EXTENDS EmergencyPool, FiniteSetTheorems, TLAPS

LockPcs == {"search", "free"}
AllocPcs == {"lock", "search", "waiting", "woken"}

\* The owner of the mutex is the one thread in a critical section.
LockOwner == \A t \in Threads : pc[t] \in LockPcs <=> lock = t

\* A thread has a buffer to give back exactly while it does so, and has
\* cleared it already.
FreeingPlace ==
    \A t \in Threads : /\ pc[t] \in {"freeLock", "free"} <=> freeing[t] \in Buffers
                       /\ freeing[t] \in Buffers => clean[freeing[t]]

\* The count has room for the buffer that the thread is about to get.
RoomToCount ==
    \A t \in Threads : /\ pc[t] \in AllocPcs => info[t] /\ emergencyBuffersHeld[t] < MaxHeld
                       /\ ~info[t] => emergencyBuffersHeld[t] = 0

\* The allocator is known for the allocated buffers, and no thread has
\* allocated more of them than it has counted.
CountCovers ==
    /\ \A b \in Buffers : buffer_allocated[b] <=> allocator[b] # NoThread
    /\ \A t \in Threads : Cardinality(Allocated(t)) <= emergencyBuffersHeld[t]

FreeBuffers == {b \in Buffers : ~buffer_allocated[b]}
Seekers == {t \in Threads : pc[t] \in {"lock", "search", "woken"}}

\* While somebody sleeps, there are no more free buffers than threads on
\* their way to take one.
WakeupsSuffice ==
    ~recovered /\ Waiting # {} => Cardinality(FreeBuffers) <= Cardinality(Seekers)

IInv == /\ TypeOK /\ LockOwner /\ FreeingPlace /\ BuffersExclusive /\ FreeBuffersAreZero
        /\ RoomToCount /\ CountCovers /\ WakeupsSuffice
-----------------------------------------------------------------------------
LEMMA BuffersFinite == IsFiniteSet(Buffers) /\ Cardinality(Buffers) = NumBuffers
  <1>1. NumBuffers \in Nat /\ 1 \in Int /\ NumBuffers \in Int
    BY PoolAssumption
  <1>2. IsFiniteSet(1 .. NumBuffers)
        /\ Cardinality(1 .. NumBuffers) = IF 1 > NumBuffers THEN 0 ELSE NumBuffers - 1 + 1
    BY <1>1, FS_Interval
  <1> QED BY <1>1, <1>2 DEF Buffers

LEMMA SubsetCounts ==
    ASSUME NEW T, IsFiniteSet(T), NEW S \in SUBSET T
    PROVE  IsFiniteSet(S) /\ Cardinality(S) \in Nat /\ Cardinality(S) <= Cardinality(T)
  BY FS_Subset, FS_CardinalityType

LEMMA Counts ==
    /\ IsFiniteSet(FreeBuffers) /\ Cardinality(FreeBuffers) \in Nat
    /\ IsFiniteSet(Seekers) /\ Cardinality(Seekers) \in Nat
    /\ \A t \in Threads : IsFiniteSet(Allocated(t)) /\ Cardinality(Allocated(t)) \in Nat
  <1>1. FreeBuffers \in SUBSET Buffers /\ Seekers \in SUBSET Threads
        /\ \A t \in Threads : Allocated(t) \in SUBSET Buffers
    BY DEF FreeBuffers, Seekers, Allocated
  <1> QED BY <1>1, SubsetCounts, BuffersFinite, PoolAssumption

LEMMA InitHolds == Init => IInv
  <1> SUFFICES ASSUME Init PROVE IInv
    OBVIOUS
  <1>1. \A t \in Threads : Allocated(t) = {}
    BY PoolAssumption DEF Init, Allocated
  <1>2. Waiting = {}
    BY DEF Init, Waiting
  <1>3. TypeOK
    <2>1. 0 \in 0 .. MaxHeld
      BY PoolAssumption
    <2> QED BY <2>1 DEF Init, TypeOK
  <1>4. LockOwner /\ FreeingPlace /\ BuffersExclusive /\ FreeBuffersAreZero
    BY PoolAssumption
    DEF Init, LockOwner, FreeingPlace, BuffersExclusive, FreeBuffersAreZero, LockPcs, Buffers,
        NoBuffer
  <1>5. RoomToCount
    BY DEF Init, RoomToCount, AllocPcs
  <1>6. CountCovers
    BY <1>1, FS_EmptySet DEF Init, CountCovers
  <1> QED BY <1>2, <1>3, <1>4, <1>5, <1>6 DEF IInv, WakeupsSuffice

\* The steps that only move the thread, outside the critical sections.
LEMMA MovePreserves ==
    ASSUME IInv, NEW t \in Threads,
           \/ \E large \in BOOLEAN : AllocOrDie(t, large)
           \/ CheckLimit(t)
           \/ \E ok \in BOOLEAN : CreateInfo(t, ok)
           \/ SpuriousWakeup(t)
    PROVE  IInv'
  <1>1. PICK q \in {"tooLarge", "info", "overLimit", "lock", "nullInfo", "woken"} :
          /\ pc[t] \in {"idle", "info", "waiting"}
          /\ pc' = [pc EXCEPT ![t] = q]
          /\ pc[t] = "waiting" => q = "woken"
          /\ q \in AllocPcs => info'[t] /\ emergencyBuffersHeld[t] < MaxHeld
          /\ info' \in [Threads -> BOOLEAN]
          /\ \A u \in Threads : info[u] => info'[u]
          /\ UNCHANGED <<emergencyBuffersHeld, lock, freeing, buffer_allocated, clean, inUse,
                         allocator, recovered>>
    <2>1. \A u \in Threads : emergencyBuffersHeld[u] \in Nat /\ MaxHeld \in Nat /\ MaxHeld > 0
      BY PoolAssumption DEF IInv, TypeOK
    <2>2. CASE \E large \in BOOLEAN : AllocOrDie(t, large)
      BY <2>2 DEF AllocOrDie, Goto, poolVars, IInv, TypeOK, AllocPcs
    <2>3. CASE CheckLimit(t)
      <3>1. CASE emergencyBuffersHeld[t] > MaxHeld - 1
        BY <2>3, <3>1 DEF CheckLimit, Goto, poolVars, IInv, TypeOK, AllocPcs
      <3>2. CASE ~(emergencyBuffersHeld[t] > MaxHeld - 1)
        <4>1. emergencyBuffersHeld[t] < MaxHeld
          BY <2>1, <3>2
        <4> QED BY <2>3, <3>2, <4>1 DEF CheckLimit, Goto, poolVars, IInv, TypeOK
      <3> QED BY <3>1, <3>2
    <2>4. CASE \E ok \in BOOLEAN : CreateInfo(t, ok)
      BY <2>1, <2>4 DEF CreateInfo, Goto, poolVars, IInv, TypeOK, AllocPcs, RoomToCount
    <2>5. CASE SpuriousWakeup(t)
      BY <2>5 DEF SpuriousWakeup, Goto, poolVars, IInv, TypeOK, AllocPcs, RoomToCount
    <2> QED BY <2>2, <2>3, <2>4, <2>5
  <1>2. \A u \in Threads : pc'[u] = IF u = t THEN q ELSE pc[u]
    BY <1>1 DEF IInv, TypeOK
  <1>3. TypeOK'
    BY <1>1 DEF IInv, TypeOK, Dead
  <1>4. LockOwner' /\ FreeingPlace'
    BY <1>1, <1>2 DEF IInv, LockOwner, FreeingPlace, LockPcs
  <1>5. BuffersExclusive' /\ FreeBuffersAreZero'
    BY <1>1 DEF IInv, BuffersExclusive, FreeBuffersAreZero
  <1>6. RoomToCount'
    BY <1>1, <1>2 DEF IInv, RoomToCount, AllocPcs
  <1>7. CountCovers'
    BY <1>1 DEF IInv, CountCovers, Allocated
  <1>8. WakeupsSuffice'
    <2>1. Seekers \in SUBSET Seekers' /\ (Waiting' # {} => Waiting # {})
      BY <1>1, <1>2 DEF Seekers, Waiting
    <2>2. IsFiniteSet(Seekers') /\ Cardinality(Seekers') \in Nat
      BY SubsetCounts, PoolAssumption DEF Seekers
    <2>3. Cardinality(Seekers) <= Cardinality(Seekers')
      BY <2>1, <2>2, SubsetCounts
    <2>4. FreeBuffers' = FreeBuffers
      BY <1>1 DEF FreeBuffers
    <2> QED BY <1>1, <2>1, <2>2, <2>3, <2>4, Counts DEF IInv, WakeupsSuffice
  <1> QED BY <1>3, <1>4, <1>5, <1>6, <1>7, <1>8 DEF IInv

LEMMA MutexLockPreserves ==
    ASSUME IInv, NEW t \in Threads, MutexLock(t)
    PROVE  IInv'
  <1>1. PICK q \in LockPcs :
          /\ pc[t] \in {"lock", "woken", "freeLock"}
          /\ q = "free" <=> pc[t] = "freeLock"
          /\ pc' = [pc EXCEPT ![t] = q]
          /\ lock = NoThread /\ lock' = t
          /\ UNCHANGED <<info, emergencyBuffersHeld, freeing, buffer_allocated, clean, inUse,
                         allocator, recovered>>
    BY DEF MutexLock, Goto, poolVars, LockPcs
  <1>2. \A u \in Threads : pc'[u] = IF u = t THEN q ELSE pc[u]
    BY <1>1 DEF IInv, TypeOK
  <1>3. TypeOK'
    BY <1>1 DEF IInv, TypeOK, LockPcs
  <1>4. LockOwner' /\ FreeingPlace'
    BY <1>1, <1>2, PoolAssumption DEF IInv, LockOwner, FreeingPlace, LockPcs
  <1>5. BuffersExclusive' /\ FreeBuffersAreZero'
    BY <1>1 DEF IInv, BuffersExclusive, FreeBuffersAreZero
  <1>6. RoomToCount'
    BY <1>1, <1>2 DEF IInv, RoomToCount, AllocPcs, LockPcs
  <1>7. CountCovers'
    BY <1>1 DEF IInv, CountCovers, Allocated
  <1>8. WakeupsSuffice'
    <2>1. Seekers' = Seekers /\ Waiting' = Waiting /\ FreeBuffers' = FreeBuffers
      BY <1>1, <1>2 DEF Seekers, Waiting, FreeBuffers, LockPcs
    <2> QED BY <1>1, <2>1 DEF IInv, WakeupsSuffice
  <1> QED BY <1>3, <1>4, <1>5, <1>6, <1>7, <1>8 DEF IInv

\* The loop ends without a buffer: with memory from calloc, or asleep.
LEMMA NoBufferPreserves ==
    ASSUME IInv, NEW t \in Threads, SearchCalloc(t) \/ SearchWaits(t)
    PROVE  IInv'
  <1>1. PICK q \in {"idle", "waiting"} :
          /\ pc[t] = "search" /\ lock' = NoThread
          /\ pc' = [pc EXCEPT ![t] = q]
          /\ recovered' \in BOOLEAN
          /\ recovered' \/ \A b \in Buffers : buffer_allocated[b]
          /\ UNCHANGED <<info, emergencyBuffersHeld, freeing, buffer_allocated, clean, inUse,
                         allocator>>
    BY DEF SearchCalloc, SearchWaits, Goto, poolVars, IInv, TypeOK
  <1>2. \A u \in Threads : pc'[u] = IF u = t THEN q ELSE pc[u]
    BY <1>1 DEF IInv, TypeOK
  <1>3. TypeOK'
    BY <1>1 DEF IInv, TypeOK
  <1>4. LockOwner' /\ FreeingPlace'
    BY <1>1, <1>2, PoolAssumption DEF IInv, LockOwner, FreeingPlace, LockPcs
  <1>5. BuffersExclusive' /\ FreeBuffersAreZero'
    BY <1>1 DEF IInv, BuffersExclusive, FreeBuffersAreZero
  <1>6. RoomToCount'
    BY <1>1, <1>2 DEF IInv, RoomToCount, AllocPcs
  <1>7. CountCovers'
    BY <1>1 DEF IInv, CountCovers, Allocated
  <1>8. WakeupsSuffice'
    <2>1. CASE recovered'
      BY <2>1 DEF WakeupsSuffice
    <2>2. CASE ~recovered'
      <3>1. FreeBuffers' = {}
        BY <1>1, <2>2 DEF FreeBuffers
      <3>2. Cardinality(Seekers') \in Nat
        BY SubsetCounts, PoolAssumption DEF Seekers
      <3> QED BY <3>1, <3>2, FS_EmptySet DEF WakeupsSuffice
    <2> QED BY <2>1, <2>2
  <1> QED BY <1>3, <1>4, <1>5, <1>6, <1>7, <1>8 DEF IInv

LEMMA SearchTakesPreserves ==
    ASSUME IInv, NEW t \in Threads, NEW b \in Buffers, SearchTakes(t, b)
    PROVE  IInv'
  <1>1. /\ pc[t] = "search" /\ pc' = [pc EXCEPT ![t] = "idle"]
        /\ lock' = NoThread
        /\ ~buffer_allocated[b] /\ buffer_allocated' = [buffer_allocated EXCEPT ![b] = TRUE]
        /\ emergencyBuffersHeld' = [emergencyBuffersHeld EXCEPT ![t] = @ + 1]
        /\ allocator' = [allocator EXCEPT ![b] = t]
        /\ inUse' = inUse \cup {b}
        /\ clean' = [clean EXCEPT ![b] = FALSE]
        /\ UNCHANGED <<info, freeing, recovered>>
    BY DEF SearchTakes, FirstFree, Goto
  <1>2. \A u \in Threads : pc'[u] = IF u = t THEN "idle" ELSE pc[u]
    BY <1>1 DEF IInv, TypeOK
  <1>3. \A c \in Buffers : buffer_allocated'[c] = IF c = b THEN TRUE ELSE buffer_allocated[c]
    BY <1>1 DEF IInv, TypeOK
  <1>4. \A c \in Buffers : allocator'[c] = IF c = b THEN t ELSE allocator[c]
    BY <1>1 DEF IInv, TypeOK
  <1>5. \A u \in Threads : emergencyBuffersHeld'[u] =
            IF u = t THEN emergencyBuffersHeld[t] + 1 ELSE emergencyBuffersHeld[u]
    BY <1>1 DEF IInv, TypeOK
  <1>6. /\ emergencyBuffersHeld[t] < MaxHeld /\ MaxHeld \in Nat
        /\ \A u \in Threads : emergencyBuffersHeld[u] \in Nat
        /\ info[t] \/ emergencyBuffersHeld[t] = 0
    BY <1>1, PoolAssumption DEF IInv, TypeOK, RoomToCount, AllocPcs
  <1>7. TypeOK'
    <2>1. emergencyBuffersHeld[t] + 1 \in 0 .. MaxHeld
      BY <1>6
    <2> QED BY <1>1, <2>1 DEF IInv, TypeOK
  <1>8. LockOwner' /\ FreeingPlace'
    <2>1. LockOwner'
      BY <1>1, <1>2, PoolAssumption DEF IInv, LockOwner, LockPcs
    <2>2. \A u \in Threads : freeing[u] # b
      BY <1>1 DEF IInv, BuffersExclusive
    <2>3. \A c \in Buffers : c # b => clean'[c] = clean[c]
      BY <1>1 DEF IInv, TypeOK
    <2>4. FreeingPlace'
      BY <1>1, <1>2, <2>2, <2>3 DEF IInv, FreeingPlace
    <2> QED BY <2>1, <2>4
  <1>9. BuffersExclusive'
    BY <1>1, <1>3 DEF IInv, BuffersExclusive
  <1>10. FreeBuffersAreZero'
    BY <1>1, <1>3 DEF IInv, TypeOK, FreeBuffersAreZero
  <1>11. RoomToCount'
    <2>1. info[t]
      BY <1>1 DEF IInv, RoomToCount, AllocPcs
    <2> QED BY <1>1, <1>2, <1>5, <2>1 DEF IInv, RoomToCount, AllocPcs
  <1>12. CountCovers'
    <2>1. \A c \in Buffers : buffer_allocated'[c] <=> allocator'[c] # NoThread
      BY <1>3, <1>4, PoolAssumption DEF IInv, CountCovers
    <2>2. allocator[b] = NoThread
      BY <1>1 DEF IInv, CountCovers
    <2>3. \A u \in Threads :
            Allocated(u)' = IF u = t THEN Allocated(t) \cup {b} ELSE Allocated(u)
      BY <1>4, <2>2, PoolAssumption DEF Allocated
    <2>4. Cardinality(Allocated(t) \cup {b}) <= Cardinality(Allocated(t)) + 1
      <3>1. IsFiniteSet(Allocated(t)) /\ Cardinality(Allocated(t)) \in Nat
        BY Counts
      <3>2. Cardinality(Allocated(t) \cup {b}) =
               IF b \in Allocated(t) THEN Cardinality(Allocated(t))
               ELSE Cardinality(Allocated(t)) + 1
        BY <3>1, FS_AddElement
      <3> QED BY <3>1, <3>2
    <2>5. Cardinality(Allocated(t) \cup {b}) \in Nat
      BY FS_AddElement, FS_CardinalityType, Counts
    <2>6. \A u \in Threads : Cardinality(Allocated(u)') <= emergencyBuffersHeld'[u]
      BY <1>5, <1>6, <2>3, <2>4, <2>5, Counts DEF IInv, CountCovers
    <2> QED BY <2>1, <2>6 DEF CountCovers
  <1>13. WakeupsSuffice'
    <2>1. /\ Seekers' = Seekers \ {t} /\ t \in Seekers /\ Waiting' = Waiting
          /\ FreeBuffers' = FreeBuffers \ {b} /\ b \in FreeBuffers
      <3>1. Seekers' = Seekers \ {t} /\ t \in Seekers
        BY <1>1, <1>2 DEF Seekers
      <3>2. Waiting' = Waiting
        BY <1>1, <1>2 DEF Waiting
      <3>3. FreeBuffers' = FreeBuffers \ {b} /\ b \in FreeBuffers
        BY <1>1, <1>3 DEF FreeBuffers
      <3> QED BY <3>1, <3>2, <3>3
    <2>2. /\ Cardinality(Seekers') = Cardinality(Seekers) - 1
          /\ Cardinality(FreeBuffers') = Cardinality(FreeBuffers) - 1
      BY <2>1, FS_RemoveElement, Counts
    <2> QED BY <1>1, <2>1, <2>2, Counts DEF IInv, WakeupsSuffice
  <1> QED BY <1>7, <1>8, <1>9, <1>10, <1>11, <1>12, <1>13 DEF IInv

LEMMA FreeStartPreserves ==
    ASSUME IInv, NEW t \in Threads, NEW b \in Buffers, FreeStart(t, b)
    PROVE  IInv'
  <1>1. /\ pc[t] = "idle" /\ pc' = [pc EXCEPT ![t] = "freeLock"]
        /\ b \in inUse /\ inUse' = inUse \ {b}
        /\ freeing' = [freeing EXCEPT ![t] = b]
        /\ clean' = [clean EXCEPT ![b] = TRUE]
        /\ UNCHANGED <<info, emergencyBuffersHeld, lock, buffer_allocated, allocator, recovered>>
    BY DEF FreeStart, Goto
  <1>2. \A u \in Threads : pc'[u] = IF u = t THEN "freeLock" ELSE pc[u]
    BY <1>1 DEF IInv, TypeOK
  <1>3. \A u \in Threads : freeing'[u] = IF u = t THEN b ELSE freeing[u]
    BY <1>1 DEF IInv, TypeOK
  <1>4. TypeOK'
    BY <1>1 DEF IInv, TypeOK
  <1>5. LockOwner' /\ FreeingPlace'
    <2>1. LockOwner'
      BY <1>1, <1>2 DEF IInv, LockOwner, LockPcs
    <2>2. \A c \in Buffers : c = b \/ clean[c] => clean'[c]
      BY <1>1 DEF IInv, TypeOK
    <2>3. \A u \in Threads : pc'[u] \in {"freeLock", "free"} <=> freeing'[u] \in Buffers
      BY <1>1, <1>2, <1>3 DEF IInv, FreeingPlace
    <2>4. \A u \in Threads : freeing'[u] \in Buffers => clean'[freeing'[u]]
      BY <1>3, <2>2 DEF IInv, FreeingPlace
    <2> QED BY <2>1, <2>3, <2>4 DEF FreeingPlace
  <1>6. freeing[t] \notin Buffers /\ \A u \in Threads : freeing[u] # b
    BY <1>1 DEF IInv, FreeingPlace, BuffersExclusive
  <1>7. BuffersExclusive'
    BY <1>1, <1>3, <1>6 DEF IInv, BuffersExclusive
  <1>8. FreeBuffersAreZero'
    BY <1>1 DEF IInv, TypeOK, FreeBuffersAreZero
  <1>9. RoomToCount'
    BY <1>1, <1>2 DEF IInv, RoomToCount, AllocPcs
  <1>10. CountCovers'
    BY <1>1 DEF IInv, CountCovers, Allocated
  <1>11. WakeupsSuffice'
    <2>1. Seekers' = Seekers /\ Waiting' = Waiting /\ FreeBuffers' = FreeBuffers
      BY <1>1, <1>2 DEF Seekers, Waiting, FreeBuffers
    <2> QED BY <1>1, <2>1 DEF IInv, WakeupsSuffice
  <1> QED BY <1>4, <1>5, <1>7, <1>8, <1>9, <1>10, <1>11 DEF IInv

LEMMA FreeEndPreserves ==
    ASSUME IInv, NEW t \in Threads, FreeEnd(t)
    PROVE  IInv'
  <1> DEFINE b == freeing[t]
  <1>1. /\ pc[t] = "free" /\ b \in Buffers
        /\ buffer_allocated' = [buffer_allocated EXCEPT ![b] = FALSE]
        /\ allocator' = [allocator EXCEPT ![b] = NoThread]
        /\ freeing' = [freeing EXCEPT ![t] = NoBuffer]
        /\ lock' = NoThread
        /\ UNCHANGED <<info, emergencyBuffersHeld, clean, inUse, recovered>>
    BY DEF FreeEnd, IInv, FreeingPlace
  <1>2. \/ Waiting = {} /\ \A u \in Threads : pc'[u] = IF u = t THEN "idle" ELSE pc[u]
        \/ \E w \in Waiting : /\ w # t
                              /\ \A u \in Threads :
                                    pc'[u] = IF u = w THEN "woken"
                                             ELSE IF u = t THEN "idle" ELSE pc[u]
    BY <1>1 DEF FreeEnd, IInv, TypeOK, Waiting
  <1>3. \A u \in Threads : \/ u # t /\ pc'[u] = pc[u]
                           \/ u # t /\ pc'[u] = "woken" /\ pc[u] = "waiting"
                           \/ u = t /\ pc'[u] = "idle"
    BY <1>2 DEF Waiting
  <1>4. \A c \in Buffers : /\ buffer_allocated'[c] = IF c = b THEN FALSE ELSE buffer_allocated[c]
                           /\ allocator'[c] = IF c = b THEN NoThread ELSE allocator[c]
    BY <1>1 DEF IInv, TypeOK
  <1>5. \A u \in Threads : freeing'[u] = IF u = t THEN NoBuffer ELSE freeing[u]
    BY <1>1 DEF IInv, TypeOK
  <1>6. TypeOK'
    BY <1>1 DEF FreeEnd, IInv, TypeOK
  <1>7. NoBuffer \notin Buffers
    BY PoolAssumption DEF Buffers, NoBuffer
  <1>8. LockOwner' /\ FreeingPlace'
    <2>1. LockOwner'
      BY <1>1, <1>3, PoolAssumption DEF IInv, LockOwner, LockPcs
    <2>2. FreeingPlace'
      BY <1>1, <1>3, <1>5, <1>7 DEF IInv, FreeingPlace
    <2> QED BY <2>1, <2>2
  <1>9. BuffersExclusive'
    BY <1>1, <1>4, <1>5, <1>7 DEF IInv, TypeOK, BuffersExclusive
  <1>10. FreeBuffersAreZero'
    <2>1. clean[b]
      BY <1>1 DEF IInv, FreeingPlace
    <2> QED BY <1>1, <1>4, <2>1 DEF IInv, FreeBuffersAreZero
  <1>11. RoomToCount'
    BY <1>1, <1>3 DEF IInv, RoomToCount, AllocPcs
  <1>12. CountCovers'
    <2>1. \A c \in Buffers : buffer_allocated'[c] <=> allocator'[c] # NoThread
      BY <1>4 DEF IInv, CountCovers
    <2>2. \A u \in Threads : Allocated(u)' \in SUBSET Allocated(u)
      BY <1>4, PoolAssumption DEF Allocated
    <2>3. \A u \in Threads : /\ Cardinality(Allocated(u)') \in Nat
                             /\ Cardinality(Allocated(u)') <= Cardinality(Allocated(u))
      BY <2>2, Counts, SubsetCounts
    <2>4. \A u \in Threads : emergencyBuffersHeld[u] \in Nat
      BY PoolAssumption DEF IInv, TypeOK
    <2> QED BY <1>1, <2>1, <2>3, <2>4, Counts DEF IInv, CountCovers
  <1>13. WakeupsSuffice'
    <2>1. CASE Waiting' = {}
      BY <2>1 DEF WakeupsSuffice
    <2>2. CASE Waiting' # {}
      <3>1. PICK w \in Waiting : /\ w # t
                                 /\ \A u \in Threads :
                                       pc'[u] = IF u = w THEN "woken"
                                                ELSE IF u = t THEN "idle" ELSE pc[u]
        BY <1>2, <2>2 DEF Waiting
      <3>2. Seekers' = Seekers \cup {w} /\ w \notin Seekers
        BY <1>1, <3>1 DEF Seekers, Waiting
      <3>3. FreeBuffers' = FreeBuffers \cup {b}
        BY <1>1, <1>4 DEF FreeBuffers
      <3>4. /\ Cardinality(Seekers') = Cardinality(Seekers) + 1
            /\ Cardinality(FreeBuffers') \in {Cardinality(FreeBuffers),
                                              Cardinality(FreeBuffers) + 1}
        BY <3>2, <3>3, FS_AddElement, Counts
      <3> QED BY <1>1, <3>1, <3>4, Counts DEF IInv, WakeupsSuffice
    <2> QED BY <2>1, <2>2
  <1> QED BY <1>6, <1>8, <1>9, <1>10, <1>11, <1>12, <1>13 DEF IInv

LEMMA NextPreserves == IInv /\ [Next]_vars => IInv'
  <1> SUFFICES ASSUME IInv, [Next]_vars PROVE IInv'
    OBVIOUS
  <1>1. CASE UNCHANGED vars
    <2>1. UNCHANGED <<Waiting, FreeBuffers, Seekers>> /\ \A t \in Threads : UNCHANGED Allocated(t)
      BY <1>1 DEF vars, Waiting, FreeBuffers, Seekers, Allocated
    <2>2. TypeOK' /\ LockOwner' /\ FreeingPlace' /\ BuffersExclusive' /\ FreeBuffersAreZero'
      BY <1>1
      DEF IInv, vars, TypeOK, LockOwner, FreeingPlace, BuffersExclusive, FreeBuffersAreZero
    <2>3. RoomToCount' /\ CountCovers' /\ WakeupsSuffice'
      BY <1>1, <2>1 DEF IInv, vars, RoomToCount, CountCovers, WakeupsSuffice
    <2> QED BY <2>2, <2>3 DEF IInv
  <1>2. ASSUME NEW t \in Threads, Step(t) PROVE IInv'
    BY <1>2, MovePreserves, MutexLockPreserves, NoBufferPreserves, SearchTakesPreserves,
       FreeStartPreserves, FreeEndPreserves
    DEF Step
  <1> QED BY <1>1, <1>2 DEF Next

LEMMA InvImpliesLimit == IInv => LimitRespected
  <1> SUFFICES ASSUME IInv, NEW t \in Threads PROVE Cardinality(Allocated(t)) <= MaxHeld
    BY DEF LimitRespected
  <1>1. emergencyBuffersHeld[t] \in 0 .. MaxHeld /\ MaxHeld \in Nat
    BY PoolAssumption DEF IInv, TypeOK
  <1>2. Cardinality(Allocated(t)) <= emergencyBuffersHeld[t]
    BY DEF IInv, CountCovers
  <1> QED BY <1>1, <1>2, Counts

LEMMA InvImpliesSleep == IInv => SleepOnlyWhenFull
  <1> SUFFICES ASSUME IInv, ~recovered, Waiting # {},
                      \A t \in Threads : pc[t] \in {"idle", "waiting"}
               PROVE  FreeBuffers = {}
    BY DEF SleepOnlyWhenFull, FreeBuffers
  <1>1. Seekers = {}
    BY DEF Seekers
  <1>2. Cardinality(FreeBuffers) = 0
    BY <1>1, FS_EmptySet, Counts DEF IInv, WakeupsSuffice
  <1> QED BY <1>2, FS_EmptySet, Counts

LEMMA SleeperIsNotAlone ==
    ASSUME IInv, [Next]_vars, NEW t \in Threads, pc[t] = "search", pc'[t] = "waiting"
    PROVE  Cardinality({b \in Buffers : allocator[b] # t}) > NumBuffers - MaxHeld
  <1>1. \A b \in Buffers : buffer_allocated[b]
    <2>1. PICK u \in Threads : Step(u)
      BY DEF Next, vars
    <2>2. SearchWaits(u)
      <3>1. \A large \in BOOLEAN : ~AllocOrDie(u, large)
        BY DEF AllocOrDie, Goto, IInv, TypeOK
      <3>2. ~CheckLimit(u)
        BY DEF CheckLimit, Goto, IInv, TypeOK
      <3>3. \A ok \in BOOLEAN : ~CreateInfo(u, ok)
        BY DEF CreateInfo, Goto, IInv, TypeOK
      <3>4. ~MutexLock(u) /\ ~SearchCalloc(u) /\ ~SpuriousWakeup(u)
        BY DEF MutexLock, SearchCalloc, SpuriousWakeup, Goto, IInv, TypeOK
      <3>5. \A b \in Buffers : ~SearchTakes(u, b) /\ ~FreeStart(u, b)
        BY DEF SearchTakes, FreeStart, Goto, IInv, TypeOK
      <3>6. ~FreeEnd(u)
        BY DEF FreeEnd, IInv, TypeOK
      <3> QED BY <2>1, <3>1, <3>2, <3>3, <3>4, <3>5, <3>6 DEF Step
    <2> QED BY <2>2 DEF SearchWaits
  <1> DEFINE Others == {b \in Buffers : allocator[b] # t}
  <1>2. Allocated(t) \in SUBSET Buffers /\ Others = Buffers \ Allocated(t)
    BY DEF Allocated
  <1>3. Buffers \cap Allocated(t) = Allocated(t)
    BY <1>2
  <1>4. Cardinality(Others) = NumBuffers - Cardinality(Allocated(t))
    BY <1>2, <1>3, BuffersFinite, FS_Difference
  <1>5. Cardinality(Allocated(t)) <= emergencyBuffersHeld[t] /\ emergencyBuffersHeld[t] < MaxHeld
        /\ emergencyBuffersHeld[t] \in Nat
    BY PoolAssumption DEF IInv, TypeOK, CountCovers, RoomToCount, AllocPcs
  <1>6. NumBuffers \in Nat /\ MaxHeld \in Nat
    BY PoolAssumption
  <1> QED BY <1>4, <1>5, <1>6, Counts
-----------------------------------------------------------------------------
THEOREM InvariantHolds == Spec => []IInv
  BY InitHolds, NextPreserves, PTL DEF Spec

(***************************************************************************)
(* Whatever the number of buffers and threads, emergency_malloc never      *)
(* hands out a buffer that backs a live exception or is being cleared by   *)
(* free_exception, and hands out zeroes.                                   *)
(***************************************************************************)
THEOREM BuffersAreExclusive == Spec => [](BuffersExclusive /\ FreeBuffersAreZero)
  <1>1. IInv => BuffersExclusive /\ FreeBuffersAreZero
    BY DEF IInv
  <1> QED BY <1>1, InvariantHolds, PTL

(***************************************************************************)
(* No thread holds more than MaxHeld emergency buffers, although the count *)
(* and the flags are changed by different threads at different times.      *)
(***************************************************************************)
THEOREM LimitIsRespected == Spec => []LimitRespected
  BY InvImpliesLimit, InvariantHolds, PTL

(***************************************************************************)
(* One pthread_cond_signal per freed buffer is enough: while the heap      *)
(* stays exhausted, no thread sleeps beside a free buffer with nobody on   *)
(* the way to take it.                                                     *)
(***************************************************************************)
THEOREM NoLostWakeup == Spec => []SleepOnlyWhenFull
  BY InvImpliesSleep, InvariantHolds, PTL

(***************************************************************************)
(* A thread that starts to wait in emergency_malloc waits for others: it   *)
(* never owns enough buffers to be the only one that could free one.       *)
(***************************************************************************)
THEOREM SleeperWaitsForOthers == Spec => NoSelfDeadlock
  <1>1. IInv /\ [Next]_vars =>
            [\A t \in Threads : pc[t] = "search" /\ pc'[t] = "waiting" =>
                Cardinality({b \in Buffers : allocator[b] # t}) > NumBuffers - MaxHeld]_vars
    BY SleeperIsNotAlone
  <1> QED BY <1>1, InvariantHolds, PTL DEF Spec, NoSelfDeadlock
==============================================================================
