--------------------------- MODULE EmergencyPool ---------------------------
(***************************************************************************)
(* The emergency buffers of exception.cc: what alloc_or_die and            *)
(* free_exception do when calloc fails. An allocation whose first calloc   *)
(* succeeds, and the free of such memory, leave this state alone and are   *)
(* not steps here.                                                         *)
(***************************************************************************)
EXTENDS Naturals, FiniteSets

CONSTANTS Threads, NoThread,
          NumBuffers,      \* 16 in the code
          MaxHeld          \* emergency buffers allowed per thread, 4 in the code

ASSUME PoolAssumption ==
    /\ IsFiniteSet(Threads) /\ NoThread \notin Threads
    /\ NumBuffers \in Nat /\ MaxHeld \in 1 .. NumBuffers

Buffers == 1 .. NumBuffers
NoBuffer == 0

VARIABLES
    pc,                    \* where each thread is in alloc_or_die or free_exception
    info,                  \* whether the thread's __cxa_thread_info exists
    emergencyBuffersHeld,  \* field of the thread info, per thread
    lock,                  \* the thread that owns emergency_malloc_lock
    buffer_allocated,      \* the array of flags
    clean,                 \* whether a buffer holds only zeroes
    inUse,                 \* buffers that back an exception of the program
    freeing,               \* the buffer each thread is giving back
    allocator,             \* history: the thread a buffer was allocated by
    recovered              \* history: whether the calloc retried in emergency_malloc succeeded

poolVars == <<buffer_allocated, clean, inUse, allocator>>
vars == <<pc, info, emergencyBuffersHeld, freeing, lock, buffer_allocated, clean, inUse,
          allocator, recovered>>

Init ==
    /\ pc = [t \in Threads |-> "idle"]
    /\ info = [t \in Threads |-> FALSE]
    /\ emergencyBuffersHeld = [t \in Threads |-> 0]
    /\ lock = NoThread
    /\ buffer_allocated = [b \in Buffers |-> FALSE]
    /\ clean = [b \in Buffers |-> TRUE]
    /\ inUse = {}
    /\ freeing = [t \in Threads |-> NoBuffer]
    /\ allocator = [b \in Buffers |-> NoThread]
    /\ recovered = FALSE

\* std::terminate(), or the null thread info is read.
Dead == {"tooLarge", "overLimit", "nullInfo"}
Running == \A t \in Threads : pc[t] \notin Dead

Goto(t, from, to) ==
    /\ pc[t] \in from
    /\ pc' = [pc EXCEPT ![t] = to]

\* The calloc of alloc_or_die failed. emergency_malloc refuses more than
\* 1024 bytes, and then alloc_or_die terminates.
AllocOrDie(t, large) ==
    /\ Goto(t, {"idle"}, IF large THEN "tooLarge" ELSE "info")
    /\ UNCHANGED <<info, emergencyBuffersHeld, lock, freeing, poolVars, recovered>>

\* Mutant: one buffer more than allowed.
MutantCheckLimit(t) ==
    /\ info[t]
    /\ Goto(t, {"info"}, IF emergencyBuffersHeld[t] > MaxHeld THEN "overLimit" ELSE "lock")
    /\ UNCHANGED <<info, emergencyBuffersHeld, lock, freeing, poolVars, recovered>>

\* thread_info() finds the thread's structure: the check of the limit.
CheckLimit(t) ==
    /\ info[t]
    /\ Goto(t, {"info"}, IF emergencyBuffersHeld[t] > MaxHeld - 1 THEN "overLimit" ELSE "lock")
    /\ UNCHANGED <<info, emergencyBuffersHeld, lock, freeing, poolVars, recovered>>

\* thread_info() allocates the structure with calloc, which zeroes the count.
\* The result is not checked: when calloc fails here too, the null pointer is
\* read. `ok' is the outcome of calloc.
CreateInfo(t, ok) ==
    /\ ~info[t]
    /\ Goto(t, {"info"}, IF ok THEN "lock" ELSE "nullInfo")
    /\ info' = [info EXCEPT ![t] = ok]
    /\ UNCHANGED <<emergencyBuffersHeld, lock, freeing, poolVars, recovered>>

\* pthread_mutex_lock, or pthread_cond_wait taking the mutex again.
MutexLock(t) ==
    /\ lock = NoThread
    /\ \/ Goto(t, {"lock", "woken"}, "search")
       \/ Goto(t, {"freeLock"}, "free")
    /\ lock' = t
    /\ UNCHANGED <<info, emergencyBuffersHeld, freeing, poolVars, recovered>>

\* The calloc of the loop succeeds: unlock and return its memory.
SearchCalloc(t) ==
    /\ Goto(t, {"search"}, "idle")
    /\ lock' = NoThread
    /\ recovered' = TRUE
    /\ UNCHANGED <<info, emergencyBuffersHeld, freeing, poolVars>>

FirstFree(b) ==
    /\ ~buffer_allocated[b]
    /\ \A c \in Buffers : c < b => buffer_allocated[c]

\* Mutant: the flag is not set.
MutantSearchTakes(t, b) ==
    /\ FirstFree(b)
    /\ Goto(t, {"search"}, "idle")
    /\ lock' = NoThread
    /\ emergencyBuffersHeld' = [emergencyBuffersHeld EXCEPT ![t] = @ + 1]
    /\ allocator' = [allocator EXCEPT ![b] = t]
    /\ inUse' = inUse \cup {b}
    /\ clean' = [clean EXCEPT ![b] = FALSE]
    /\ UNCHANGED <<info, freeing, buffer_allocated, recovered>>

\* The loop finds the first unallocated buffer. The program fills it.
SearchTakes(t, b) ==
    /\ FirstFree(b)
    /\ Goto(t, {"search"}, "idle")
    /\ buffer_allocated' = [buffer_allocated EXCEPT ![b] = TRUE]
    /\ lock' = NoThread
    /\ emergencyBuffersHeld' = [emergencyBuffersHeld EXCEPT ![t] = @ + 1]
    /\ allocator' = [allocator EXCEPT ![b] = t]
    /\ inUse' = inUse \cup {b}
    /\ clean' = [clean EXCEPT ![b] = FALSE]
    /\ UNCHANGED <<info, freeing, recovered>>

\* All buffers are allocated: pthread_cond_wait releases the mutex and sleeps.
SearchWaits(t) ==
    /\ \A b \in Buffers : buffer_allocated[b]
    /\ Goto(t, {"search"}, "waiting")
    /\ lock' = NoThread
    /\ UNCHANGED <<info, emergencyBuffersHeld, freeing, poolVars, recovered>>

\* pthread_cond_wait may return without a signal.
SpuriousWakeup(t) ==
    /\ Goto(t, {"waiting"}, "woken")
    /\ UNCHANGED <<info, emergencyBuffersHeld, lock, freeing, poolVars, recovered>>

\* free_exception of an exception in an emergency buffer, by any thread: the
\* buffer is cleared before the lock is taken.
FreeStart(t, b) ==
    /\ Goto(t, {"idle"}, "freeLock")
    /\ b \in inUse
    /\ inUse' = inUse \ {b}
    /\ freeing' = [freeing EXCEPT ![t] = b]
    /\ clean' = [clean EXCEPT ![b] = TRUE]
    /\ UNCHANGED <<info, emergencyBuffersHeld, lock, buffer_allocated, allocator, recovered>>

Waiting == {t \in Threads : pc[t] = "waiting"}

\* Mutant: the condition variable is not signalled.
MutantFreeEnd(t) ==
    /\ Goto(t, {"free"}, "idle")
    /\ buffer_allocated' = [buffer_allocated EXCEPT ![freeing[t]] = FALSE]
    /\ allocator' = [allocator EXCEPT ![freeing[t]] = NoThread]
    /\ freeing' = [freeing EXCEPT ![t] = NoBuffer]
    /\ lock' = NoThread
    /\ UNCHANGED <<info, emergencyBuffersHeld, clean, inUse, recovered>>

\* The flag is cleared, pthread_cond_signal wakes a waiter if there is one,
\* and the mutex is released. emergencyBuffersHeld keeps its value.
FreeEnd(t) ==
    /\ pc[t] = "free"
    /\ \/ Waiting = {} /\ pc' = [pc EXCEPT ![t] = "idle"]
       \/ \E w \in Waiting : pc' = [pc EXCEPT ![t] = "idle", ![w] = "woken"]
    /\ buffer_allocated' = [buffer_allocated EXCEPT ![freeing[t]] = FALSE]
    /\ allocator' = [allocator EXCEPT ![freeing[t]] = NoThread]
    /\ freeing' = [freeing EXCEPT ![t] = NoBuffer]
    /\ lock' = NoThread
    /\ UNCHANGED <<info, emergencyBuffersHeld, clean, inUse, recovered>>

Step(t) ==
    \/ \E large \in BOOLEAN : AllocOrDie(t, large)
    \/ CheckLimit(t)
    \/ \E ok \in BOOLEAN : CreateInfo(t, ok)
    \/ MutexLock(t)
    \/ SearchCalloc(t)
    \/ \E b \in Buffers : SearchTakes(t, b)
    \/ SearchWaits(t)
    \/ SpuriousWakeup(t)
    \/ \E b \in Buffers : FreeStart(t, b)
    \/ FreeEnd(t)

Next == Running /\ \E t \in Threads : Step(t)

Spec == Init /\ [][Next]_vars
-----------------------------------------------------------------------------
TypeOK ==
    /\ pc \in [Threads -> {"idle", "info", "lock", "search", "waiting", "woken", "freeLock",
                           "free"} \cup Dead]
    /\ info \in [Threads -> BOOLEAN]
    /\ emergencyBuffersHeld \in [Threads -> 0 .. MaxHeld]
    /\ lock \in Threads \cup {NoThread}
    /\ buffer_allocated \in [Buffers -> BOOLEAN]
    /\ clean \in [Buffers -> BOOLEAN]
    /\ inUse \subseteq Buffers
    /\ freeing \in [Threads -> Buffers \cup {NoBuffer}]
    /\ allocator \in [Buffers -> Threads \cup {NoThread}]
    /\ recovered \in BOOLEAN

(***************************************************************************)
(* A buffer backs one exception: buffer_allocated is set exactly for the   *)
(* buffers the program uses or some thread is giving back, and no buffer   *)
(* is given back twice or while it is in use. A flag cleared too early, or *)
(* not set, would hand the storage of a live exception to another thread.  *)
(***************************************************************************)
BuffersExclusive ==
    /\ \A b \in Buffers :
          buffer_allocated[b] <=> (b \in inUse \/ \E t \in Threads : freeing[t] = b)
    /\ \A t, u \in Threads : t # u /\ freeing[t] \in Buffers => freeing[t] # freeing[u]
    /\ \A t \in Threads : freeing[t] \notin inUse

(***************************************************************************)
(* "emergency_malloc() is expected to return 0-initialized data": a buffer *)
(* that may be handed out holds zeroes, whoever freed it last.             *)
(***************************************************************************)
FreeBuffersAreZero ==
    \A b \in Buffers : ~buffer_allocated[b] => clean[b]

Allocated(t) == {b \in Buffers : allocator[b] = t}

(***************************************************************************)
(* "Threads are not permitted to hold more than 4 emergency buffers."      *)
(***************************************************************************)
LimitRespected ==
    \A t \in Threads : Cardinality(Allocated(t)) <= MaxHeld

(***************************************************************************)
(* A thread that goes to sleep does not wait for itself: whatever it       *)
(* holds, other threads' exceptions fill more than NumBuffers - MaxHeld    *)
(* buffers at that moment.                                                 *)
(***************************************************************************)
NoSelfDeadlock ==
    [][\A t \in Threads : pc[t] = "search" /\ pc'[t] = "waiting" =>
          Cardinality({b \in Buffers : allocator[b] # t}) > NumBuffers - MaxHeld]_vars

(***************************************************************************)
(* "If all emergency buffers are allocated, it will sleep until one        *)
(* becomes available": as long as the heap stays exhausted no wakeup is    *)
(* lost. When nobody is inside the allocator except the sleepers, so that  *)
(* nobody is left to wake one, every buffer is in use.                     *)
(***************************************************************************)
SleepOnlyWhenFull ==
    ~recovered /\ Waiting # {} /\ (\A t \in Threads : pc[t] \in {"idle", "waiting"})
        => \A b \in Buffers : buffer_allocated[b]

(***************************************************************************)
(* "This function will fail if size is over 1KB or if this thread already  *)
(* has 4 emergency buffers": a small allocation is refused only to a       *)
(* thread that has MaxHeld of them.                                        *)
(***************************************************************************)
RefusedOnlyAtLimit ==
    \A t \in Threads : pc[t] = "overLimit" => Cardinality(Allocated(t)) = MaxHeld
=============================================================================
