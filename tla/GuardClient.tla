---------------------------- MODULE GuardClient ----------------------------
(***************************************************************************)
(* The code the compiler emits around a function-local static variable,    *)
(* which calls the three functions of guard.cc: an inline test of the      *)
(* first byte of the guard, __cxa_guard_acquire when the byte is zero, the *)
(* constructor when that returns 1, then __cxa_guard_release, or           *)
(* __cxa_guard_abort from the landing pad when the constructor throws.     *)
(*                                                                         *)
(* A guard word is modelled as the set of its bits that are 1.             *)
(***************************************************************************)
EXTENDS Naturals

CONSTANTS Threads,     \* the threads that execute the function
          LockedBit,   \* template parameter LockedBit of the guard class
          InitBit,     \* template parameter InitBit of the guard class
          FirstByte,   \* the bits of the word stored in its first byte
          WeakCAS,     \* TRUE: __atomic_compare_exchange_n, which may fail
                       \* spuriously; FALSE: __c11_atomic_..._strong
          MaxThrows    \* bound: how often the constructor throws

\* The instantiations of guard.cc: <31,0>, <63,0>, <0,56>, <0,24>.
ASSUME GuardAssumption ==
    /\ LockedBit \in Nat /\ InitBit \in Nat
    /\ FirstByte \subseteq Nat
    /\ InitBit \in FirstByte /\ LockedBit \notin FirstByte
    /\ WeakCAS \in BOOLEAN
    /\ MaxThrows \in Nat

VARIABLES pc,       \* what each thread does next
          object,   \* the static variable: "raw", "partial" or "built"
          throws    \* number of times the constructor has thrown

clientVars == <<pc, object, throws>>

locked == {LockedBit}
initialised == {InitBit}

ClientInit ==
    /\ pc = [t \in Threads |-> "idle"]
    /\ object = "raw"
    /\ throws = 0

Goto(t, from, to) ==
    /\ pc[t] = from
    /\ pc' = [pc EXCEPT ![t] = to]

\* __cxa_guard_acquire returned 1: the constructor starts to write the object.
StartConstructor(t) ==
    /\ Goto(t, "locked", "construct")
    /\ object' = "partial"
    /\ UNCHANGED throws

ConstructorReturns(t) ==
    /\ Goto(t, "construct", "release")
    /\ object' = "built"
    /\ UNCHANGED throws

\* The members built so far are destroyed, the landing pad calls abort.
ConstructorThrows(t) ==
    /\ throws < MaxThrows
    /\ Goto(t, "construct", "abort")
    /\ object' = "raw"
    /\ throws' = throws + 1

\* The thread leaves the function; it may call it again.
ReturnFromFunction(t) ==
    /\ Goto(t, "use", "idle")
    /\ UNCHANGED <<object, throws>>

\* The threads __cxa_guard_acquire has told to initialise the variable and
\* that have not finished __cxa_guard_release or __cxa_guard_abort.
Initialising ==
    {t \in Threads : pc[t] \in {"locked", "construct", "release", "abort", "abortUnlock"}}

Acquiring(t) == pc[t] \in {"acquire", "try", "recheck", "undo", "yield"}
-----------------------------------------------------------------------------
(***************************************************************************)
(* guard.cc, "two threads attempting to initialize the same static do not  *)
(* call the constructor twice": no two threads are between a               *)
(* __cxa_guard_acquire that returned 1 and the release or abort of it, and *)
(* nobody constructs once the object is built.                             *)
(***************************************************************************)
ConstructorExclusive ==
    /\ \A t, u \in Initialising : t = u
    /\ object = "built" => \A t \in Threads : pc[t] \notin {"locked", "construct", "abort", "abortUnlock"}

(***************************************************************************)
(* A thread that was let past the guard - by the inline test of the first  *)
(* byte, by the load in __cxa_guard_acquire or by try_lock returning       *)
(* InitDone - sees the completely constructed object.                      *)
(***************************************************************************)
UsersSeeBuiltObject ==
    \A t \in Threads : pc[t] = "use" => object = "built"

(***************************************************************************)
(* The spin loop of __cxa_guard_acquire ends: a thread that entered it     *)
(* either gets the lock or finds the variable initialised, although other  *)
(* threads take the lock and give it back when their constructor throws.   *)
(* (A failed assertion, pc = "aborted", ends the program.)                 *)
(***************************************************************************)
AcquireReturns ==
    \A t \in Threads : Acquiring(t) ~> (~Acquiring(t) \/ \E u \in Threads : pc[u] = "aborted")
=============================================================================
