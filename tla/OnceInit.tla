------------------------------ MODULE OnceInit ------------------------------
(***************************************************************************)
(* What guard.cc promises the compiled code of a function with a static    *)
(* local variable, independent of the layout of the guard word: the        *)
(* constructor runs in one thread at a time, it is never started again     *)
(* once it has returned, and no thread goes on to use the variable before  *)
(* that.                                                                   *)
(***************************************************************************)
CONSTANT Threads

VARIABLES owners,  \* the threads that were told to run the constructor
          done,    \* whether the constructor has returned
          users    \* the threads that were told the variable is initialised

abstractVars == <<owners, done, users>>

Init ==
    /\ owners = {}
    /\ done = FALSE
    /\ users = {}

\* __cxa_guard_acquire returns 1 in thread t.
Begin(t) ==
    /\ owners = {}
    /\ ~done
    /\ owners' = {t}
    /\ UNCHANGED <<done, users>>

\* The constructor threw: __cxa_guard_abort.
Abort(t) ==
    /\ owners = {t}
    /\ owners' = {}
    /\ UNCHANGED <<done, users>>

\* The constructor returned: __cxa_guard_release.
Finish(t) ==
    /\ owners = {t}
    /\ owners' = {}
    /\ done' = TRUE
    /\ users' = users \cup {t}

\* The inline test or __cxa_guard_acquire found the variable initialised.
Skip(t) ==
    /\ done
    /\ users' = users \cup {t}
    /\ UNCHANGED <<owners, done>>

\* Thread t leaves the function.
Leave(t) ==
    /\ t \in users
    /\ users' = users \ {t}
    /\ UNCHANGED <<owners, done>>

Next ==
    \E t \in Threads :
        Begin(t) \/ Abort(t) \/ Finish(t) \/ Skip(t) \/ Leave(t)

Spec == Init /\ [][Next]_abstractVars
=============================================================================
