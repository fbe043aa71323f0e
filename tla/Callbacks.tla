----------------------------- MODULE Callbacks -----------------------------
(***************************************************************************)
(* All the callbacks of the runtime together: an allocation that fails in  *)
(* an exit handler, say, throws out of operator new, finds no handler and  *)
(* terminates the program with the mutex of the exit handlers held.        *)
(***************************************************************************)
EXTENDS AtExit

vars == <<programVars, handlerVars, newVars, exitVars>>

Init == ProgramInit /\ HandlersInit /\ NewInit /\ AtExitInit

\* What the runtime goes on with, and handlers that return.
Step(t) ==
    \/ HandlerSteps(t) /\ UNCHANGED <<newVars, exitVars>>
    \/ NewSteps(t) /\ UNCHANGED exitVars
    \/ ExitSteps(t)

Next ==
    \E t \in Threads :
        \/ HandlerCalls(t) /\ UNCHANGED <<newVars, exitVars>>
        \/ NewCalls(t) /\ UNCHANGED exitVars
        \/ ExitCalls(t)
        \/ Step(t)

\* The scheduler runs every thread, and handlers of the program return.
Spec == Init /\ [][Next]_vars /\ \A t \in Threads : WF_vars(Step(t))
=============================================================================
