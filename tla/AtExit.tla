------------------------------- MODULE AtExit -------------------------------
(***************************************************************************)
(* __cxa_atexit and __cxa_finalize of cxa_atexit.c, and the destructor in  *)
(* cxa_finalize.c that calls __cxa_finalize for its shared object.         *)
(*                                                                         *)
(* head is the list of registered handlers, the last one first.  log and   *)
(* registered are its history: the handlers in the order they ran, and how *)
(* many had run when each of them was registered.                          *)
(***************************************************************************)
EXTENDS NewHandler

CONSTANT Dsos \* the __dso_handles; 0 asks for all handlers

VARIABLES head, lock, registered, log

exitVars == <<head, lock, registered, log>>

AtExitInit ==
    /\ head = <<>>
    /\ lock = Null
    /\ registered = <<>>
    /\ log = <<>>

\* Programs that do not say "nested" leave the list alone in exit handlers.
OutsideExitHandlers(t) ==
    "nested" \in program \/ \A i \in DOMAIN stack[t] : stack[t][i].f # "exitHandler"

CxaAtexit(t, d) ==
    /\ OutsideExitHandlers(t)
    /\ Calls(t, "atexit")
    /\ SetStack(t, 0, << [f |-> "atexit", d |-> d] >>)
    /\ UNCHANGED <<program, process, exitVars, newVars, handlerVars>>

\* Mutant: the handler is appended.
MutantRegister(t) ==
    /\ At(t, "atexit") /\ lock = Null
    /\ LET h == [id |-> Len(registered) + 1, d |-> Top(t).d]
       IN  /\ head' = Append(head, h)
           /\ registered' = Append(registered, [d |-> h.d, after |-> Len(log)])
    /\ SetStack(t, 1, <<>>)
    /\ UNCHANGED <<program, process, calls, lock, log, newVars, handlerVars>>

\* The mutex is held for this step only.
Register(t) ==
    /\ At(t, "atexit") /\ lock = Null
    /\ LET h == [id |-> Len(registered) + 1, d |-> Top(t).d]
       IN  /\ head' = <<h>> \o head
           /\ registered' = Append(registered, [d |-> h.d, after |-> Len(log)])
    /\ SetStack(t, 1, <<>>)
    /\ UNCHANGED <<program, process, calls, lock, log, newVars, handlerVars>>

\* Mutant: the mutex stays locked.
MutantRegisterFails(t) ==
    /\ At(t, "atexit") /\ lock = Null /\ avail = 0
    /\ lock' = t
    /\ SetStack(t, 1, <<>>)
    /\ UNCHANGED <<program, process, calls, head, registered, log, newVars, handlerVars>>

\* malloc fails: unlock and return 1.
RegisterFails(t) ==
    /\ At(t, "atexit") /\ lock = Null /\ avail = 0
    /\ SetStack(t, 1, <<>>)
    /\ UNCHANGED <<program, process, calls, exitVars, newVars, handlerVars>>

CxaFinalize(t, d) ==
    /\ OutsideExitHandlers(t)
    /\ Calls(t, "finalize")
    /\ SetStack(t, 0, << [f |-> "finalize", d |-> d, rest |-> <<>>, pc |-> "lock"] >>)
    /\ UNCHANGED <<program, process, exitVars, newVars, handlerVars>>

FinalizeLocks(t) ==
    /\ At(t, "finalize") /\ Top(t).pc = "lock" /\ lock = Null
    /\ lock' = t
    /\ SetStack(t, 1, << [Top(t) EXCEPT !.rest = head, !.pc = "loop"] >>)
    /\ UNCHANGED <<program, process, calls, head, registered, log, newVars, handlerVars>>

\* One round of the loop; rest is the list from h on.
Round(t) == At(t, "finalize") /\ Top(t).pc = "loop" /\ Top(t).rest # <<>>
Matches(t) == Top(t).d \in {0, Head(Top(t).rest).d}

SkipHandler(t) ==
    /\ Round(t) /\ ~Matches(t)
    /\ SetStack(t, 1, << [Top(t) EXCEPT !.rest = Tail(@)] >>)
    /\ UNCHANGED <<program, process, calls, exitVars, newVars, handlerVars>>

\* *last = h->next, then the handler is called with the mutex held.
RunExitHandler(t) ==
    /\ Round(t) /\ Matches(t)
    /\ head' = SubSeq(head, 1, Len(head) - Len(Top(t).rest)) \o Tail(Top(t).rest)
    /\ log' = Append(log, Head(Top(t).rest).id)
    /\ SetStack(t, 1, << [f |-> "exitHandler"], [Top(t) EXCEPT !.rest = Tail(@)] >>)
    /\ UNCHANGED <<program, process, calls, lock, registered, newVars, handlerVars>>

\* free(h), and then h = h->next reads the freed memory: the link is still
\* there, or the process crashes.
ExitHandlerReturns(t) ==
    /\ At(t, "exitHandler")
    /\ SetStack(t, 1, <<>>)
    /\ process' \in {"running", "crashed"}
    /\ UNCHANGED <<program, calls, exitVars, newVars, handlerVars>>

FinalizeReturnsStep(t) ==
    /\ At(t, "finalize") /\ Top(t).pc = "loop" /\ Top(t).rest = <<>>
    /\ lock' = Null
    /\ SetStack(t, 1, <<>>)
    /\ UNCHANGED <<program, process, calls, head, registered, log, newVars, handlerVars>>

ExitCalls(t) ==
    \/ \E d \in Dsos : CxaAtexit(t, d)
    \/ \E d \in Dsos \cup {0} : CxaFinalize(t, d)

ExitSteps(t) ==
    \/ Register(t) \/ RegisterFails(t) \/ FinalizeLocks(t) \/ SkipHandler(t)
    \/ RunExitHandler(t) \/ ExitHandlerReturns(t) \/ FinalizeReturnsStep(t)

\* Every exit handler runs at most once, and of two handlers of one shared
\* object the one registered later runs first, if it was registered before
\* the other one ran.
ExitHandlersOnceInReverse ==
    /\ \A i, j \in DOMAIN log : log[i] = log[j] => i = j
    /\ \A i \in DOMAIN log : \A b \in DOMAIN registered :
          log[i] < b /\ registered[b].d = registered[log[i]].d /\ registered[b].after < i
            => \E j \in 1 .. i - 1 : log[j] = b

\* __cxa_atexit and __cxa_finalize return, unless the process ends, in a
\* program whose exit handlers do not call them again.
ExitFunctionsReturn ==
    "nested" \notin program =>
        \A t \in Threads : Top(t).f \in {"atexit", "finalize"} ~>
            (process # "running" \/ Top(t).f \in UserFrames \ {"exitHandler"})
=============================================================================
