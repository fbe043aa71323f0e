------------------------------ MODULE Handlers ------------------------------
(***************************************************************************)
(* The terminate and unexpected handlers of exception.cc: two atomics for  *)
(* the process, one pair per thread in __cxa_thread_info, and the pointers *)
(* to a thread's info that four functions keep in a function-local static. *)
(*                                                                         *)
(* A static is initialised by the first caller and then belongs to every   *)
(* thread, so it may point to the info of another thread and to one that   *)
(* thread_cleanup has freed.  own and due record what is promised: the     *)
(* handler a thread set for itself, and the one that must run.             *)
(*                                                                         *)
(* A null pointer may be set: it takes away a handler of the thread, and   *)
(* as the global handler it crashes the process that calls it.             *)
(***************************************************************************)
EXTENDS Program

VARIABLES handler,  \* terminateHandler and unexpectedHandler, the atomics
          info,     \* per thread: is the info "none", "live" or "freed"; its handlers
          cache,    \* static info: whose info each function uses
          thread_local_handlers,
          stale,    \* a freed info has been read or written
          own       \* history: what the thread set as its own handlers, if it did

handlerVars == <<handler, info, cache, thread_local_handlers, stale, own>>

Kinds == {"terminate", "unexpected"}
NoHandlers == [k \in Kinds |-> Null]
NeverSet == [k \in Kinds |-> "unset"]

HandlersInit ==
    /\ handler = [k \in Kinds |-> "default"]
    /\ info = [t \in Threads |-> [state |-> "none", h |-> NoHandlers]]
    /\ cache = [site \in {"set", "call"} \X Kinds |-> Null]
    /\ thread_local_handlers = FALSE
    /\ stale = FALSE
    /\ own = [t \in Threads |-> NeverSet]

\* The infos after thread_info() on t, which creates the one of t.
thread_info(t) ==
    [info EXCEPT ![t].state = IF @ = "none" THEN "live" ELSE @]

\* static __cxa_thread_info *info = thread_info();
Owner(t, site) == IF cache[site] = Null THEN t ELSE cache[site]
InfosAfter(t, site) == IF cache[site] = Null THEN thread_info(t) ELSE info

\* get_terminate and get_unexpected: the handler in force on t.
get_handler(t, kind) == IF info[t].h[kind] # Null THEN info[t].h[kind] ELSE handler[kind]
InForce(t, kind) == IF own[t][kind] \in Fns THEN own[t][kind] ELSE handler[kind]

GetHandler(t) ==
    /\ Calls(t, "get")
    /\ info' = thread_info(t)
    /\ UNCHANGED <<program, stack, process, handler, cache, thread_local_handlers, stale, own>>

UseThreadLocalHandlers(t, flag) ==
    /\ Calls(t, "threadLocal")
    /\ thread_local_handlers' = flag
    /\ UNCHANGED <<program, stack, process, handler, info, cache, stale, own>>

\* pathscale::set_terminate and set_unexpected
SetThreadLocal(t, kind, fn) ==
    LET site == <<"set", kind>>
        owner == Owner(t, site)
    IN  /\ info' = [InfosAfter(t, site) EXCEPT ![owner].h[kind] = fn]
        /\ cache' = [cache EXCEPT ![site] = owner]
        /\ stale' = (stale \/ info[owner].state = "freed")
        /\ own' = [own EXCEPT ![t][kind] = fn]
        /\ UNCHANGED handler

\* std::set_terminate and std::set_unexpected
SetHandler(t, kind, fn) ==
    /\ Calls(t, "set")
    /\ IF thread_local_handlers THEN SetThreadLocal(t, kind, fn)
       ELSE /\ handler' = [handler EXCEPT ![kind] = fn]
            /\ UNCHANGED <<info, cache, stale, own>>
    /\ UNCHANGED <<program, stack, process, thread_local_handlers>>

HandlerFrame == [terminate |-> "terminateHandler", unexpected |-> "unexpectedHandler"]

\* std::terminate and std::unexpected: the handler runs in place of the n
\* innermost frames.
Enter(t, kind, n) ==
    LET site == <<"call", kind>>
        owner == Owner(t, site)
        ran == get_handler(owner, kind)
    IN  /\ info' = InfosAfter(t, site)
        /\ cache' = [cache EXCEPT ![site] = owner]
        /\ stale' = (stale \/ info[owner].state = "freed")
        /\ SetStack(t, n, << [f |-> HandlerFrame[kind], ran |-> ran, due |-> InForce(t, kind)] >>)
        /\ process' \in IF ran = Null THEN {"crashed"}
                        ELSE IF info[owner].state = "freed" THEN {process, "crashed"}
                        ELSE {process}
        /\ UNCHANGED <<program, handler, thread_local_handlers, own>>

Terminate(t) == Calls(t, "terminate") /\ Enter(t, "terminate", 0)
Unexpected(t) == Calls(t, "unexpected") /\ Enter(t, "unexpected", 0)

\* The unexpected handler of a program that sets none is std::terminate.
DefaultUnexpected(t) ==
    /\ At(t, "unexpectedHandler") /\ IsDefault(Top(t))
    /\ Enter(t, "terminate", 0)
    /\ UNCHANGED calls

\* Mutant: terminate() returns when its handler does.
MutantHandlerReturns(t) ==
    /\ At(t, "terminateHandler")
    /\ SetStack(t, 1, <<>>)
    /\ UNCHANGED <<program, process, calls, handlerVars>>

\* abort(), in the default terminate handler or because a handler returned.
HandlerReturns(t) ==
    /\ At(t, "terminateHandler") \/ (At(t, "unexpectedHandler") /\ ~IsDefault(Top(t)))
    /\ process' = "aborted"
    /\ UNCHANGED <<program, stack, calls, handlerVars>>

\* throw_exception: the exception, of C++'s class or of that of dependent
\* exceptions, keeps the unexpected handler in force now. (It keeps the
\* terminate handler too, which nothing reads.)
Raise(t, class) ==
    /\ info' = thread_info(t)
    /\ SetStack(t, 0, << [f |-> "throw", class |-> class, unexpected |-> get_handler(t, "unexpected"),
                           due |-> InForce(t, "unexpected")] >>)
    /\ UNCHANGED <<program, process, handler, cache, thread_local_handlers, stale, own>>

Throw(t) == Calls(t, "throw") /\ Raise(t, "primary")

\* std::rethrow_exception: __cxa_rethrow_primary_exception
RethrowPtr(t) == Calls(t, "rethrowPtr") /\ Raise(t, "dependent")

\* The frames an exception passes on its way out, and the first one below
\* them, which catches or ends the search.
Transparent ==
    {"throw", "new", "newHandler"} \cup IF "leave" \in program THEN {"unexpectedHandler"} ELSE {}
Barrier(t) ==
    LET i == CHOOSE i \in DOMAIN stack[t] :
                stack[t][i].f \notin Transparent /\ \A j \in 1 .. i - 1 : stack[t][j].f \in Transparent
    IN  stack[t][i].f

\* A catch clause of the program.
Catch(t) ==
    /\ At(t, "throw") /\ Below(t).f \in UserFrames
    /\ SetStack(t, 1, <<>>)
    /\ UNCHANGED <<program, process, calls, handlerVars>>

\* An unexpected handler may throw in place of the exception that violated
\* the specification; end_catch ends that one.
LeaveUnexpected(t) ==
    /\ At(t, "throw") /\ Below(t).f = "unexpectedHandler" /\ "leave" \in program
    /\ LET n == IF stack[t][3].f = "throw" THEN 3 ELSE 2
       IN  SetStack(t, n, <<Top(t)>>)
    /\ UNCHANGED <<program, process, calls, handlerVars>>

\* report_failure: nothing catches the exception; the stack is still there.
Uncaught(t) ==
    /\ At(t, "throw") /\ Barrier(t) # "nothrow"
    /\ Enter(t, "terminate", 0)
    /\ UNCHANGED calls

\* Mutant: the handler in force when the specification is violated.
MutantCallUnexpected(t) ==
    /\ At(t, "throw") /\ Below(t).f \in UserFrames
    /\ IF Top(t).class = "primary" /\ Top(t).unexpected # Null
       THEN /\ SetStack(t, 0, << [f |-> "unexpectedHandler", ran |-> get_handler(t, "unexpected"),
                                  due |-> Top(t).due] >>)
            /\ UNCHANGED <<program, process, handlerVars>>
       ELSE Enter(t, "unexpected", 0)
    /\ UNCHANGED calls

\* __cxa_call_unexpected, at an exception specification of the program: the
\* handler kept by the exception or, for a dependent exception and when none
\* was kept, std::unexpected().
CallUnexpected(t) ==
    /\ At(t, "throw") /\ Below(t).f \in UserFrames
    /\ IF Top(t).class = "primary" /\ Top(t).unexpected # Null
       THEN /\ SetStack(t, 0, << [f |-> "unexpectedHandler", ran |-> Top(t).unexpected,
                                  due |-> Top(t).due] >>)
            /\ UNCHANGED <<program, process, handlerVars>>
       ELSE Enter(t, "unexpected", 0)
    /\ UNCHANGED calls

\* thread_cleanup. A handler has to return, throw or end the program, so that
\* threads end outside handlers only.
ThreadExit(t) ==
    /\ Calls(t, "exit") /\ t # MainThread /\ Len(stack[t]) = 1
    /\ stack' = [stack EXCEPT ![t] = <<>>]
    /\ info' = [info EXCEPT ![t].state = IF @ = "live" THEN "freed" ELSE @]
    /\ UNCHANGED <<program, process, handler, cache, thread_local_handlers, stale, own>>

HandlerCalls(t) ==
    \/ GetHandler(t)
    \/ \E flag \in BOOLEAN : UseThreadLocalHandlers(t, flag)
    \/ \E kind \in Kinds, fn \in Fns : SetHandler(t, kind, fn)
    \/ \E kind \in Kinds : "setNull" \in program /\ SetHandler(t, kind, Null)
    \/ Terminate(t) \/ Unexpected(t) \/ Throw(t) \/ RethrowPtr(t) \/ ThreadExit(t)

HandlerSteps(t) ==
    \/ DefaultUnexpected(t) \/ HandlerReturns(t)
    \/ Catch(t) \/ LeaveUnexpected(t) \/ Uncaught(t) \/ CallUnexpected(t)

RunsWhatIsDue(t) ==
    \A i \in DOMAIN stack[t] :
        stack[t][i].f \in {"terminateHandler", "unexpectedHandler"} => stack[t][i].ran = stack[t][i].due

OnlyGlobalHandlers == \A t \in Threads : own[t] = NeverSet

\* t alone has set handlers of its own, and no other thread was the first to
\* call one of the functions with a static info.
OnlyUser(t) ==
    /\ \A u \in Threads \ {t} : own[u] = NeverSet
    /\ \A site \in DOMAIN cache : cache[site] \in {Null, t}

\* The handler that runs on a thread is the one in force on it: for
\* terminate() and unexpected() at the call; for an exception specification
\* when the exception that violates it was thrown, whatever other threads have
\* set since, but at the violation when it was thrown from an exception_ptr or
\* no handler was in force. This is so on all threads while no thread has set
\* handlers of its own, and on the only thread that uses them.
RightHandlerRuns == \A t \in Threads : OnlyGlobalHandlers \/ OnlyUser(t) => RunsWhatIsDue(t)

\* The same with handlers that several threads have set for themselves.
ThreadLocalHandlers == \A t \in Threads : RunsWhatIsDue(t)

\* terminate() keeps a pointer to the info of its first caller, but that
\* thread cannot end any more; unexpected(), called by the program or by
\* __cxa_call_unexpected, is only safe while no unexpected handler leaves it
\* by an exception.
NoStaleInfo == OnlyGlobalHandlers /\ "leave" \notin program => ~stale
=============================================================================
