----------------------------- MODULE Exceptions -----------------------------
(***************************************************************************)
(* The life of exceptions in exception.cc: allocation, throw, catch,       *)
(* rethrow, exception_ptr and release, in several threads, with the user   *)
(* code (handlers, destructors, constructors of thrown objects) free to    *)
(* call back into the runtime at every point where it runs.                *)
(*                                                                         *)
(* A thread's stack holds the scopes it is in, innermost last:             *)
(*   construct  between __cxa_allocate_exception and the throw (aux =      *)
(*              "throw") or the end of make_exception_ptr (aux = "ptr")    *)
(*   unwind     an exception propagates; aux = "search" until the first    *)
(*              phase of the unwinder has found a handler                  *)
(*   cleanup    a destructor run by the unwinding below it                 *)
(*   catch      between __cxa_begin_catch and __cxa_end_catch              *)
(*   unexpected inside the handler called by __cxa_call_unexpected         *)
(*   destroy    inside exceptionDestructor; aux is the dependent exception *)
(*              that is freed afterwards, or Null                          *)
(* Everything except "unwind" is user code.                                *)
(***************************************************************************)
EXTENDS Integers, Sequences, FiniteSets

CONSTANTS Threads,
          Objs,        \* blocks of memory for C++ exceptions and their headers
          ForeignObjs, \* exceptions of another language's runtime
          Slots,       \* exception_ptr variables of the program
          Null,
          MaxDepth,    \* bound on the length of a stack
          Habits       \* what else the program does, see AllHabits

\* rethrowWhileUnwinding: "throw;" in a destructor run while the handled
\*   exception, rethrown, leaves its handler;
\* useInForeign: C++ catch or current_exception inside a foreign catch;
\* foreignCatch: another language catches a C++ exception (foreignCatchShared:
\*   also one that has exception_ptrs or is still handled);
\* exitInCatch: a thread ends inside handlers without unwinding them
\*   (exitInCatchShared: also when there are exception_ptrs to its exceptions);
\* makePtrThrows: the copy made by make_exception_ptr throws.
AllHabits == {"rethrowWhileUnwinding", "useInForeign", "foreignCatch", "foreignCatchShared",
              "exitInCatch", "exitInCatchShared", "makePtrThrows"}

ASSUME ExceptionsAssumption ==
    /\ IsFiniteSet(Objs) /\ IsFiniteSet(Slots)
    /\ Objs \cap ForeignObjs = {} /\ Null \notin Objs \cup ForeignObjs
    /\ Slots \cap Objs = {}
    /\ MaxDepth \in Nat /\ Habits \subseteq AllHabits

VARIABLES
    header,   \* __cxa_exception or __cxa_dependent_exception of each block
    eh,       \* __cxa_thread_info of each thread: the fields used here
    stack,    \* the scopes each thread is in
    ptr,      \* what each exception_ptr points to
    alive,    \* the threads that have not exited
    program   \* "run", or how it ended: "terminate", "assert", "ub"

vars == <<header, eh, stack, ptr, alive, program>>

Blocks == Objs \cup ForeignObjs

Freed == [class |-> "free", referenceCount |-> 0, handlerCount |-> 0, nextException |-> Null,
          primaryException |-> Null, exceptionType |-> Null, exceptionDestructor |-> FALSE,
          object |-> "none"]

Init ==
    /\ header = [e \in Blocks |-> Freed]
    /\ eh = [t \in Threads |-> [caught |-> Null, uncaught |-> 0, foreign |-> "none"]]
    /\ stack = [t \in Threads |-> <<>>]
    /\ ptr = [s \in Slots |-> Null]
    /\ alive = Threads
    /\ program = "run"

Scope(kind, e, aux) == [kind |-> kind, ex |-> e, aux |-> aux]
Depth(t) == Len(stack[t])
Top(t) == stack[t][Depth(t)]
Under(t) == stack[t][Depth(t) - 1]
Popped(t) == SubSeq(stack[t], 1, Depth(t) - 1)
\* The stack of t with `new' in place of its last n scopes.
Replace(t, n, new) == [stack EXCEPT ![t] = SubSeq(@, 1, Depth(t) - n) \o new]

\* The innermost scope of thread t is of that kind.
In(t, kind) == stack[t] # <<>> /\ Top(t).kind = kind

\* Thread t runs user code. Room bounds how deep it may nest.
UserCode(t) ==
    program = "run" /\ t \in alive /\ ~In(t, "unwind")
Room(t) == Depth(t) < MaxDepth

\* An exception propagates in thread t.
Unwinding(t) ==
    program = "run" /\ t \in alive /\ In(t, "unwind")
-----------------------------------------------------------------------------
(***************************************************************************)
(* Release.                                                                *)
(***************************************************************************)
isDependent(e) == header[e].class = "dependent"
realException(e) == IF isDependent(e) THEN header[e].primaryException ELSE e

\* Mutant: the decrement is lost.
MutantReleasedHeader(e) == header

\* The headers after releaseException(e), up to the destructor call. A
\* primary exception whose count reached 0, and the dependent that held it,
\* are "dying": their memory is freed when the destructor has returned.
ReleasedHeader(e) ==
    LET p == realException(e)
        last == header[p].referenceCount - 1 = 0
    IN  [x \in Blocks |->
            CASE x = p -> [header[p] EXCEPT !.referenceCount = @ - 1,
                                            !.class = IF last THEN "dying" ELSE @]
              [] x = e /\ x # p -> IF last THEN [header[e] EXCEPT !.class = "dying"] ELSE Freed
              [] OTHER -> header[x]]

\* The destructor call that releaseException(e) makes, if any.
ReleaseScopes(e) ==
    LET p == realException(e)
    IN  IF header[p].referenceCount - 1 = 0
        THEN << Scope("destroy", p, IF p = e THEN Null ELSE e) >>
        ELSE << >>

\* __cxa_free_exception: the destructor first, when there is one.
FreeHeader(e) ==
    IF header[e].exceptionDestructor THEN [header EXCEPT ![e].class = "dying"]
    ELSE [header EXCEPT ![e] = Freed]
FreeScopes(e) ==
    IF header[e].exceptionDestructor THEN << Scope("destroy", e, Null) >> ELSE << >>

\* Mutant: the dependent exception is not freed after its primary.
MutantDestructorReturns(t) ==
    /\ UserCode(t) /\ In(t, "destroy")
    /\ header' = [header EXCEPT ![Top(t).ex] = Freed]
    /\ stack' = Replace(t, 1, << >>)
    /\ UNCHANGED <<eh, ptr, alive, program>>

\* The exceptionDestructor returns: free_exception of the block, and of the
\* dependent exception that held the last reference.
DestructorReturns(t) ==
    /\ UserCode(t) /\ In(t, "destroy")
    /\ header' = [x \in Blocks |-> IF x \in {Top(t).ex, Top(t).aux} THEN Freed ELSE header[x]]
    /\ stack' = Replace(t, 1, << >>)
    /\ UNCHANGED <<eh, ptr, alive, program>>
-----------------------------------------------------------------------------
(***************************************************************************)
(* Throwing.                                                               *)
(***************************************************************************)
\* __cxa_init_primary_exception.
InitPrimary(h) == [h EXCEPT !.class = "primary", !.referenceCount = 0, !.exceptionType = "T",
                            !.exceptionDestructor = TRUE]

\* Mutant: the header is initialised, destructor included, before the object.
MutantAllocateException(t, e, aux) ==
    /\ UserCode(t) /\ Room(t)
    /\ header[e].class = "free"
    /\ header' = [header EXCEPT ![e] = InitPrimary([Freed EXCEPT !.class = "raw"])]
    /\ stack' = Replace(t, 0, << Scope("construct", e, aux) >>)
    /\ UNCHANGED <<eh, ptr, alive, program>>

\* __cxa_allocate_exception (zeroed memory) for a throw expression, or for
\* make_exception_ptr, which initialises the header before the object.
AllocateException(t, e, aux) ==
    /\ UserCode(t) /\ Room(t)
    /\ header[e].class = "free"
    /\ LET raw == [Freed EXCEPT !.class = "raw"]
       IN  header' = [header EXCEPT ![e] = IF aux = "throw" THEN raw ELSE InitPrimary(raw)]
    /\ stack' = Replace(t, 0, << Scope("construct", e, aux) >>)
    /\ UNCHANGED <<eh, ptr, alive, program>>

\* Mutant: __cxa_throw leaves the count that init_primary_exception set.
MutantThrow(t) ==
    /\ UserCode(t) /\ In(t, "construct") /\ Top(t).aux = "throw"
    /\ header' = [header EXCEPT ![Top(t).ex] = [InitPrimary(@) EXCEPT !.object = "built"]]
    /\ eh' = [eh EXCEPT ![t].uncaught = @ + 1]
    /\ stack' = Replace(t, 1, << Scope("unwind", Top(t).ex, "search") >>)
    /\ UNCHANGED <<ptr, alive, program>>

\* The object is built: __cxa_throw.
Throw(t) ==
    /\ UserCode(t) /\ In(t, "construct") /\ Top(t).aux = "throw"
    /\ header' = [header EXCEPT ![Top(t).ex] =
                      [InitPrimary(@) EXCEPT !.referenceCount = 1, !.object = "built"]]
    /\ eh' = [eh EXCEPT ![t].uncaught = @ + 1]
    /\ stack' = Replace(t, 1, << Scope("unwind", Top(t).ex, "search") >>)
    /\ UNCHANGED <<ptr, alive, program>>

\* The object is built: make_exception_ptr calls
\* __cxa_increment_exception_refcount for the exception_ptr s it returns.
MakeExceptionPtr(t, s) ==
    /\ UserCode(t) /\ In(t, "construct") /\ Top(t).aux = "ptr"
    /\ ptr[s] = Null
    /\ header' = [header EXCEPT ![Top(t).ex].referenceCount = @ + 1,
                                ![Top(t).ex].object = "built"]
    /\ ptr' = [ptr EXCEPT ![s] = Top(t).ex]
    /\ stack' = Replace(t, 1, << >>)
    /\ UNCHANGED <<eh, alive, program>>

\* __cxa_rethrow_primary_exception with a new dependent exception d. On LP64
\* exceptionFromPointer(thrown_exception), meant for a pointer to the unwind
\* header, lands 32 bytes past the header of the primary, so the "type" it
\* copies is the primary's nextException.
RethrowExceptionPtr(t, s, d) ==
    /\ UserCode(t) /\ Room(t)
    /\ ptr[s] # Null /\ header[d].class = "free"
    /\ LET p == ptr[s]
       IN  header' = [header EXCEPT
              ![p].referenceCount = @ + 1,
              ![d] = [Freed EXCEPT !.class = "dependent", !.primaryException = p,
                                   !.exceptionType = header[p].nextException]]
    /\ eh' = [eh EXCEPT ![t].uncaught = @ + 1]
    /\ stack' = Replace(t, 0, << Scope("unwind", d, "search") >>)
    /\ UNCHANGED <<ptr, alive, program>>

\* Another language's runtime raises an exception through C++ frames.
RaiseForeign(t, f) ==
    /\ UserCode(t) /\ Room(t)
    /\ header[f].class = "free"
    /\ header' = [header EXCEPT ![f].class = "foreign"]
    /\ stack' = Replace(t, 0, << Scope("unwind", f, "search") >>)
    /\ UNCHANGED <<eh, ptr, alive, program>>

Current(t) == eh[t].caught
isForeign(e) == e \in ForeignObjs

\* The handlers t is in, and the exception of the innermost one of some of its
\* scopes: what the program sees, whatever the runtime has recorded of it.
AllHandlers(t) == {i \in 1 .. Depth(t) : stack[t][i].kind \in {"catch", "unexpected"}}
Innermost(t, I) ==
    IF I = {} THEN Null ELSE stack[t][CHOOSE i \in I : \A j \in I : j <= i].ex
Propagates(t, e) == \E i \in 1 .. Depth(t) : stack[t][i].kind = "unwind" /\ stack[t][i].ex = e

\* The program says "throw;" where the exception it handles is not already on
\* its way out of the handler.
MayRethrow(t) ==
    "rethrowWhileUnwinding" \in Habits \/ ~Propagates(t, Innermost(t, AllHandlers(t)))

\* Mutant: uncaughtExceptions is not incremented.
MutantCountRethrow(t) ==
    /\ UserCode(t) /\ Room(t) /\ MayRethrow(t)
    /\ Current(t) # Null /\ eh[t].foreign = "none" /\ ~isForeign(Current(t))
    /\ header[Current(t)].handlerCount > 0
    /\ header' = [header EXCEPT ![Current(t)].handlerCount = -@]
    /\ stack' = Replace(t, 0, << Scope("unwind", Current(t), "search") >>)
    /\ UNCHANGED <<eh, ptr, alive, program>>

\* __cxa_rethrow of what is taken for a C++ exception. A handlerCount that is
\* not positive fails the assertion.
Rethrow(t) ==
    /\ UserCode(t) /\ Room(t) /\ MayRethrow(t)
    /\ Current(t) # Null /\ eh[t].foreign = "none"
    /\ IF isForeign(Current(t))
       THEN program' = "ub" /\ UNCHANGED <<header, eh, stack>>
       ELSE IF header[Current(t)].handlerCount > 0
       THEN /\ header' = [header EXCEPT ![Current(t)].handlerCount = -@]
            /\ eh' = [eh EXCEPT ![t].uncaught = @ + 1]
            /\ stack' = Replace(t, 0, << Scope("unwind", Current(t), "search") >>)
            /\ UNCHANGED program
       ELSE program' = "assert" /\ UNCHANGED <<header, eh, stack>>
    /\ UNCHANGED <<ptr, alive>>

\* __cxa_rethrow of a foreign exception.
RethrowForeign(t) ==
    /\ UserCode(t) /\ Room(t)
    /\ Current(t) # Null /\ eh[t].foreign # "none"
    /\ eh' = [eh EXCEPT ![t].foreign = "rethrown"]
    /\ stack' = Replace(t, 0, << Scope("unwind", Current(t), "search") >>)
    /\ UNCHANGED <<header, ptr, alive, program>>

\* __cxa_rethrow without a current exception.
RethrowNothing(t) ==
    /\ UserCode(t) /\ Current(t) = Null
    /\ program' = "terminate"
    /\ UNCHANGED <<header, eh, stack, ptr, alive>>
-----------------------------------------------------------------------------
(***************************************************************************)
(* Catching.                                                               *)
(***************************************************************************)
\* Mutant: the handler count of a rethrown exception is not made positive.
MutantCaughtHeader(t, e) ==
    [header EXCEPT ![e].nextException = IF header[e].handlerCount = 0 THEN Current(t) ELSE @,
                   ![e].handlerCount = @ + 1]

\* The header after __cxa_begin_catch of the C++ exception e.
CaughtHeader(t, e) ==
    [header EXCEPT ![e].nextException = IF header[e].handlerCount = 0 THEN Current(t) ELSE @,
                   ![e].handlerCount = IF @ < 0 THEN -@ + 1 ELSE @ + 1]

\* The thread info after __cxa_begin_catch of the C++ exception e.
CaughtEh(t, e) ==
    [eh EXCEPT ![t] = [caught   |-> IF header[e].handlerCount = 0 THEN e ELSE @.caught,
                       uncaught |-> @.uncaught - 1,
                       foreign  |-> "none"]]

\* A handler is found and __cxa_begin_catch called, by the catch clause, by
\* __cxa_call_unexpected, or (before terminate) by report_failure.
BeginCatch(t, kind) ==
    /\ Unwinding(t) /\ ~isForeign(Top(t).ex)
    /\ "useInForeign" \in Habits \/ Current(t) = Null \/ ~isForeign(Current(t))
    /\ header' = CaughtHeader(t, Top(t).ex)
    /\ eh' = CaughtEh(t, Top(t).ex)
    /\ stack' = Replace(t, 1, << Scope(kind, Top(t).ex, Null) >>)
    /\ UNCHANGED <<ptr, alive>>

\* Mutant: foreign_exception_state is not set.
MutantBeginCatchForeign(t, kind) ==
    /\ Unwinding(t) /\ isForeign(Top(t).ex)
    /\ IF Current(t) # Null
       THEN program' = "terminate" /\ UNCHANGED <<eh, stack>>
       ELSE /\ eh' = [eh EXCEPT ![t].caught = Top(t).ex]
            /\ stack' = Replace(t, 1, << Scope(kind, Top(t).ex, Null) >>)
            /\ UNCHANGED program
    /\ UNCHANGED <<header, ptr, alive>>

\* The same for a foreign exception: there can only be one.
BeginCatchForeign(t, kind) ==
    /\ Unwinding(t) /\ isForeign(Top(t).ex)
    /\ IF Current(t) # Null
       THEN program' = "terminate" /\ UNCHANGED <<eh, stack>>
       ELSE /\ eh' = [eh EXCEPT ![t].caught = Top(t).ex, ![t].foreign = "caught"]
            /\ stack' = Replace(t, 1, << Scope(kind, Top(t).ex, Null) >>)
            /\ UNCHANGED program
    /\ UNCHANGED <<header, ptr, alive>>

Catch(t) ==
    \E kind \in {"catch", "unexpected"} :
        \/ BeginCatch(t, kind) /\ UNCHANGED program
        \/ BeginCatchForeign(t, kind)

\* The unwinder's first phase finds no handler: report_failure.
RaiseFails(t) ==
    /\ Unwinding(t) /\ Top(t).aux = "search"
    /\ BeginCatch(t, "catch")
    /\ program' = "terminate"

\* The same for a rethrown foreign exception. report_failure looks for its
\* header in the wrong place, and terminates whatever it finds there.
RethrowForeignFails(t) ==
    /\ Unwinding(t) /\ Top(t).aux = "search"
    /\ isForeign(Top(t).ex) /\ eh[t].foreign = "rethrown" /\ Top(t).ex = Current(t)
    /\ program' = "terminate"
    /\ UNCHANGED <<header, eh, stack, ptr, alive>>

\* Mutant: a rethrown exception is deleted with its last handler.
MutantDeleteException(e) == TRUE

\* Whether __cxa_end_catch may delete e.
DeleteException(e) == header[e].handlerCount >= 0

\* Mutant: the count of enclosing handlers is ignored.
MutantHandlersLeft(e) == 0

\* The handler count after __cxa_end_catch.
HandlersLeft(e) ==
    IF header[e].handlerCount < 0 THEN header[e].handlerCount + 1
    ELSE header[e].handlerCount - 1

\* The headers after __cxa_end_catch of a foreign exception: its
\* exception_cleanup is called unless it was rethrown.
EndForeign(t) ==
    IF eh[t].foreign = "rethrown" THEN header ELSE [header EXCEPT ![Current(t)] = Freed]

\* __cxa_end_catch for the handler that is one of the last n scopes; `over' is
\* what stays of them.
EndCatch(t, n, over) ==
    LET e == Current(t)
    IN  IF e = Null
        THEN program' = "assert" /\ UNCHANGED <<header, eh, stack>>
        ELSE IF eh[t].foreign # "none"
        THEN /\ header' = EndForeign(t)
             /\ eh' = [eh EXCEPT ![t].caught = Null, ![t].foreign = "none"]
             /\ stack' = Replace(t, n, over)
             /\ UNCHANGED program
        ELSE IF isForeign(e)   \* its header is taken for a __cxa_exception
        THEN program' = "ub" /\ UNCHANGED <<header, eh, stack>>
        ELSE IF HandlersLeft(e) # 0
        THEN /\ header' = [header EXCEPT ![e].handlerCount = HandlersLeft(e)]
             /\ stack' = Replace(t, n, over)
             /\ UNCHANGED <<eh, program>>
        ELSE /\ header' = LET h == IF DeleteException(e) THEN ReleasedHeader(e) ELSE header
                          IN  [h EXCEPT ![e].handlerCount = 0]
             /\ eh' = [eh EXCEPT ![t].caught = header[e].nextException]
             /\ stack' = Replace(t, n, over \o (IF DeleteException(e) THEN ReleaseScopes(e)
                                                ELSE << >>))
             /\ UNCHANGED program

\* The handler ends.
LeaveCatch(t) ==
    /\ UserCode(t) /\ In(t, "catch")
    /\ EndCatch(t, 1, << >>)
    /\ UNCHANGED <<ptr, alive>>

\* The handler called by __cxa_call_unexpected returns: abort().
UnexpectedReturns(t) ==
    /\ UserCode(t) /\ In(t, "unexpected")
    /\ program' = "terminate"
    /\ UNCHANGED <<header, eh, stack, ptr, alive>>
-----------------------------------------------------------------------------
(***************************************************************************)
(* Unwinding: the landing pads an exception runs on its way.               *)
(***************************************************************************)
Found(t) == [Top(t) EXCEPT !.aux = "found"]

\* A cleanup is entered; _Unwind_Resume is called at its end.
EnterCleanup(t) ==
    /\ Unwinding(t) /\ Room(t)
    /\ stack' = Replace(t, 1, << Found(t), Scope("cleanup", Null, Null) >>)
    /\ UNCHANGED <<header, eh, ptr, alive, program>>

LeaveCleanup(t) ==
    /\ UserCode(t) /\ In(t, "cleanup")
    /\ stack' = Replace(t, 1, << >>)
    /\ UNCHANGED <<header, eh, ptr, alive, program>>

\* The exception leaves a handler: its landing pad calls __cxa_end_catch.
EscapeCatch(t) ==
    /\ Unwinding(t) /\ Depth(t) > 1 /\ Under(t).kind \in {"catch", "unexpected"}
    /\ EndCatch(t, 2, << Found(t) >>)
    /\ UNCHANGED <<ptr, alive>>

\* The constructor of a thrown object throws: __cxa_free_exception.
EscapeConstruct(t) ==
    /\ Unwinding(t) /\ Depth(t) > 1 /\ Under(t).kind = "construct"
    /\ Under(t).aux = "throw" \/ "makePtrThrows" \in Habits
    /\ header' = FreeHeader(Under(t).ex)
    /\ stack' = Replace(t, 2, << Found(t) >> \o FreeScopes(Under(t).ex))
    /\ UNCHANGED <<eh, ptr, alive, program>>

\* A destructor lets an exception out, in a cleanup or under
\* __cxa_free_exception.
EscapeDestructor(t) ==
    /\ Unwinding(t) /\ Depth(t) > 1 /\ Under(t).kind \in {"cleanup", "destroy"}
    /\ program' = "terminate"
    /\ UNCHANGED <<header, eh, stack, ptr, alive>>

\* Something besides its own throw refers to e.
Held(e) ==
    \/ \E s \in Slots : ptr[s] = e
    \/ \E d \in Objs : isDependent(d) /\ header[d].primaryException = e

\* Another language catches the C++ exception and calls its
\* exception_cleanup: exception_cleanup or dependent_exception_cleanup.
\* uncaughtExceptions is not taken back, so MaxDepth bounds it here.
ForeignCatch(t) ==
    LET e == Top(t).ex
    IN  /\ Unwinding(t) /\ ~isForeign(e) /\ eh[t].uncaught <= MaxDepth
        /\ \/ "foreignCatchShared" \in Habits
           \/ "foreignCatch" \in Habits /\ ~Held(e) /\ header[e].handlerCount = 0
        /\ IF isDependent(e)
           THEN header' = ReleasedHeader(e) /\ stack' = Replace(t, 1, ReleaseScopes(e))
           ELSE header' = FreeHeader(e) /\ stack' = Replace(t, 1, FreeScopes(e))
        /\ UNCHANGED <<eh, ptr, alive, program>>
-----------------------------------------------------------------------------
(***************************************************************************)
(* exception_ptr and the end of a thread.                                  *)
(***************************************************************************)
\* std::current_exception: __cxa_current_primary_exception.
CurrentException(t, s) ==
    /\ UserCode(t) /\ ptr[s] = Null /\ Current(t) # Null
    /\ IF isForeign(Current(t))
       THEN /\ "useInForeign" \in Habits
            /\ program' = "ub" /\ UNCHANGED <<header, ptr>>
       ELSE LET p == realException(Current(t))
            IN  /\ header' = [header EXCEPT ![p].referenceCount = @ + 1]
                /\ ptr' = [ptr EXCEPT ![s] = p]
                /\ UNCHANGED program
    /\ UNCHANGED <<eh, stack, alive>>

\* An exception_ptr is copied: __cxa_increment_exception_refcount.
CopyPtr(t, s, s2) ==
    /\ UserCode(t) /\ ptr[s] # Null /\ ptr[s2] = Null
    /\ header' = [header EXCEPT ![ptr[s]].referenceCount = @ + 1]
    /\ ptr' = [ptr EXCEPT ![s2] = ptr[s]]
    /\ UNCHANGED <<eh, stack, alive, program>>

\* An exception_ptr is destroyed: __cxa_decrement_exception_refcount.
DropPtr(t, s) ==
    /\ UserCode(t) /\ Room(t) /\ ptr[s] # Null
    /\ header' = ReleasedHeader(ptr[s])
    /\ stack' = Replace(t, 0, ReleaseScopes(ptr[s]))
    /\ ptr' = [ptr EXCEPT ![s] = Null]
    /\ UNCHANGED <<eh, alive, program>>

\* The exceptions on the list of caught exceptions of thread t: the least set
\* that holds the head and, with an exception of C++, its nextException.
CaughtList(t) ==
    {e \in Blocks : \A S \in SUBSET Blocks :
        /\ Current(t) # Null => Current(t) \in S
        /\ \A x \in S \cap Objs : header[x].nextException # Null => header[x].nextException \in S
        => e \in S}

InHandlersOnly(t) ==
    \A i \in 1 .. Depth(t) : stack[t][i].kind = "catch"

\* thread_cleanup: free_exception_list, or the foreign exception's cleanup.
\* The objects' destructors do not call back into the runtime here.
ThreadExit(t) ==
    /\ program = "run" /\ t \in alive /\ InHandlersOnly(t)
    /\ \/ stack[t] = << >>
       \/ "exitInCatchShared" \in Habits
       \/ /\ "exitInCatch" \in Habits
          /\ \A e \in CaughtList(t) : ~isDependent(e) /\ ~Held(e)
    /\ header' = [x \in Blocks |-> IF x \in CaughtList(t) THEN Freed ELSE header[x]]
    /\ eh' = [eh EXCEPT ![t] = [caught |-> Null, uncaught |-> 0, foreign |-> "none"]]
    /\ stack' = [stack EXCEPT ![t] = << >>]
    /\ alive' = alive \ {t}
    /\ UNCHANGED <<ptr, program>>
-----------------------------------------------------------------------------
ThrowStep(t) ==
    \/ \E e \in Objs : AllocateException(t, e, "throw")
    \/ \E e \in Objs : Slots # {} /\ AllocateException(t, e, "ptr")
    \/ Throw(t)
    \/ \E s \in Slots : MakeExceptionPtr(t, s)
    \/ \E s \in Slots, d \in Objs : RethrowExceptionPtr(t, s, d)
    \/ \E f \in ForeignObjs : RaiseForeign(t, f)
    \/ Rethrow(t)
    \/ RethrowForeign(t)
    \/ RethrowNothing(t)

CatchStep(t) ==
    \/ Catch(t)
    \/ RaiseFails(t)
    \/ RethrowForeignFails(t)
    \/ LeaveCatch(t)
    \/ UnexpectedReturns(t)

UnwindStep(t) ==
    \/ EnterCleanup(t)
    \/ LeaveCleanup(t)
    \/ EscapeCatch(t)
    \/ EscapeConstruct(t)
    \/ EscapeDestructor(t)
    \/ ForeignCatch(t)

PtrStep(t) ==
    \/ \E s \in Slots : CurrentException(t, s)
    \/ \E s, s2 \in Slots : CopyPtr(t, s, s2)
    \/ \E s \in Slots : DropPtr(t, s)

Next ==
    \E t \in Threads :
        ThrowStep(t) \/ CatchStep(t) \/ UnwindStep(t) \/ PtrStep(t)
        \/ DestructorReturns(t) \/ ThreadExit(t)

Spec == Init /\ [][Next]_vars
-----------------------------------------------------------------------------
Scopes(t) == {stack[t][i] : i \in 1 .. Depth(t)}

\* What keeps the primary exception e alive: its own throw, until the last
\* handler ends; the exception_ptrs; and the dependent exceptions.
Thrown(e) ==
    \E t \in Threads : \E f \in Scopes(t) : f.ex = e /\ f.kind \in {"unwind", "catch", "unexpected"}
Holders(e) ==
    (IF Thrown(e) THEN {e} ELSE {})
        \cup {s \in Slots : ptr[s] = e}
        \cup {d \in Objs : isDependent(d) /\ header[d].primaryException = e}

(***************************************************************************)
(* referenceCount is exact: it counts the throw in progress or handled,    *)
(* the exception_ptrs in all threads and the dependent exceptions. It is   *)
(* not 0 for a constructed exception that is not being destroyed, which    *)
(* nothing would ever free.                                                *)
(***************************************************************************)
RefCountExact ==
    \A e \in Objs : header[e].class = "primary" =>
        /\ header[e].referenceCount = Cardinality(Holders(e))
        /\ header[e].object = "built" => header[e].referenceCount > 0

(***************************************************************************)
(* Nothing points to freed or dying memory: not the list of caught         *)
(* exceptions, not an exception in flight or handled, not an exception_ptr *)
(* and not a dependent exception.                                          *)
(***************************************************************************)
NoDangling ==
    /\ \A t \in Threads :
          /\ \A e \in CaughtList(t) : header[e].class \in {"primary", "dependent", "foreign"}
          /\ \A f \in Scopes(t) : f.kind \in {"unwind", "catch", "unexpected"} =>
                header[f.ex].class \in {"primary", "dependent", "foreign"}
    /\ \A s \in Slots : ptr[s] # Null => header[ptr[s]].class = "primary"
    /\ \A d \in Objs : isDependent(d) => header[header[d].primaryException].class = "primary"

(***************************************************************************)
(* A destructor runs on a constructed object: __cxa_free_exception is      *)
(* called for objects whose constructor has returned, or has no            *)
(* destructor to call.                                                     *)
(***************************************************************************)
DestroyOnlyBuilt ==
    \A t \in Threads : \A f \in Scopes(t) :
        f.kind = "destroy" => header[f.ex].object = "built"

\* The scopes of thread t that are handlers of e.
HandlersOf(t, e) ==
    {i \in 1 .. Depth(t) : stack[t][i].kind \in {"catch", "unexpected"} /\ stack[t][i].ex = e}

(***************************************************************************)
(* The list of caught exceptions mirrors the handlers the thread is in:    *)
(* its head is the exception of the innermost one, nextException ("the     *)
(* exception that will be handled after the inner catch block completes")  *)
(* that of the next one outside, and handlerCount, whose sign says that    *)
(* the exception is being rethrown, counts them.                           *)
(***************************************************************************)
CaughtListMatchesHandlers ==
    \A t \in Threads :
        /\ Current(t) = Innermost(t, AllHandlers(t))
        /\ \A e \in CaughtList(t) \cap Objs :
              LET I == HandlersOf(t, e)
                  outside == {j \in AllHandlers(t) : \A i \in I : j < i}
              IN  /\ I # {}
                  /\ header[e].handlerCount =
                        IF Propagates(t, e) THEN -Cardinality(I) ELSE Cardinality(I)
                  /\ header[e].nextException = Innermost(t, outside)

(***************************************************************************)
(* uncaughtExceptions is the number of C++ exceptions of the thread that   *)
(* are in flight, whatever cleanups, rethrows and nested handlers are on   *)
(* the stack.                                                              *)
(***************************************************************************)
UncaughtExact ==
    \A t \in Threads :
        eh[t].uncaught =
            Cardinality({i \in 1 .. Depth(t) :
                            stack[t][i].kind = "unwind" /\ ~isForeign(stack[t][i].ex)})

\* The object of the exception e, and what owns it.
Life(e) ==
    IF header[e].object # "built" THEN "none"
    ELSE CASE header[e].class = "primary" -> "live"
           [] header[e].class = "dying" -> "dying"
           [] OTHER -> "none"
OwnersOf(e) == IF Life(e) = "live" THEN Holders(e) ELSE {}

Ownership == INSTANCE SharedOwnership
                 WITH Objects <- Objs, Owners <- Objs \cup Slots,
                      life <- [e \in Objs |-> Life(e)], owners <- [e \in Objs |-> OwnersOf(e)]

(***************************************************************************)
(* Exceptions are owned jointly by their throw, the exception_ptrs and the *)
(* dependent exceptions of all threads: whatever the reference counting of *)
(* releaseException, __cxa_current_primary_exception and the others does,  *)
(* the destructor of the object is called when the last of them goes, and  *)
(* none of them comes to an object that is being destroyed.                *)
(***************************************************************************)
ImplementsSharedOwnership == Ownership!Spec

(***************************************************************************)
(* When no thread is in any scope and no exception_ptr is left, every      *)
(* exception, primary or dependent, has been freed.                        *)
(***************************************************************************)
NoLeak ==
    (\A t \in Threads : stack[t] = << >>) /\ (\A s \in Slots : ptr[s] = Null)
        => \A e \in Blocks : header[e].class = "free"

(***************************************************************************)
(* __cxa_current_exception_type "returns the type of the current           *)
(* exception", be it primary or dependent.                                 *)
(***************************************************************************)
CurrentTypeIsRight ==
    \A t \in Threads : Current(t) \in Objs => header[Current(t)].exceptionType = "T"

(***************************************************************************)
(* No header of a foreign exception is read as a __cxa_exception by        *)
(* __cxa_rethrow, __cxa_end_catch or current_exception, in programs that   *)
(* do not catch C++ exceptions or call current_exception in a handler of a *)
(* foreign one: foreign_exception_state tells the two kinds apart as long  *)
(* as handlers of both are not nested that way.                            *)
(***************************************************************************)
NoUndefinedBehaviour == program # "ub"

(***************************************************************************)
(* The assertions of __cxa_rethrow (handlerCount is positive) and          *)
(* __cxa_end_catch (there is a current exception) hold in every program    *)
(* that says "throw;" only where the exception it handles is not already   *)
(* in flight: no nesting of handlers, rethrows and cleanups leaves a count *)
(* or a list that fails them.                                              *)
(***************************************************************************)
AssertionsHold == program # "assert"
=============================================================================
