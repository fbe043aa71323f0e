----------------------------- MODULE NewHandler -----------------------------
(***************************************************************************)
(* operator new of memory.cc, its nothrow form, and the new handler.       *)
(*                                                                         *)
(* Memory is counted in blocks of one size: `avail' is what malloc has     *)
(* left, `reserve' what a handler can still give back to it.  A handler    *)
(* does what the language asks of it: it makes memory available, or it     *)
(* throws, or it removes itself.                                           *)
(***************************************************************************)
EXTENDS Handlers

CONSTANTS Blocks, Reserve \* blocks at first in malloc's hands, and in reserve

VARIABLES new_handl, avail, reserve

newVars == <<new_handl, avail, reserve>>

NewInit ==
    /\ new_handl = Null
    /\ avail = Blocks
    /\ reserve = Reserve

\* The array and the sized forms of new and delete only forward to these.
SetNewHandler(t, fn) ==
    /\ Calls(t, "setNew")
    /\ new_handl' = fn
    /\ UNCHANGED <<program, stack, process, avail, reserve, handlerVars>>

New(t) ==
    /\ Calls(t, "new")
    /\ SetStack(t, 0, << [f |-> "new", pc |-> "malloc"] >>)
    /\ UNCHANGED <<program, process, newVars, handlerVars>>

\* noexcept_new
NewNothrow(t) ==
    /\ Calls(t, "nothrow")
    /\ SetStack(t, 0, << [f |-> "new", pc |-> "malloc"], [f |-> "nothrow"] >>)
    /\ UNCHANGED <<program, process, newVars, handlerVars>>

Delete(t) ==
    /\ Calls(t, "delete") /\ avail + reserve < Blocks + Reserve
    /\ avail' = avail + 1
    /\ UNCHANGED <<program, stack, process, new_handl, reserve, handlerVars>>

AtNew(t, where) == At(t, "new") /\ Top(t).pc = where

\* The frames of operator new and, around it, of the nothrow form.
NewFrames(t) == IF Below(t).f = "nothrow" THEN 2 ELSE 1

MallocSucceeds(t) ==
    /\ AtNew(t, "malloc") /\ avail > 0
    /\ avail' = avail - 1
    /\ SetStack(t, NewFrames(t), <<>>)
    /\ UNCHANGED <<program, process, calls, new_handl, reserve, handlerVars>>

\* Mutant: there is always a handler to call.
MutantMallocFails(t) ==
    /\ AtNew(t, "malloc") /\ avail = 0
    /\ SetStack(t, 1, << [f |-> "new", pc |-> "call"] >>)
    /\ UNCHANGED <<program, process, calls, newVars, handlerVars>>

MallocFails(t) ==
    /\ AtNew(t, "malloc") /\ avail = 0
    /\ SetStack(t, 1, << [f |-> "new", pc |-> "failed"] >>)
    /\ UNCHANGED <<program, process, calls, newVars, handlerVars>>

\* get_new_handler(); another thread may set another one before the call.
LoadHandler(t) ==
    /\ AtNew(t, "failed") /\ new_handl # Null
    /\ SetStack(t, 1, << [f |-> "new", pc |-> "call"] >>)
    /\ UNCHANGED <<program, process, calls, newVars, handlerVars>>

\* throw std::bad_alloc()
BadAlloc(t) ==
    /\ AtNew(t, "failed") /\ new_handl = Null
    /\ Raise(t, "primary")
    /\ UNCHANGED <<calls, newVars>>

CallNewHandler(t) ==
    /\ AtNew(t, "call")
    /\ SetStack(t, 1, << [f |-> "newHandler"], [f |-> "new", pc |-> "malloc"] >>)
    /\ UNCHANGED <<program, process, calls, newVars, handlerVars>>

\* The handler of the program, up to its return to the loop.
NewHandlerReturns(t) ==
    /\ At(t, "newHandler")
    /\ IF reserve > 0
       THEN reserve' = reserve - 1 /\ avail' = avail + 1 /\ UNCHANGED new_handl
       ELSE new_handl' = Null /\ UNCHANGED <<avail, reserve>>
    /\ SetStack(t, 1, <<>>)
    /\ UNCHANGED <<program, process, calls, handlerVars>>

\* catch (...) in noexcept_new: whatever was thrown, nullptr is returned.
NothrowCatches(t) ==
    /\ At(t, "throw") /\ Barrier(t) = "nothrow"
    /\ LET n == CHOOSE i \in DOMAIN stack[t] : stack[t][i].f = "nothrow" /\
                    \A j \in 1 .. i - 1 : stack[t][j].f # "nothrow"
       IN  SetStack(t, n, <<>>)
    /\ UNCHANGED <<program, process, calls, newVars, handlerVars>>

\* The exception leaves operator new, and a new handler before it.
LeaveNew(t) ==
    /\ At(t, "throw") /\ Barrier(t) # "nothrow" /\ Below(t).f \in {"new", "newHandler"}
    /\ SetStack(t, IF Below(t).f = "new" THEN 2 ELSE 3, <<Top(t)>>)
    /\ UNCHANGED <<program, process, calls, newVars, handlerVars>>

NewCalls(t) ==
    \/ \E fn \in Fns \cup {Null} : SetNewHandler(t, fn)
    \/ New(t) \/ NewNothrow(t) \/ Delete(t)

NewSteps(t) ==
    \/ MallocSucceeds(t) \/ MallocFails(t) \/ LoadHandler(t) \/ BadAlloc(t)
    \/ CallNewHandler(t) \/ NewHandlerReturns(t) \/ NothrowCatches(t) \/ LeaveNew(t)

InNew(t) == process = "running" /\ \E i \in DOMAIN stack[t] : stack[t][i].f = "new"

\* Every operator new comes to an end (it returns a block, throws, or the
\* process does): the loop reads the handler again in every round, so that a
\* handler that has nothing left to give can stop it by removing itself, even
\* while another thread takes the memory that was made available, and also when
\* the handler itself allocates.
NewReturns == \A t \in Threads : InNew(t) ~> ~InNew(t)
=============================================================================
