------------------------------ MODULE Program ------------------------------
(***************************************************************************)
(* The program around the callbacks that libcxxrt lets it register: its    *)
(* threads, what they are in the middle of and what they may call.         *)
(*                                                                         *)
(* stack[t] is a sequence of frames, the innermost first; the stack of a   *)
(* thread that has ended is empty.  A frame is a record whose field f says *)
(* what it is: code of the program ("main" and the four kinds of handlers, *)
(* which may call anything), a function of the runtime, or an exception    *)
(* that is being thrown ("throw").                                         *)
(***************************************************************************)
EXTENDS Naturals, Sequences

CONSTANTS Threads,
          MainThread, \* the thread that does not end before the process
          Fns,        \* functions the program registers as handlers
          Null,
          Programs,   \* sets of operations: what a program calls
          MaxCalls    \* bound: calls the program makes

ASSUME ProgramAssumption ==
    /\ MainThread \in Threads
    /\ Null \notin Fns \cup Threads /\ {"default", "unset"} \cap (Fns \cup {Null}) = {}
    /\ MaxCalls \in Nat

VARIABLES program, \* the operations this program uses
          stack,
          process, \* "running", "aborted" or "crashed"
          calls    \* calls made so far

programVars == <<program, stack, process, calls>>

ProgramInit ==
    /\ program \in Programs
    /\ stack = [t \in Threads |-> << [f |-> "main"] >>]
    /\ process = "running"
    /\ calls = 0

HandlerFrames == {"newHandler", "terminateHandler", "unexpectedHandler", "exitHandler"}
UserFrames == {"main"} \cup HandlerFrames

Top(t) == IF stack[t] = <<>> THEN [f |-> "ended"] ELSE Head(stack[t])
Below(t) == IF Len(stack[t]) < 2 THEN [f |-> "ended"] ELSE stack[t][2]

\* A handler that libcxxrt installed itself makes no calls of the program.
IsDefault(frame) == frame.f \in {"terminateHandler", "unexpectedHandler"} /\ frame.ran = "default"

At(t, f) == process = "running" /\ Top(t).f = f

\* Code of the program is running on t and makes a call.
Calls(t, op) ==
    /\ process = "running" /\ op \in program
    /\ Top(t).f \in UserFrames /\ ~IsDefault(Top(t))
    /\ calls < MaxCalls
    /\ calls' = calls + 1

\* The n innermost frames are replaced by `frames'.
SetStack(t, n, frames) == stack' = [stack EXCEPT ![t] = frames \o SubSeq(@, n + 1, Len(@))]
=============================================================================
