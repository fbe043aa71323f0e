---------------------------- MODULE MCCallbacks ----------------------------
EXTENDS Callbacks

\* What a program may use together.
MCPrograms == {
    {"set", "get", "throw", "terminate", "exit"},
    {"set", "throw", "unexpected", "leave", "exit"},
    {"set", "setNull", "throw", "rethrowPtr"},
    {"threadLocal", "set", "setNull", "throw", "exit"},
    {"setNew", "new", "nothrow", "delete", "throw"},
    {"setNew", "new", "set", "exit"},
    {"atexit", "finalize", "new", "throw"},
    {"atexit", "finalize", "exit", "terminate"},
    {"atexit", "finalize", "nested"}}

ThreadLocalPrograms == { {"threadLocal", "set", "terminate"} }
=============================================================================
