---------------------------- MODULE MCExceptions ----------------------------
EXTENDS Exceptions, TLC

\* Threads, blocks of memory, foreign exceptions and exception_ptr variables
\* are interchangeable; no property tells one from another.
Symmetry ==
    Permutations(Threads) \cup Permutations(Objs) \cup Permutations(ForeignObjs)
        \cup Permutations(Slots)
=============================================================================
