-------------------------- MODULE MCEmergencyPool --------------------------
EXTENDS EmergencyPool, TLC

\* The threads are interchangeable; no property tells them apart.
ThreadSymmetry == Permutations(Threads)
=============================================================================
