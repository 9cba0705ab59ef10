---------------------------- MODULE MCEventLoop -----------------------------
EXTENDS EventLoop, TLC
\* Events of one type are interchangeable.
MCSymmetry == Permutations(Fd) \cup Permutations(Time) \cup Permutations(Always)
=============================================================================
