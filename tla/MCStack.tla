------------------------------ MODULE MCStack -------------------------------
EXTENDS Stack, TLC

\* No definition tells one hardware address from another.
MCSymmetry == Permutations(Mac)
=============================================================================
