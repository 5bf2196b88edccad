---------------------------- MODULE MCSessionCall ---------------------------
\* Small instances of SessionCall for TLC.
EXTENDS SessionCall, TLC

CallSymmetry == Permutations(Callers) \cup Permutations(Requests)
=============================================================================
