---------------------------- MODULE MCOperations ----------------------------
\* A small instance of Operations for TLC.
EXTENDS Operations

\* Unset, below the default cap, at it, and above it.
MCDurations == {-1, 0, 2, 5}

\* What the client package calls, with OPEN_CONFIRM inside Open and without
\* times to set.
MCCalled == DOMAIN Methods \ {"openConfirm", "SetTimes"}

MCAttempts == {0, 1, 2, 4}
=============================================================================
