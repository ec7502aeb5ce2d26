------------------------- MODULE MCRecoveryCoordinator -------------------------
\* Instances of RecoveryCoordinator for TLC.
EXTENDS RecoveryCoordinator

\* The first request is that of the start, the others carry work over.
LaterOnes == Requests \ {1}
================================================================================
