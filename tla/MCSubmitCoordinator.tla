------------------------ MODULE MCSubmitCoordinator ------------------------
\* Three calls in any order, one of which may fail.
EXTENDS SubmitCoordinator
=============================================================================
