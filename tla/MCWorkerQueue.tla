--------------------------- MODULE MCWorkerQueue ---------------------------
EXTENDS WorkerQueue

=============================================================================
