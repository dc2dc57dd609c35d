--------------------------- MODULE MCPosixThreads ---------------------------
(* Small instances of PosixThreads for TLC.                                *)
EXTENDS PosixThreadsInv, TLC

\* Descriptors and TCBs other than the main thread's, and exit values, are interchangeable.
Symmetry == Permutations(Desc \ {MainDesc}) \cup Permutations(Tcb \ {MainTcb})
              \cup Permutations(Value)
=============================================================================
