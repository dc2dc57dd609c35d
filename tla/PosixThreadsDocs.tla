-------------------------- MODULE PosixThreadsDocs --------------------------
(***************************************************************************)
(* What posix_shim.h says of a detached thread and posix_shim.c does not   *)
(* do: TLC refutes the property below.                                     *)
(***************************************************************************)
EXTENDS MCPosixThreads

\* pthread_detach: "Marks thread as detached so resources are auto-freed on
\* exit."  A detached descriptor still has a thread that has yet to read the
\* mark, or is reclaiming it: pthread_exit does not pass it by.
DetachedReclaimsItself ==
    \A d \in heap : detached[d] =>
        \E k \in Tcb : /\ status[k] = "ready" /\ param[k] = d
                       /\ pc[k] \notin {"exit_give", "exit_delete"}
=============================================================================
