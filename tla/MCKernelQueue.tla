--------------------------- MODULE MCKernelQueue ----------------------------
(* Instances of KernelQueue for TLC.                                       *)
EXTENDS KernelQueue, TLC

CONSTANTS t1, t2, t3

\* The mailbox of tcpip_thread (t3): posts of an application thread (t1) and of
\* LWIP_RX (t2), which here also uses the calls lwIP does not make.
MailboxCalls ==
    (t1 :> {sys_mbox_post}) @@ (t2 :> {sys_mbox_trypost, <<"front", 1>>})
    @@ (t3 :> {sys_arch_mbox_fetch(0), sys_arch_mbox_fetch(1), sys_arch_mbox_tryfetch})

\* A semaphore that two tasks wait for and that a task and interrupts give.
SemaphoreCalls ==
    (t1 :> {sem_post}) @@ (t2 :> {sem_wait}) @@ (t3 :> {sys_arch_sem_wait(2)})

\* The priorities of an application thread, LWIP_RX and tcpip_thread.
Priorities == (t1 :> 1) @@ (t2 :> 6) @@ (t3 :> 7)

\* pthread_create gives every thread the same priority.
SharedPriority == [t \in Task |-> 1]

MsgSymmetry == Permutations(Msg)
=============================================================================
