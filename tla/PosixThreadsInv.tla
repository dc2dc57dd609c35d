-------------------------- MODULE PosixThreadsInv ---------------------------
(***************************************************************************)
(* The inductive invariant behind the safety properties of PosixThreads:   *)
(* who owns a descriptor at every step of its life.  TLC checks it as an   *)
(* invariant; PosixThreadsProofs proves that it is inductive.              *)
(***************************************************************************)
EXTENDS PosixThreads

\* Task k is a POSIX thread that still needs its descriptor.
Live(k) == param[k] # NoDesc /\ pc[k] # "exit_delete"

\* Only a schedulable task is anywhere in the shim.
IdlePart ==
    \A k \in Tcb :
        /\ status[k] # "ready" => pc[k] = "start" /\ param[k] = NoDesc
        /\ status[k] = "ready" /\ param[k] = NoDesc => pc[k] = "run"

\* vTaskSuspendAll is held exactly across xTaskCreate and add_thread.
SuspendPart ==
    \A k \in Tcb : (suspended = k) <=> pc[k] \in {"create_task", "create_add", "create_resume"}

\* What is not allocated is not named anywhere.
FreePart ==
    \A d \in Desc : d \notin heap =>
        ~InList(d) /\ claim[d] = "private" /\ ~detached[d] /\ join_sem[d] = "deleted"

\* A descriptor under construction belongs to one creator.
CreatePart ==
    /\ \A k \in Tcb : pc[k] \in CreatePC =>
        /\ t[k] \in heap /\ claim[t[k]] = "private" /\ ~detached[t[k]]
        /\ pc[k] # "create_resume" => ~InList(t[k])
        /\ pc[k] = "create_resume" => InList(t[k])
        /\ pc[k] \notin {"create_add", "create_resume"} =>
              \A c \in Tcb : Live(c) => param[c] # t[k]
        /\ pc[k] = "create_add" =>
              xTask[t[k]] \in Tcb /\ param[xTask[t[k]]] = t[k] /\ pc[xTask[t[k]]] = "start"
        /\ pc[k] \in {"create_suspend", "create_task", "create_add", "create_resume", "undo_sem"}
              => join_sem[t[k]] = "empty"
        /\ pc[k] \in {"create_sem", "undo_free"} => join_sem[t[k]] = "deleted"
    /\ \A k, l \in Tcb : pc[k] \in CreatePC /\ pc[l] \in CreatePC /\ t[k] = t[l] => k = l

\* A live thread's descriptor is allocated, names its task, and is claimed
\* by whoever will reclaim it.
LivePart ==
    \A k \in Tcb : Live(k) =>
        /\ param[k] \in heap /\ xTask[param[k]] = k
        /\ InList(param[k]) \/ pc[k] \in {"exit_semdel", "exit_free"}
              \/ (pc[k] = "start" /\ suspended # NoTcb
                    /\ pc[suspended] = "create_add" /\ t[suspended] = param[k])
        /\ pc[k] \in {"exit_semdel", "exit_free"} => ~InList(param[k])
        /\ claim[param[k]] = "private" =>
              pc[k] = "start" /\ suspended # NoTcb /\ t[suspended] = param[k]
        /\ pc[k] \in ExitPC \ {"exit_find"} => t[k] = param[k]
        /\ pc[k] \in {"exit_remove", "exit_semdel", "exit_free"} => detached[param[k]]
        /\ join_sem[param[k]] = IF pc[k] = "exit_free" THEN "deleted" ELSE "empty"

\* The newest descriptor of a task comes first.
OrderPart ==
    \A k \in Tcb : \A i, j \in 1..Len(g_thread_list) :
        Live(k) /\ g_thread_list[j] = param[k] /\ xTask[g_thread_list[i]] = k => j <= i

\* One joiner per descriptor, and past its take the thread is gone.
JoinPart ==
    /\ \A k \in Tcb : pc[k] \in JoinPC =>
        /\ t[k] \in heap /\ claim[t[k]] = "join"
        /\ pc[k] # "join_take" => \A c \in Tcb : Live(c) => param[c] # t[k]
        /\ pc[k] \in {"join_retval", "join_remove", "join_semdel"} => join_sem[t[k]] = "empty"
        /\ pc[k] = "join_take" => join_sem[t[k]] # "deleted"
        /\ pc[k] = "join_free" => join_sem[t[k]] = "deleted"
        /\ pc[k] \in {"join_semdel", "join_free"} => ~InList(t[k])
    /\ \A k, l \in Tcb : pc[k] \in JoinPC /\ pc[l] \in JoinPC /\ t[k] = t[l] => k = l

\* join_sem is given only by a thread that has finished with its descriptor.
GivenPart ==
    \A d \in Desc :
        /\ join_sem[d] = "given" => \A k \in Tcb : Live(k) => param[k] # d
        /\ claim[d] = "open" => join_sem[d] # "deleted"

\* The task that is about to detach d, if there is one.
Detacher(k, d) ==
    \/ pc[k] = "self" /\ param[k] = d
    \/ pc[k] = "detach_set" /\ t[k] = d

\* A descriptor is detached once, by the one task that claimed it for that.
DetachPart ==
    /\ \A d \in Desc : detached[d] => claim[d] = "detach"
    /\ \A k \in Tcb : pc[k] = "detach_set" => t[k] \in heap
    /\ \A k \in Tcb : \A d \in Desc : Detacher(k, d) => claim[d] = "detach" /\ ~detached[d]
    /\ \A k, l \in Tcb : \A d \in Desc : Detacher(k, d) /\ Detacher(l, d) => k = l

\* The exit value on its way from pthread_exit to pthread_join.
ValuePart ==
    /\ \A k \in Tcb : Live(k) =>
        /\ pc[k] \in {"exit_find", "exit_retval"} => val[k] = passed[param[k]]
        /\ pc[k] \in {"exit_check", "exit_give"} => retval[param[k]] = passed[param[k]]
    /\ \A d \in Desc : join_sem[d] = "given" => retval[d] = passed[d]
    /\ \A k \in Tcb : pc[k] = "join_retval" => retval[t[k]] = passed[t[k]]

IInv ==
    /\ TypeOK /\ IdlePart /\ SuspendPart /\ FreePart /\ CreatePart /\ LivePart
    /\ OrderPart /\ JoinPart /\ GivenPart /\ DetachPart /\ ValuePart
    /\ RegistryAllocated /\ RegistryComplete /\ JoinedValue

-----------------------------------------------------------------------------
(* Who reclaims a descriptor that nobody joins, when threads detach only   *)
(* themselves (DetachBy = "self").                                         *)

\* pthread_create is still at work on d in task k.
Creates(k, d) == status[k] = "ready" /\ t[k] = d /\ pc[k] \in CreatePC

\* Thread k frees its own descriptor d: it has detached itself and has not passed
\* the test of pthread_exit, or is about to detach itself.
Reclaims(k, d) ==
    /\ status[k] = "ready" /\ param[k] = d
    /\ \/ detached[d] /\ pc[k] \notin {"exit_give", "exit_delete"}
       \/ pc[k] = "self"
       \/ pc[k] = "detach_set" /\ t[k] = d

LeakPart ==
    \A d \in heap :
        /\ claim[d] = "private" => \E k \in Tcb : Creates(k, d)
        /\ claim[d] = "detach" => \E k \in Tcb : Reclaims(k, d)

-----------------------------------------------------------------------------
(* What the refinement of AbstractThreads needs besides.                   *)

\* A thread has passed a value exactly when it is on its way out, and a handle whose
\* thread has ended has one.
PassedPart ==
    /\ \A d \in Desc : claim[d] = "private" => passed[d] = NoVal
    /\ \A k \in Tcb : Live(k) => (passed[param[k]] # NoVal <=> pc[k] \in ExitPC)
    /\ \A d \in Desc : claim[d] # "private" /\ ~Alive(d) => passed[d] # NoVal

\* The thread of a descriptor that is being handed out has not started.
HandOutPart ==
    \A k \in Tcb : pc[k] = "create_resume" =>
        xTask[t[k]] \in Tcb /\ param[xTask[t[k]]] = t[k] /\ pc[xTask[t[k]]] = "start"

HandlePart == PassedPart /\ HandOutPart
=============================================================================
