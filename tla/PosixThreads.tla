---------------------------- MODULE PosixThreads ----------------------------
(***************************************************************************)
(* The thread half of posix_shim.c: pthread_create, pthread_join,          *)
(* pthread_exit, pthread_detach and pthread_self over the FreeRTOS kernel, *)
(* run by preemptively scheduled tasks on one core.                        *)
(*                                                                         *)
(* Both kinds of heap block that have an address the code compares or      *)
(* dereferences are modelled as addresses that are REUSED once freed:      *)
(*   Desc  posix_thread_t descriptors (the pthread_t handles), and         *)
(*   Tcb   FreeRTOS task control blocks (the TaskHandle_t values).         *)
(* A task is named by the address of its TCB, as in the code.  One action  *)
(* is one critical section, one kernel call or one access to a shared      *)
(* field: a context switch can fall between any two of them.               *)
(***************************************************************************)
EXTENDS Naturals, Sequences

CONSTANTS
    Desc,           \* addresses of posix_thread_t blocks
    Tcb,            \* addresses of FreeRTOS task control blocks
    Value,          \* values a thread passes to pthread_exit
    NoDesc, NoTcb,  \* NULL
    NoVal,          \* the NULL that t->retval starts with
    MainDesc,       \* descriptor and TCB of main_posix_app, the thread that
    MainTcb,        \*   main_blinky creates before the scheduler starts
    OnHeapFull,     \* "never": no allocation fails; "halt": a failure ends
                    \*   in vApplicationMallocFailedHook (the configured
                    \*   build); "return": the hook is configured out
    DetachBy        \* "self": only pthread_detach(pthread_self());
                    \*   "any": any thread may detach an unclaimed handle

ASSUME NullAssumption == NoDesc \notin Desc /\ NoTcb \notin Tcb /\ NoVal \notin Value
ASSUME MainAssumption == MainDesc \in Desc /\ MainTcb \in Tcb
ASSUME PolicyAssumption == /\ OnHeapFull \in {"never", "halt", "return"}
                           /\ DetachBy \in {"self", "any"}

VARIABLES
    heap,           \* the descriptors that are allocated
    xTask,          \* posix_thread_t.xTask
    retval,         \* posix_thread_t.retval
    join_sem,       \* posix_thread_t.join_sem: deleted, empty or given
    detached,       \* posix_thread_t.detached
    g_thread_list,  \* the registry, head first
    status,         \* per TCB: unallocated, schedulable, waiting for idle
    param,          \* per TCB: pvParameters of posix_thread_wrapper
    pc,             \* per task: the step of the shim it executes next
    t,              \* per task: the local variable t of the call it is in
    val,            \* per task: argument of pthread_exit, or what join read
    suspended,      \* the task that holds vTaskSuspendAll, or NoTcb
    halted,         \* vApplicationMallocFailedHook has stopped the system
    claim,          \* client history: what was done with the handle
    passed          \* history: the value the thread gave to pthread_exit

dvars == <<heap, xTask, retval, join_sem, detached>>
tvars == <<status, param>>
vars == <<dvars, g_thread_list, tvars, pc, t, val, suspended, halted, claim, passed>>

-----------------------------------------------------------------------------
(* Control points, named for the statement the task executes next.         *)

CreatePC == {"create_sem", "create_suspend", "create_task", "create_add",
             "create_resume", "undo_sem", "undo_free"}
JoinPC   == {"join_take", "join_retval", "join_remove", "join_semdel", "join_free"}
ExitPC   == {"exit_find", "exit_retval", "exit_check", "exit_remove", "exit_semdel",
             "exit_free", "exit_give", "exit_delete"}
PC       == {"start", "run", "self", "detach_set"} \cup CreatePC \cup JoinPC \cup ExitPC

TypeOK ==
    /\ heap \subseteq Desc
    /\ xTask \in [Desc -> Tcb \cup {NoTcb}]
    /\ retval \in [Desc -> Value \cup {NoVal}]
    /\ join_sem \in [Desc -> {"deleted", "empty", "given"}]
    /\ detached \in [Desc -> BOOLEAN]
    /\ g_thread_list \in Seq(Desc)
    /\ status \in [Tcb -> {"free", "ready", "terminated"}]
    /\ param \in [Tcb -> Desc \cup {NoDesc}]
    /\ pc \in [Tcb -> PC]
    /\ t \in [Tcb -> Desc \cup {NoDesc}]
    /\ val \in [Tcb -> Value \cup {NoVal}]
    /\ suspended \in Tcb \cup {NoTcb}
    /\ halted \in BOOLEAN
    /\ claim \in [Desc -> {"private", "open", "join", "detach"}]
    /\ passed \in [Desc -> Value \cup {NoVal}]

\* The scheduler starts with one POSIX thread, created and detached by main_blinky.
Init ==
    /\ heap = {MainDesc}
    /\ xTask = [d \in Desc |-> IF d = MainDesc THEN MainTcb ELSE NoTcb]
    /\ retval = [d \in Desc |-> NoVal]
    /\ join_sem = [d \in Desc |-> IF d = MainDesc THEN "empty" ELSE "deleted"]
    /\ detached = [d \in Desc |-> d = MainDesc]
    /\ g_thread_list = <<MainDesc>>
    /\ status = [k \in Tcb |-> IF k = MainTcb THEN "ready" ELSE "free"]
    /\ param = [k \in Tcb |-> IF k = MainTcb THEN MainDesc ELSE NoDesc]
    /\ pc = [k \in Tcb |-> "start"]
    /\ t = [k \in Tcb |-> NoDesc]
    /\ val = [k \in Tcb |-> NoVal]
    /\ suspended = NoTcb
    /\ halted = FALSE
    /\ claim = [d \in Desc |-> IF d = MainDesc THEN "detach" ELSE "private"]
    /\ passed = [d \in Desc |-> NoVal]

-----------------------------------------------------------------------------
(* The registry.  Each of the three functions is one critical section.     *)

\* Fault: the new descriptor is linked behind the others.
AddAtTail(d) == g_thread_list' = Append(g_thread_list, d)

\* add_thread links the new descriptor in front of the list.
add_thread(d) == g_thread_list' = <<d>> \o g_thread_list

\* d is linked in the registry.
InList(d) == \E i \in 1..Len(g_thread_list) : g_thread_list[i] = d

\* find_thread walks from the head and stops at the first descriptor of task k.
find_thread(k) ==
    LET hit(i) == xTask[g_thread_list[i]] = k
        first  == CHOOSE i \in 1..Len(g_thread_list) :
                      hit(i) /\ \A j \in 1..(i - 1) : ~hit(j)
    IN  IF \E i \in 1..Len(g_thread_list) : hit(i) THEN g_thread_list[first] ELSE NoDesc

\* Fault: the predecessor's link is set to NULL, not to the successor.
UnlinkCuts(s, d) ==
    LET first == CHOOSE i \in 1..Len(s) : s[i] = d /\ \A j \in 1..(i - 1) : s[j] # d
    IN  IF \E i \in 1..Len(s) : s[i] = d THEN SubSeq(s, 1, first - 1) ELSE s

\* remove_thread unlinks the first node equal to d, if there is one.
Unlink(s, d) ==
    LET first == CHOOSE i \in 1..Len(s) : s[i] = d /\ \A j \in 1..(i - 1) : s[j] # d
    IN  IF \E i \in 1..Len(s) : s[i] = d
        THEN [j \in 1..(Len(s) - 1) |-> IF j < first THEN s[j] ELSE s[j + 1]]
        ELSE s
remove_thread(d) == g_thread_list' = Unlink(g_thread_list, d)

-----------------------------------------------------------------------------
(* The scheduler and the heap.                                             *)

\* Task k can be the running task: any schedulable task, unless another one
\* holds the scheduler.  All POSIX threads have one priority and are time-sliced.
Running(k) == ~halted /\ status[k] = "ready" /\ suspended \in {NoTcb, k}

At(k, here) == Running(k) /\ pc[k] = here
Goto(k, here, there) == At(k, here) /\ pc' = [pc EXCEPT ![k] = there]

\* vPortFree(d).  A freed block has no contents: its fields and its history
\* are set to fixed values, which no step reads (NoUseAfterFree).
Free(d) ==
    /\ heap' = heap \ {d}
    /\ xTask' = [xTask EXCEPT ![d] = NoTcb]
    /\ retval' = [retval EXCEPT ![d] = NoVal]
    /\ detached' = [detached EXCEPT ![d] = FALSE]
    /\ claim' = [claim EXCEPT ![d] = "private"]
    /\ passed' = [passed EXCEPT ![d] = NoVal]

vSemaphoreDelete(d) == join_sem' = [join_sem EXCEPT ![d] = "deleted"]

-----------------------------------------------------------------------------
(* pthread_create                                                          *)

\* pvPortMalloc of the descriptor and its initialisation: nobody else can see it yet.
CreateAlloc(k, d) ==
    /\ Goto(k, "run", "create_sem")
    /\ param[k] # NoDesc
    /\ d \notin heap
    /\ heap' = heap \cup {d}
    /\ t' = [t EXCEPT ![k] = d]
    /\ UNCHANGED <<xTask, retval, join_sem, detached, g_thread_list, tvars, val, suspended, halted, claim, passed>>

\* xSemaphoreCreateBinary: the semaphore starts empty.
CreateSem(k) ==
    /\ Goto(k, "create_sem", "create_suspend")
    /\ join_sem' = [join_sem EXCEPT ![t[k]] = "empty"]
    /\ UNCHANGED <<heap, xTask, retval, detached, g_thread_list, tvars, t, val, suspended, halted, claim, passed>>

CreateSuspend(k) ==
    /\ Goto(k, "create_suspend", "create_task")
    /\ suspended' = k
    /\ UNCHANGED <<dvars, g_thread_list, tvars, t, val, halted, claim, passed>>

\* xTaskCreate: the new task is schedulable at once, at an address that no
\* task has now but that an exited thread may have had.
CreateTask(k, c) ==
    /\ At(k, "create_task")
    /\ status[c] = "free"
    /\ status' = [status EXCEPT ![c] = "ready"]
    /\ param' = [param EXCEPT ![c] = t[k]]
    /\ xTask' = [xTask EXCEPT ![t[k]] = c]
    /\ pc' = [pc EXCEPT ![k] = "create_add", ![c] = "start"]
    /\ UNCHANGED <<heap, retval, join_sem, detached, g_thread_list, t, val, suspended, halted, claim, passed>>

CreateAdd(k) ==
    /\ Goto(k, "create_add", "create_resume")
    /\ add_thread(t[k])
    /\ UNCHANGED <<dvars, tvars, t, val, suspended, halted, claim, passed>>

\* *thread = t, then xTaskResumeAll: from here on the client has the handle.
CreateResume(k) ==
    /\ Goto(k, "create_resume", "run")
    /\ claim' = [claim EXCEPT ![t[k]] = "open"]
    /\ t' = [t EXCEPT ![k] = NoDesc]
    /\ suspended' = NoTcb
    /\ UNCHANGED <<dvars, g_thread_list, tvars, val, halted, passed>>

\* An allocation of pthread_create fails (descriptor, semaphore, TCB or stack)
\* and vApplicationMallocFailedHook masks interrupts and loops: nothing runs again.
AllocHalts(k) ==
    /\ OnHeapFull = "halt"
    /\ Running(k) /\ param[k] # NoDesc
    /\ pc[k] \in {"run", "create_sem", "create_task"}
    /\ halted' = TRUE
    /\ UNCHANGED <<dvars, g_thread_list, tvars, pc, t, val, suspended, claim, passed>>

\* Fault: a failed semaphore creation returns without freeing the descriptor.
SemFailForgetsFree(k) ==
    /\ OnHeapFull = "return"
    /\ Goto(k, "create_sem", "run")
    /\ t' = [t EXCEPT ![k] = NoDesc]
    /\ UNCHANGED <<dvars, g_thread_list, tvars, val, suspended, halted, claim, passed>>

\* Without the hook the caller sees NULL and returns -1, undoing what it did.
\* (When the descriptor itself cannot be allocated there is nothing to undo.)
CreateSemFails(k) ==
    /\ OnHeapFull = "return"
    /\ Goto(k, "create_sem", "undo_free")
    /\ UNCHANGED <<dvars, g_thread_list, tvars, t, val, suspended, halted, claim, passed>>

\* Fault: a failed task creation frees the descriptor and not its semaphore.
TaskFailForgetsSem(k) ==
    /\ OnHeapFull = "return"
    /\ Goto(k, "create_task", "undo_free")
    /\ suspended' = NoTcb
    /\ UNCHANGED <<dvars, g_thread_list, tvars, t, val, halted, claim, passed>>

CreateTaskFails(k) ==
    /\ OnHeapFull = "return"
    /\ Goto(k, "create_task", "undo_sem")
    /\ suspended' = NoTcb
    /\ UNCHANGED <<dvars, g_thread_list, tvars, t, val, halted, claim, passed>>

UndoSem(k) ==
    /\ Goto(k, "undo_sem", "undo_free")
    /\ vSemaphoreDelete(t[k])
    /\ UNCHANGED <<heap, xTask, retval, detached, g_thread_list, tvars, t, val, suspended, halted, claim, passed>>

UndoFree(k) ==
    /\ Goto(k, "undo_free", "run")
    /\ Free(t[k])
    /\ t' = [t EXCEPT ![k] = NoDesc]
    /\ UNCHANGED <<join_sem, g_thread_list, tvars, val, suspended, halted>>

-----------------------------------------------------------------------------
(* pthread_join                                                            *)

\* The client joins a thread it has a handle of, once, and not itself.
JoinCall(k, d) ==
    /\ Goto(k, "run", "join_take")
    /\ param[k] \notin {NoDesc, d}
    /\ claim[d] = "open"
    /\ claim' = [claim EXCEPT ![d] = "join"]
    /\ t' = [t EXCEPT ![k] = d]
    /\ UNCHANGED <<dvars, g_thread_list, tvars, val, suspended, halted, passed>>

\* Fault: the take polls with no delay and its result is not looked at.
JoinDoesNotWait(k) ==
    /\ Goto(k, "join_take", "join_retval")
    /\ join_sem' = [join_sem EXCEPT ![t[k]] = "empty"]
    /\ UNCHANGED <<heap, xTask, retval, detached, g_thread_list, tvars, t, val, suspended, halted, claim, passed>>

\* xSemaphoreTake(t->join_sem, portMAX_DELAY): blocks until it is given.
JoinTake(k) ==
    /\ Goto(k, "join_take", "join_retval")
    /\ join_sem[t[k]] = "given"
    /\ join_sem' = [join_sem EXCEPT ![t[k]] = "empty"]
    /\ UNCHANGED <<heap, xTask, retval, detached, g_thread_list, tvars, t, val, suspended, halted, claim, passed>>

JoinRetval(k) ==
    /\ Goto(k, "join_retval", "join_remove")
    /\ val' = [val EXCEPT ![k] = retval[t[k]]]
    /\ UNCHANGED <<dvars, g_thread_list, tvars, t, suspended, halted, claim, passed>>

\* Fault: join frees the descriptor and leaves it in the registry.
JoinForgetsRemove(k) ==
    /\ Goto(k, "join_remove", "join_semdel")
    /\ UNCHANGED <<dvars, g_thread_list, tvars, t, val, suspended, halted, claim, passed>>

JoinRemove(k) ==
    /\ Goto(k, "join_remove", "join_semdel")
    /\ remove_thread(t[k])
    /\ UNCHANGED <<dvars, tvars, t, val, suspended, halted, claim, passed>>

JoinSemDelete(k) ==
    /\ Goto(k, "join_semdel", "join_free")
    /\ vSemaphoreDelete(t[k])
    /\ UNCHANGED <<heap, xTask, retval, detached, g_thread_list, tvars, t, val, suspended, halted, claim, passed>>

JoinFree(k) ==
    /\ Goto(k, "join_free", "run")
    /\ Free(t[k])
    /\ t' = [t EXCEPT ![k] = NoDesc]
    /\ val' = [val EXCEPT ![k] = NoVal]
    /\ UNCHANGED <<join_sem, g_thread_list, tvars, suspended, halted>>

-----------------------------------------------------------------------------
(* pthread_self and pthread_detach                                         *)

\* pthread_detach(h) with a handle from pthread_create: claims the handle.
DetachCall(k, d) ==
    /\ DetachBy = "any"
    /\ Goto(k, "run", "detach_set")
    /\ param[k] # NoDesc
    /\ claim[d] = "open"
    /\ claim' = [claim EXCEPT ![d] = "detach"]
    /\ t' = [t EXCEPT ![k] = d]
    /\ UNCHANGED <<dvars, g_thread_list, tvars, val, suspended, halted, passed>>

\* pthread_detach(pthread_self()): a thread that nobody joins detaches itself.
SelfCall(k) ==
    /\ Goto(k, "run", "self")
    /\ param[k] # NoDesc
    /\ claim[param[k]] = "open"
    /\ claim' = [claim EXCEPT ![param[k]] = "detach"]
    /\ UNCHANGED <<dvars, g_thread_list, tvars, t, val, suspended, halted, passed>>

\* pthread_self: one search of the registry.
pthread_self(k) ==
    /\ Goto(k, "self", "detach_set")
    /\ t' = [t EXCEPT ![k] = find_thread(k)]
    /\ UNCHANGED <<dvars, g_thread_list, tvars, val, suspended, halted, claim, passed>>

\* t->detached = 1, outside any critical section; NULL is rejected.
DetachSet(k) ==
    /\ Goto(k, "detach_set", "run")
    /\ detached' = IF t[k] = NoDesc THEN detached ELSE [detached EXCEPT ![t[k]] = TRUE]
    /\ t' = [t EXCEPT ![k] = NoDesc]
    /\ UNCHANGED <<heap, xTask, retval, join_sem, g_thread_list, tvars, val, suspended, halted, claim, passed>>

-----------------------------------------------------------------------------
(* posix_thread_wrapper and pthread_exit                                   *)

\* posix_thread_wrapper reads start_routine and arg and enters the user's code.
WrapperStart(k) ==
    /\ Goto(k, "start", "run")
    /\ UNCHANGED <<dvars, g_thread_list, tvars, t, val, suspended, halted, claim, passed>>

\* The user's function returns v, or calls pthread_exit(v).
ExitCall(k, v) ==
    /\ Goto(k, "run", "exit_find")
    /\ param[k] # NoDesc
    /\ val' = [val EXCEPT ![k] = v]
    /\ passed' = [passed EXCEPT ![param[k]] = v]
    /\ UNCHANGED <<dvars, g_thread_list, tvars, t, suspended, halted, claim>>

ExitFind(k) ==
    /\ At(k, "exit_find")
    /\ t' = [t EXCEPT ![k] = find_thread(k)]
    /\ pc' = [pc EXCEPT ![k] = IF find_thread(k) = NoDesc THEN "exit_delete" ELSE "exit_retval"]
    /\ UNCHANGED <<dvars, g_thread_list, tvars, val, suspended, halted, claim, passed>>

\* Fault: the exit value is not stored.
ExitDropsRetval(k) ==
    /\ Goto(k, "exit_retval", "exit_check")
    /\ UNCHANGED <<dvars, g_thread_list, tvars, t, val, suspended, halted, claim, passed>>

ExitRetval(k) ==
    /\ Goto(k, "exit_retval", "exit_check")
    /\ retval' = [retval EXCEPT ![t[k]] = val[k]]
    /\ UNCHANGED <<heap, xTask, join_sem, detached, g_thread_list, tvars, t, val, suspended, halted, claim, passed>>

\* The one read of t->detached decides who frees the descriptor.
ExitCheck(k) ==
    /\ At(k, "exit_check")
    /\ pc' = [pc EXCEPT ![k] = IF detached[t[k]] THEN "exit_remove" ELSE "exit_give"]
    /\ UNCHANGED <<dvars, g_thread_list, tvars, t, val, suspended, halted, claim, passed>>

ExitRemove(k) ==
    /\ Goto(k, "exit_remove", "exit_semdel")
    /\ remove_thread(t[k])
    /\ UNCHANGED <<dvars, tvars, t, val, suspended, halted, claim, passed>>

ExitSemDelete(k) ==
    /\ Goto(k, "exit_semdel", "exit_free")
    /\ vSemaphoreDelete(t[k])
    /\ UNCHANGED <<heap, xTask, retval, detached, g_thread_list, tvars, t, val, suspended, halted, claim, passed>>

ExitFree(k) ==
    /\ Goto(k, "exit_free", "exit_delete")
    /\ Free(t[k])
    /\ UNCHANGED <<join_sem, g_thread_list, tvars, t, val, suspended, halted>>

\* Fault: the thread ends without signalling its joiner.
ExitForgetsGive(k) ==
    /\ Goto(k, "exit_give", "exit_delete")
    /\ UNCHANGED <<dvars, g_thread_list, tvars, t, val, suspended, halted, claim, passed>>

\* xSemaphoreGive(t->join_sem): a binary semaphore that is full stays full.
ExitGive(k) ==
    /\ Goto(k, "exit_give", "exit_delete")
    /\ join_sem' = [join_sem EXCEPT ![t[k]] = "given"]
    /\ UNCHANGED <<heap, xTask, retval, detached, g_thread_list, tvars, t, val, suspended, halted, claim, passed>>

\* vTaskDelete(NULL): the task never runs again; idle frees its TCB.
ExitDelete(k) ==
    /\ Goto(k, "exit_delete", "start")
    /\ status' = [status EXCEPT ![k] = "terminated"]
    /\ param' = [param EXCEPT ![k] = NoDesc]
    /\ t' = [t EXCEPT ![k] = NoDesc]
    /\ val' = [val EXCEPT ![k] = NoVal]
    /\ UNCHANGED <<dvars, g_thread_list, suspended, halted, claim, passed>>

-----------------------------------------------------------------------------
(* The rest of the system                                                  *)

\* The idle task frees the TCB of a deleted task: its address can come back.
IdleFree(k) ==
    /\ ~halted /\ suspended = NoTcb
    /\ status[k] = "terminated"
    /\ status' = [status EXCEPT ![k] = "free"]
    /\ UNCHANGED <<dvars, g_thread_list, param, pc, t, val, suspended, halted, claim, passed>>

\* sys_thread_new and low_level_init create tasks that are not POSIX threads
\* (tcpip_thread, LWIP_RX): they take a TCB, never call the shim and never end.
NativeTaskCreate(k, c) ==
    /\ At(k, "run") /\ param[k] # NoDesc
    /\ status[c] = "free"
    /\ status' = [status EXCEPT ![c] = "ready"]
    /\ pc' = [pc EXCEPT ![c] = "run"]
    /\ UNCHANGED <<dvars, g_thread_list, param, t, val, suspended, halted, claim, passed>>

-----------------------------------------------------------------------------

\* What task k does inside the shim, once it has called it.
ShimStep(k) ==
    \/ CreateSem(k) \/ CreateSuspend(k) \/ (\E c \in Tcb : CreateTask(k, c))
    \/ CreateAdd(k) \/ CreateResume(k) \/ CreateSemFails(k) \/ CreateTaskFails(k)
    \/ UndoSem(k) \/ UndoFree(k)
    \/ JoinTake(k) \/ JoinRetval(k) \/ JoinRemove(k) \/ JoinSemDelete(k) \/ JoinFree(k)
    \/ pthread_self(k) \/ DetachSet(k)
    \/ WrapperStart(k) \/ ExitFind(k) \/ ExitRetval(k) \/ ExitCheck(k)
    \/ ExitRemove(k) \/ ExitSemDelete(k) \/ ExitFree(k) \/ ExitGive(k) \/ ExitDelete(k)

\* The calls a thread's own code may make.
ClientCall(k) ==
    \/ \E d \in Desc : CreateAlloc(k, d) \/ JoinCall(k, d) \/ DetachCall(k, d)
    \/ SelfCall(k)
    \/ \E v \in Value : ExitCall(k, v)
    \/ \E c \in Tcb : NativeTaskCreate(k, c)

Next == \E k \in Tcb : ShimStep(k) \/ ClientCall(k) \/ AllocHalts(k) \/ IdleFree(k)

Spec == Init /\ [][Next]_vars

\* Round-robin time slicing among tasks of one priority: a task that is ready
\* again and again runs again and again, although another task's
\* vTaskSuspendAll disables it for moments in between.  Calls are up to the
\* client; the steps inside a call are not.
Fairness == \A k \in Tcb : SF_vars(ShimStep(k))
FairSpec == Spec /\ Fairness

-----------------------------------------------------------------------------
(* Properties                                                              *)

\* The steps at which a task dereferences its local t, and its semaphore.
DerefPC == (CreatePC \ {"create_resume"}) \cup JoinPC \cup
           {"exit_retval", "exit_check", "exit_remove", "exit_semdel", "exit_free", "exit_give"}
SemPC   == {"join_take", "join_semdel", "exit_give", "exit_semdel", "undo_sem"}

\* A task inside the shim never touches a descriptor or a join semaphore that
\* was freed, and so never frees one twice: pthread_exit does not touch t
\* after xSemaphoreGive, and no two tasks reclaim one descriptor.
NoUseAfterFree ==
    \A k \in Tcb : status[k] = "ready" =>
        /\ pc[k] \in DerefPC => t[k] \in heap
        /\ pc[k] = "detach_set" /\ t[k] # NoDesc => t[k] \in heap
        /\ pc[k] = "start" => param[k] \in heap
        /\ pc[k] \in SemPC => join_sem[t[k]] # "deleted"

\* A POSIX thread that searches the registry for its own task finds its own
\* descriptor: never NULL, because pthread_create holds the scheduler until
\* the descriptor is linked, and never the descriptor of an exited thread
\* whose TCB address it inherited, because add_thread links in front.
SelfIdentifies ==
    \A k \in Tcb : Running(k) /\ param[k] # NoDesc
                   /\ pc[k] \notin {"exit_semdel", "exit_free", "exit_delete"}
                   => find_thread(k) = param[k]

\* A descriptor in the registry is allocated, and occurs there once: the
\* list never links to freed memory.
RegistryAllocated ==
    /\ \A i \in 1..Len(g_thread_list) : g_thread_list[i] \in heap
    /\ \A i, j \in 1..Len(g_thread_list) : g_thread_list[i] = g_thread_list[j] => i = j

\* pthread_join hands over exactly the value the joined thread passed to
\* pthread_exit: it is stored before join_sem is given.
JoinedValue ==
    \A k \in Tcb : pc[k] \in {"join_remove", "join_semdel", "join_free"}
                   => val[k] = passed[t[k]]

\* d's thread has not finished with its descriptor.
Alive(d) == \E k \in Tcb : param[k] = d /\ pc[k] # "exit_delete"

\* The calls keep what AbstractThreads promises of them: a join waits for the end of its
\* thread and takes its value, once, and no handle comes back before.
AT == INSTANCE AbstractThreads WITH
    Handle <- Desc, Task <- Tcb, NoHandle <- NoDesc, NoValue <- NoVal, Main <- MainDesc,
    thread <- [d \in Desc |-> IF claim[d] = "private" THEN "none" ELSE IF Alive(d) THEN "live" ELSE "ended"],
    value <- passed,
    use <- [d \in Desc |-> IF claim[d] = "private" THEN "none" ELSE claim[d]],
    joins <- [k \in Tcb |-> IF pc[k] \in JoinPC THEN t[k] ELSE NoDesc],
    got <- [k \in Tcb |-> IF pc[k] \in {"join_remove", "join_semdel", "join_free"} THEN val[k] ELSE NoVal]
Refines == AT!Spec

\* Some task will still reclaim d, or the client still can.
Owned(d) ==
    \/ claim[d] \in {"open", "join"}
    \/ \E k \in Tcb : status[k] = "ready" /\
         \/ t[k] = d /\ pc[k] \in CreatePC
         \/ param[k] = d /\ pc[k] \notin {"exit_give", "exit_delete"}

\* No descriptor is lost: not by a failed pthread_create, which takes back
\* what it allocated, and not by a detached thread, which frees its own.
NoLeak == halted \/ \A d \in heap : Owned(d)

\* Every allocated descriptor that is past pthread_create and not yet being
\* reclaimed can be found in the registry.
RegistryComplete ==
    \A d \in heap : claim[d] # "private" =>
        \/ InList(d)
        \/ \E k \in Tcb : t[k] = d /\ pc[k] \in {"join_semdel", "join_free", "exit_semdel", "exit_free"}

\* d's thread has called pthread_exit, or is gone.
Exiting(d) == \A k \in Tcb : status[k] = "ready" /\ param[k] = d => pc[k] \in ExitPC

\* A pthread_join returns once its thread has called pthread_exit.
JoinReturns ==
    \A k \in Tcb : (pc[k] = "join_take" /\ Exiting(t[k])) ~> (pc[k] = "run")

=============================================================================
