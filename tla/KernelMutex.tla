----------------------------- MODULE KernelMutex ----------------------------
(***************************************************************************)
(* The kernel's priority-inheritance mutexes (queue.c, tasks.c) under its  *)
(* single-core priority scheduler, as the POSIX shim's pthread_mutex calls *)
(* and the sys_mutex calls of lwIP's port use them.                        *)
(*                                                                         *)
(* A critical section is one step.  No interrupt handler may give or take  *)
(* a mutex and no task runs while the scheduler is suspended, so the part  *)
(* of a take that runs with it suspended is one step too.  The running     *)
(* task changes only where the code asks for a context switch.  Time is    *)
(* left out: a sleep or a block time ends at any moment.                   *)
(***************************************************************************)
EXTENDS Integers, Sequences, FiniteSets

CONSTANTS
    Task,            \* the tasks besides the idle task
    Idle,            \* the idle task, always ready
    Mutex,
    NULL,
    uxBasePriority,  \* of each task
    Uses,            \* per task: the mutexes it locks, with their block times
    Nests,           \* <<m, n>>: a task that holds m may lock n
    Careless         \* the tasks that unlock mutexes they do not hold

\* Block times: none, some ticks, portMAX_DELAY.
Wait == {"zero", "left", "max"}

ASSUME MutexAssumption ==
    /\ Idle \notin Task /\ NULL \notin Task \cup Mutex
    /\ IsFiniteSet(Mutex)
    /\ uxBasePriority \in [Task -> Nat]
    /\ Uses \in [Task -> SUBSET (Mutex \X Wait)]
    /\ Nests \subseteq Mutex \X Mutex
    /\ Careless \subseteq Task

VARIABLES
    handle,                  \* per mutex: pthread_mutex_t is not 0
    uxMessagesWaiting,       \* per mutex: 1 when it is free
    xMutexHolder,            \* per mutex
    xTasksWaitingToReceive,  \* per mutex: its event list
    uxPriority,              \* per task: its priority now
    uxMutexesHeld,           \* per task
    pxCurrentTCB,            \* the running task
    pc,                      \* per task: next statement of its call
    mutex,                   \* per task: the mutex of its call
    xTicksToWait,            \* per task: what is left of its block time
    xInheritanceOccurred,    \* per task
    owned                    \* per task, history: what it has locked and not unlocked

object == <<handle, uxMessagesWaiting, xMutexHolder, xTasksWaitingToReceive>>
tcb == <<uxPriority, uxMutexesHeld>>
call == <<mutex, xTicksToWait, xInheritanceOccurred>>
vars == <<object, tcb, pxCurrentTCB, pc, call, owned>>

PC == {"run", "take", "block", "expired", "lower", "asleep", "halt"}

TypeOK ==
    /\ handle \in [Mutex -> BOOLEAN]
    /\ uxMessagesWaiting \in [Mutex -> 0..1]
    /\ xMutexHolder \in [Mutex -> Task \cup {NULL}]
    /\ xTasksWaitingToReceive \in [Mutex -> Seq(Task)]
    /\ uxPriority \in [Task -> Nat]
    /\ uxMutexesHeld \in [Task -> Nat]
    /\ pxCurrentTCB \in Task \cup {Idle}
    /\ pc \in [Task -> PC]
    /\ mutex \in [Task -> Mutex \cup {NULL}]
    /\ xTicksToWait \in [Task -> Wait \cup {"over"}]
    /\ xInheritanceOccurred \in [Task -> BOOLEAN]
    /\ owned \in [Task -> SUBSET Mutex]

Init ==
    /\ handle = [m \in Mutex |-> TRUE]
    /\ uxMessagesWaiting = [m \in Mutex |-> 1]
    /\ xMutexHolder = [m \in Mutex |-> NULL]
    /\ xTasksWaitingToReceive = [m \in Mutex |-> << >>]
    /\ uxPriority = uxBasePriority
    /\ uxMutexesHeld = [t \in Task |-> 0]
    /\ pxCurrentTCB = Idle
    /\ pc = [t \in Task |-> "asleep"]
    /\ mutex = [t \in Task |-> NULL]
    /\ xTicksToWait = [t \in Task |-> "zero"]
    /\ xInheritanceOccurred = [t \in Task |-> FALSE]
    /\ owned = [t \in Task |-> {}]

-----------------------------------------------------------------------------
(* The scheduler.                                                          *)

Members(list) == {list[i] : i \in DOMAIN list}

InList(t) == \E m \in Mutex : t \in Members(xTasksWaitingToReceive[m])

Ready == {t \in Task : pc[t] # "asleep" /\ ~InList(t)}

\* The tasks that vTaskSwitchContext may pick: of the highest priority, round
\* robin among equals.
Highest(ready, prio) ==
    IF ready = {} THEN {Idle} ELSE {t \in ready : \A u \in ready : prio[u] <= prio[t]}

vTaskSwitchContext == pxCurrentTCB' \in Highest(Ready', uxPriority')

SwitchIf(required) == IF required THEN vTaskSwitchContext ELSE UNCHANGED pxCurrentTCB

\* xTaskIncrementTick asks for a switch when it makes a task of higher priority
\* ready, or when the running task shares its priority with another ready task.
Preempts(t) == pxCurrentTCB = Idle \/ uxPriority[t] > uxPriority[pxCurrentTCB]
Shared(ready) == \E t, u \in ready : t = pxCurrentTCB /\ u # t /\ uxPriority[u] = uxPriority[t]

At(t, l) == pxCurrentTCB = t /\ pc[t] = l
Goto(t, l) == pc' = [pc EXCEPT ![t] = l]

\* sleep and usleep (vTaskDelay), also in a critical section.
Sleep(t) ==
    /\ At(t, "run")
    /\ Goto(t, "asleep")
    /\ UNCHANGED <<object, tcb, call, owned>>
    /\ vTaskSwitchContext

\* The tick at which a delay, or the block time of a take, is over.
Wake(t) ==
    /\ pc[t] = "asleep"
    /\ Goto(t, "run")
    /\ UNCHANGED <<object, tcb, call, owned>>
    /\ SwitchIf(Preempts(t) \/ Shared(Ready'))

\* uxListRemove, from the event list that holds t, if one does.
Removed(list, t) ==
    LET i == CHOOSE i \in DOMAIN list : list[i] = t
    IN IF t \in Members(list) THEN SubSeq(list, 1, i - 1) \o SubSeq(list, i + 1, Len(list)) ELSE list

BlockTimeOver(t) ==
    /\ xTicksToWait[t] = "left"
    /\ xTicksToWait' = [xTicksToWait EXCEPT ![t] = "over"]
    /\ xTasksWaitingToReceive' = [m \in Mutex |-> Removed(xTasksWaitingToReceive[m], t)]
    /\ UNCHANGED <<handle, uxMessagesWaiting, xMutexHolder, tcb, pc, mutex,
                   xInheritanceOccurred, owned>>
    /\ SwitchIf((InList(t) /\ Preempts(t)) \/ Shared(Ready'))

\* A tick lets ready tasks of the running task's priority share the processor.
TimeSlice ==
    /\ Shared(Ready)
    /\ UNCHANGED <<object, tcb, pc, call, owned>>
    /\ vTaskSwitchContext

-----------------------------------------------------------------------------
(* pthread_mutex_init and pthread_mutex_destroy; the program destroys a    *)
(* mutex that nobody uses.                                                 *)

Unused(m) == xMutexHolder[m] = NULL /\ \A t \in Task : mutex[t] # m

pthread_mutex_init(t, m) ==
    /\ At(t, "run") /\ ~handle[m] /\ \E w \in Wait : <<m, w>> \in Uses[t]
    /\ handle' = [handle EXCEPT ![m] = TRUE]
    /\ uxMessagesWaiting' = [uxMessagesWaiting EXCEPT ![m] = 1]
    /\ UNCHANGED <<xMutexHolder, xTasksWaitingToReceive, tcb, pxCurrentTCB, pc, call, owned>>

pthread_mutex_destroy(t, m) ==
    /\ At(t, "run") /\ handle[m] /\ Unused(m) /\ \E w \in Wait : <<m, w>> \in Uses[t]
    /\ handle' = [handle EXCEPT ![m] = FALSE]
    /\ UNCHANGED <<uxMessagesWaiting, xMutexHolder, xTasksWaitingToReceive, tcb, pxCurrentTCB, pc, call, owned>>

-----------------------------------------------------------------------------
(* pthread_mutex_lock and sys_mutex_lock: xQueueSemaphoreTake.             *)

MayLock(t, m) == \A n \in owned[t] : <<n, m>> \in Nests

pthread_mutex_lock(t, m, w) ==
    /\ At(t, "run") /\ <<m, w>> \in Uses[t] /\ MayLock(t, m) /\ handle[m]
    /\ Goto(t, "take")
    /\ mutex' = [mutex EXCEPT ![t] = m]
    /\ xTicksToWait' = [xTicksToWait EXCEPT ![t] = w]
    /\ xInheritanceOccurred' = [xInheritanceOccurred EXCEPT ![t] = FALSE]
    /\ UNCHANGED <<object, tcb, pxCurrentTCB, owned>>

Return(t) ==
    /\ Goto(t, "run")
    /\ mutex' = [mutex EXCEPT ![t] = NULL]
    /\ xTicksToWait' = [xTicksToWait EXCEPT ![t] = "zero"]
    /\ xInheritanceOccurred' = [xInheritanceOccurred EXCEPT ![t] = FALSE]

\* Fault: the count is not looked at.
TakeUnchecked(t) ==
    /\ At(t, "take")
    /\ uxMessagesWaiting' = [uxMessagesWaiting EXCEPT ![mutex[t]] = @ - 1]
    /\ xMutexHolder' = [xMutexHolder EXCEPT ![mutex[t]] = t]
    /\ uxMutexesHeld' = [uxMutexesHeld EXCEPT ![t] = @ + 1]
    /\ owned' = [owned EXCEPT ![t] = @ \cup {mutex[t]}]
    /\ Return(t)
    /\ UNCHANGED <<handle, xTasksWaitingToReceive, uxPriority, pxCurrentTCB>>

\* Fault: pvTaskIncrementMutexHeldCount does not count.
TakeUncounted(t) ==
    /\ At(t, "take") /\ uxMessagesWaiting[mutex[t]] > 0
    /\ uxMessagesWaiting' = [uxMessagesWaiting EXCEPT ![mutex[t]] = @ - 1]
    /\ xMutexHolder' = [xMutexHolder EXCEPT ![mutex[t]] = t]
    /\ owned' = [owned EXCEPT ![t] = @ \cup {mutex[t]}]
    /\ Return(t)
    /\ UNCHANGED <<handle, xTasksWaitingToReceive, tcb, pxCurrentTCB>>

\* The first critical section.  Nobody waits to give a mutex.
TakeFree(t) ==
    /\ At(t, "take") /\ uxMessagesWaiting[mutex[t]] > 0
    /\ uxMessagesWaiting' = [uxMessagesWaiting EXCEPT ![mutex[t]] = @ - 1]
    /\ xMutexHolder' = [xMutexHolder EXCEPT ![mutex[t]] = t]
    /\ uxMutexesHeld' = [uxMutexesHeld EXCEPT ![t] = @ + 1]
    /\ owned' = [owned EXCEPT ![t] = @ \cup {mutex[t]}]
    /\ Return(t)
    /\ UNCHANGED <<handle, xTasksWaitingToReceive, uxPriority, pxCurrentTCB>>

TakeFail(t) ==
    /\ At(t, "take") /\ uxMessagesWaiting[mutex[t]] = 0 /\ xTicksToWait[t] = "zero"
    /\ Return(t)
    /\ UNCHANGED <<object, tcb, pxCurrentTCB, owned>>

TakeWait(t) ==
    /\ At(t, "take") /\ uxMessagesWaiting[mutex[t]] = 0 /\ xTicksToWait[t] # "zero"
    /\ Goto(t, "block")
    /\ UNCHANGED <<object, tcb, pxCurrentTCB, call, owned>>

\* Fault: the holder keeps its priority.
NoInheritance(h, t) ==
    /\ UNCHANGED uxPriority
    /\ xInheritanceOccurred' = [xInheritanceOccurred EXCEPT ![t] = h # NULL]

\* The holder runs at the priority of the caller, if that is higher.
xTaskPriorityInherit(h, t) ==
    /\ uxPriority' = IF h # NULL /\ uxPriority[h] < uxPriority[t]
                     THEN [uxPriority EXCEPT ![h] = uxPriority[t]] ELSE uxPriority
    /\ xInheritanceOccurred' = [xInheritanceOccurred EXCEPT ![t] =
           /\ h # NULL
           /\ uxPriority[h] < uxPriority[t] \/ uxBasePriority[h] < uxPriority[t]]

\* vListInsert: behind the leading tasks whose priority is not lower.  The item
\* values follow the tasks' priorities, the order of the list does not.
Leading(list, t, prio) ==
    {i \in 0..Len(list) : \A j \in 1..i : prio[list[j]] >= prio[t]}

Inserted(list, t, prio) ==
    LET n == CHOOSE i \in Leading(list, t, prio) : \A j \in Leading(list, t, prio) : j <= i
    IN SubSeq(list, 1, n) \o <<t>> \o SubSeq(list, n + 1, Len(list))

\* Fault: what TakeWait found is believed, and the mutex not looked at again.
BlockWithoutRetest(t) ==
    /\ At(t, "block") /\ xTicksToWait[t] # "over"
    /\ xTaskPriorityInherit(xMutexHolder[mutex[t]], t)
    /\ xTasksWaitingToReceive' = [xTasksWaitingToReceive EXCEPT ![mutex[t]] = Inserted(@, t, uxPriority')]
    /\ Goto(t, "take")
    /\ UNCHANGED <<handle, uxMessagesWaiting, xMutexHolder, uxMutexesHeld, mutex, xTicksToWait, owned>>
    /\ vTaskSwitchContext

\* With the scheduler suspended: the mutex is still taken and there is time left.
Block(t) ==
    /\ At(t, "block") /\ xTicksToWait[t] # "over" /\ uxMessagesWaiting[mutex[t]] = 0
    /\ xTaskPriorityInherit(xMutexHolder[mutex[t]], t)
    /\ xTasksWaitingToReceive' = [xTasksWaitingToReceive EXCEPT ![mutex[t]] = Inserted(@, t, uxPriority')]
    /\ Goto(t, "take")
    /\ UNCHANGED <<handle, uxMessagesWaiting, xMutexHolder, uxMutexesHeld, mutex, xTicksToWait, owned>>
    /\ vTaskSwitchContext

BlockRetry(t) ==
    /\ At(t, "block") /\ xTicksToWait[t] # "over" /\ uxMessagesWaiting[mutex[t]] > 0
    /\ Goto(t, "take")
    /\ UNCHANGED <<object, tcb, pxCurrentTCB, call, owned>>

BlockExpired(t) ==
    /\ At(t, "block") /\ xTicksToWait[t] = "over"
    /\ xTicksToWait' = [xTicksToWait EXCEPT ![t] = "zero"]
    /\ Goto(t, "expired")
    /\ UNCHANGED <<object, tcb, pxCurrentTCB, mutex, xInheritanceOccurred, owned>>

\* After the timeout: one more look, and then the holder's priority.
ExpiredRetry(t) ==
    /\ At(t, "expired") /\ uxMessagesWaiting[mutex[t]] > 0
    /\ Goto(t, "take")
    /\ UNCHANGED <<object, tcb, pxCurrentTCB, call, owned>>

ExpiredFail(t) ==
    /\ At(t, "expired") /\ uxMessagesWaiting[mutex[t]] = 0 /\ ~xInheritanceOccurred[t]
    /\ Return(t)
    /\ UNCHANGED <<object, tcb, pxCurrentTCB, owned>>

ExpiredLower(t) ==
    /\ At(t, "expired") /\ uxMessagesWaiting[mutex[t]] = 0 /\ xInheritanceOccurred[t]
    /\ Goto(t, "lower")
    /\ UNCHANGED <<object, tcb, pxCurrentTCB, call, owned>>

prvGetHighestPriorityOfWaitToReceiveList(m) ==
    IF xTasksWaitingToReceive[m] = << >> THEN 0 ELSE uxPriority[Head(xTasksWaitingToReceive[m])]

\* Fault: the tasks that still wait are forgotten.
PriorityOwn(h, m) == uxBasePriority[h]

\* The priority the holder h of m keeps when a waiting task has timed out.
PriorityToUse(h, m) ==
    IF uxBasePriority[h] < prvGetHighestPriorityOfWaitToReceiveList(m)
    THEN prvGetHighestPriorityOfWaitToReceiveList(m) ELSE uxBasePriority[h]

Lowers(h, m) == h # NULL /\ uxPriority[h] # PriorityToUse(h, m) /\ uxMutexesHeld[h] = 1

\* configASSERT: the holder holds something; it is not the caller.
LowerAsserts(h, t, m) == h # NULL /\ (uxMutexesHeld[h] = 0 \/ (Lowers(h, m) /\ h = t))

vTaskPriorityDisinheritAfterTimeout(t) ==
    LET m == mutex[t]
        h == xMutexHolder[m]
    IN /\ At(t, "lower") /\ ~LowerAsserts(h, t, m)
       /\ uxPriority' = IF Lowers(h, m) THEN [uxPriority EXCEPT ![h] = PriorityToUse(h, m)]
                        ELSE uxPriority
       /\ Return(t)
       /\ UNCHANGED <<object, uxMutexesHeld, pxCurrentTCB, owned>>

-----------------------------------------------------------------------------
(* pthread_mutex_unlock and sys_mutex_unlock: xQueueGenericSend without a  *)
(* block time.                                                             *)

MayUnlock(t, m) == handle[m] /\ (m \in owned[t] \/ t \in Careless)

\* Fault: the count is tested before it is lowered.
DisinheritsLate(t) == uxPriority[t] # uxBasePriority[t] /\ uxMutexesHeld[t] = 0

\* xTaskPriorityDisinherit: only with the last mutex.
Disinherits(t) == uxPriority[t] # uxBasePriority[t] /\ uxMutexesHeld[t] - 1 = 0

xTaskPriorityDisinherit(t) ==
    /\ uxMutexesHeld' = [uxMutexesHeld EXCEPT ![t] = @ - 1]
    /\ uxPriority' = IF Disinherits(t) THEN [uxPriority EXCEPT ![t] = uxBasePriority[t]]
                     ELSE uxPriority

\* Fault: a switch only for a waiting task.
SwitchesForWaiter(t, list) == list # << >> /\ uxPriority'[Head(list)] > uxPriority'[t]

\* A context switch: for a waiting task of higher priority; without one, for
\* a caller whose priority has dropped.
GiveSwitches(t, list) ==
    IF list # << >> THEN uxPriority'[Head(list)] > uxPriority'[t] ELSE Disinherits(t)

\* Fault: the holder stays recorded.
UnlockKeepsHolder(t, m) ==
    /\ At(t, "run") /\ MayUnlock(t, m)
    /\ uxMessagesWaiting[m] = 0 /\ xMutexHolder[m] = t /\ uxMutexesHeld[t] # 0
    /\ xTaskPriorityDisinherit(t)
    /\ uxMessagesWaiting' = [uxMessagesWaiting EXCEPT ![m] = @ + 1]
    /\ xTasksWaitingToReceive' = [xTasksWaitingToReceive EXCEPT ![m] = IF @ = << >> THEN @ ELSE Tail(@)]
    /\ owned' = [owned EXCEPT ![t] = @ \ {m}]
    /\ UNCHANGED <<handle, xMutexHolder, pc, call>>
    /\ SwitchIf(GiveSwitches(t, xTasksWaitingToReceive[m]))

\* Fault: no waiting task is woken.
UnlockWakesNobody(t, m) ==
    /\ At(t, "run") /\ MayUnlock(t, m)
    /\ uxMessagesWaiting[m] = 0 /\ xMutexHolder[m] = t /\ uxMutexesHeld[t] # 0
    /\ xTaskPriorityDisinherit(t)
    /\ xMutexHolder' = [xMutexHolder EXCEPT ![m] = NULL]
    /\ uxMessagesWaiting' = [uxMessagesWaiting EXCEPT ![m] = @ + 1]
    /\ owned' = [owned EXCEPT ![t] = @ \ {m}]
    /\ UNCHANGED <<handle, xTasksWaitingToReceive, pc, call>>
    /\ SwitchIf(Disinherits(t))

pthread_mutex_unlock(t, m) ==
    /\ At(t, "run") /\ MayUnlock(t, m)
    /\ uxMessagesWaiting[m] = 0 /\ xMutexHolder[m] = t /\ uxMutexesHeld[t] # 0
    /\ xTaskPriorityDisinherit(t)
    /\ xMutexHolder' = [xMutexHolder EXCEPT ![m] = NULL]
    /\ uxMessagesWaiting' = [uxMessagesWaiting EXCEPT ![m] = @ + 1]
    /\ xTasksWaitingToReceive' = [xTasksWaitingToReceive EXCEPT ![m] = IF @ = << >> THEN @ ELSE Tail(@)]
    /\ owned' = [owned EXCEPT ![t] = @ \ {m}]
    /\ UNCHANGED <<handle, pc, call>>
    /\ SwitchIf(GiveSwitches(t, xTasksWaitingToReceive[m]))

\* A failed configASSERT: vAssertCalled never returns.  A free mutex is "full":
\* to unlock it returns -1 and changes nothing.
Halt(t) ==
    /\ \/ \E m \in Mutex : /\ At(t, "run") /\ MayUnlock(t, m) /\ uxMessagesWaiting[m] = 0
                           /\ xMutexHolder[m] # t \/ uxMutexesHeld[t] = 0
       \/ At(t, "lower") /\ LowerAsserts(xMutexHolder[mutex[t]], t, mutex[t])
    /\ Goto(t, "halt")
    /\ UNCHANGED <<object, tcb, pxCurrentTCB, call, owned>>

-----------------------------------------------------------------------------

\* A call that has started goes on.
Step(t) ==
    \/ TakeFree(t) \/ TakeFail(t) \/ TakeWait(t)
    \/ Block(t) \/ BlockRetry(t) \/ BlockExpired(t)
    \/ ExpiredRetry(t) \/ ExpiredFail(t) \/ ExpiredLower(t)
    \/ vTaskPriorityDisinheritAfterTimeout(t)

Halted == \E t \in Task : pc[t] = "halt"

Next ==
    /\ ~Halted
    /\ \/ TimeSlice
       \/ \E t \in Task : Step(t) \/ Sleep(t) \/ Wake(t) \/ BlockTimeOver(t) \/ Halt(t)
       \/ \E t \in Task, m \in Mutex :
             \/ pthread_mutex_unlock(t, m)
             \/ pthread_mutex_init(t, m) \/ pthread_mutex_destroy(t, m)
             \/ \E w \in Wait : pthread_mutex_lock(t, m, w)

Spec == Init /\ [][Next]_vars

\* Delays end, the running task goes on with its call, and a mutex whose holder
\* runs again and again is unlocked.
Fairness ==
    /\ \A t \in Task : WF_vars(Wake(t))
    /\ WF_vars(\E t \in Task : Step(t))
    /\ \A m \in Mutex : SF_vars(\E t \in Task : pthread_mutex_unlock(t, m))

FairSpec == Spec /\ Fairness

-----------------------------------------------------------------------------
(* Properties.                                                             *)

\* What the calls have told the tasks is what the kernel has recorded: a mutex
\* has one owner, its holder, and each task's count of mutexes is right.
Exclusive ==
    /\ \A t \in Task : /\ owned[t] = {m \in Mutex : xMutexHolder[m] = t}
                       /\ uxMutexesHeld[t] = Cardinality(owned[t])
    /\ \A m \in Mutex : uxMessagesWaiting[m] = 0 <=> xMutexHolder[m] # NULL

\* No task keeps a priority it has no mutex for, and none runs below its own.
PriorityRestored ==
    \A t \in Task : /\ uxPriority[t] >= uxBasePriority[t]
                    /\ uxMutexesHeld[t] = 0 => uxPriority[t] = uxBasePriority[t]

\* The holder of a mutex never has a lower priority than the base priority of a
\* task that waits for it.
Inherits ==
    \A m \in Mutex, t \in Task :
        t \in Members(xTasksWaitingToReceive[m]) /\ xMutexHolder[m] # NULL
            => uxPriority[xMutexHolder[m]] >= uxBasePriority[t]

\* A free mutex that tasks wait for has been left to one that will try again.
NoLostUnlock ==
    \A m \in Mutex :
        uxMessagesWaiting[m] = 1 /\ xTasksWaitingToReceive[m] # << >>
            => \E t \in Task : mutex[t] = m /\ ~InList(t)

\* The running task is one of the ready tasks of the highest priority.
RunsHighest == pxCurrentTCB \in Highest(Ready, uxPriority)

\* Each call of queue.c takes effect at once: a lock gets a mutex that nobody
\* holds, and gives up only after its time and after finding the mutex held then.
Left(w) == CASE w = "max" -> "ever" [] w = "left" -> "some" [] OTHER -> "none"
AM == INSTANCE AbstractMutex WITH
    exists <- handle, owner <- xMutexHolder, call <- mutex,
    left <- [t \in Task |-> Left(xTicksToWait[t])],
    found <- [t \in Task |-> mutex[t] # NULL /\ pc[t] \in {"lower", "halt"}]
Refines == AM!Spec

\* Who can let a task go on that waits on an event list: the holder of its mutex, or, when the
\* mutex is free, the tasks that are on their way to look at it.
Releases(u, t) ==
    \/ xMutexHolder[mutex[t]] = u
    \/ xMutexHolder[mutex[t]] = NULL /\ mutex[u] = mutex[t] /\ ~InList(u) /\ pc[u] \in {"take", "block", "expired"}

\* No set of tasks waits on event lists for one another only, in a circle of holders, or
\* for a mutex that is free and that nobody is coming to take: somebody outside can
\* always let one of them go on.
NoDeadlock ==
    \A S \in SUBSET Task :
        S # {} /\ (\A t \in S : InList(t)) => \E t \in S, u \in Task \ S : Releases(u, t)

\* No assertion of the kernel fails.
NeverHalts == ~Halted

\* A task whose base priority is above all others gets an answer to its lock
\* call, however long tasks of lower priority keep the processor busy.
Urgent == {t \in Task : \A u \in Task \ {t} : uxBasePriority[u] < uxBasePriority[t]}
UrgentServed == \A t \in Urgent : mutex[t] # NULL ~> mutex[t] = NULL

\* posix_shim.h: pthread_mutex_unlock returns -1 if the lock is not owned.  It
\* returns.
UnlockReturns == ~Halted

\* tasks.c: a context switch occurs when the last mutex is returned whether a
\* task is waiting on it or not, so the caller does not run on below a ready task.
SwitchAfterLastGive ==
    \A t, u \in Task :
        t = pxCurrentTCB /\ uxMutexesHeld[t] = 0 /\ u \in Ready => uxPriority[u] <= uxPriority[t]
-----------------------------------------------------------------------------
(* The inductive invariants of KernelMutexProofs.                          *)

\* Who waits on an event list is in a take of that mutex that is not over, and
\* waits once; the running task waits on none.
ListPart ==
    /\ \A m \in Mutex : \A i \in 1..Len(xTasksWaitingToReceive[m]) :
          LET t == xTasksWaitingToReceive[m][i]
          IN mutex[t] = m /\ pc[t] = "take" /\ xTicksToWait[t] \notin {"zero", "over"}
    /\ \A m \in Mutex : \A i, j \in 1..Len(xTasksWaitingToReceive[m]) :
          xTasksWaitingToReceive[m][i] = xTasksWaitingToReceive[m][j] => i = j
    /\ pxCurrentTCB \in Ready \cup {Idle}

\* A task has a mutex of its call exactly while it is in one, and nobody uses a
\* mutex that does not exist.
CallPart ==
    /\ \A t \in Task : /\ pc[t] \in {"run", "asleep"} => mutex[t] = NULL
                       /\ pc[t] \in {"take", "block", "expired", "lower"} => mutex[t] # NULL
                       /\ pc[t] = "block" => xTicksToWait[t] # "zero"
                       /\ pc[t] \in {"expired", "lower"} => xTicksToWait[t] = "zero"
    /\ \A m \in Mutex : ~handle[m] => xMutexHolder[m] = NULL /\ \A t \in Task : mutex[t] # m

\* NoLostUnlock, with the place where the task is that will look at the mutex again.
WokenPart ==
    \A m \in Mutex :
        uxMessagesWaiting[m] = 1 /\ xTasksWaitingToReceive[m] # << >>
            => \E t \in Task : mutex[t] = m /\ ~InList(t) /\ pc[t] \in {"take", "block", "expired"}

\* Holds of every program, also one that unlocks what it does not own.
IInv == TypeOK /\ ListPart /\ CallPart /\ Exclusive /\ PriorityRestored /\ WokenPart

\* Programs that lock their mutexes in one order, and what they keep besides.
Ordered ==
    \E rank \in [Mutex -> Nat] : \A m, n \in Mutex : <<m, n>> \in Nests => rank[n] < rank[m]
OrderPart == \A t \in Task : mutex[t] # NULL => \A n \in owned[t] : <<n, mutex[t]>> \in Nests

\* Programs that unlock only what they own and lock nothing twice.
Careful == Careless = {} /\ \A m \in Mutex : <<m, m>> \notin Nests

\* What Careful programs keep besides.
CarefulInv == NeverHalts /\ \A t \in Task : mutex[t] \notin owned[t]

\* Programs that hold one mutex at a time and wait for it as pthread_mutex_lock
\* and sys_mutex_lock do, without a time limit.
Flat == Nests = {} /\ \A t \in Task, m \in Mutex : <<m, "left">> \notin Uses[t]

FlatCalls ==
    /\ \A t \in Task : xTicksToWait[t] \in {"zero", "max"} /\ pc[t] \notin {"expired", "lower"}
    /\ \A t \in Task : mutex[t] # NULL => owned[t] = {}
    /\ \A t \in Task : \A m, n \in owned[t] : m = n

\* Event lists are sorted, for who waits has its base priority.
SortedPart ==
    \A m \in Mutex : \A i, j \in 1..Len(xTasksWaitingToReceive[m]) :
        i <= j => uxBasePriority[xTasksWaitingToReceive[m][j]] <= uxBasePriority[xTasksWaitingToReceive[m][i]]

\* A holder above its base priority owes it to a task that still waits.
LentPart ==
    \A m \in Mutex :
        xMutexHolder[m] # NULL /\ uxPriority[xMutexHolder[m]] > uxBasePriority[xMutexHolder[m]]
            => \E i \in 1..Len(xTasksWaitingToReceive[m]) :
                  uxBasePriority[xTasksWaitingToReceive[m][i]] >= uxPriority[xMutexHolder[m]]

\* The task that an unlock has woken is at least as urgent as those that still wait.
FirstPart ==
    \A m \in Mutex :
        uxMessagesWaiting[m] = 1 /\ xTasksWaitingToReceive[m] # << >>
            => \E t \in Task :
                  /\ mutex[t] = m /\ ~InList(t) /\ pc[t] \in {"take", "block"}
                  /\ \A i \in 1..Len(xTasksWaitingToReceive[m]) :
                        uxBasePriority[xTasksWaitingToReceive[m][i]] <= uxBasePriority[t]

FlatInv == FlatCalls /\ SortedPart /\ LentPart /\ FirstPart /\ Inherits /\ RunsHighest
=============================================================================
