---------------------------- MODULE KernelQueue -----------------------------
(***************************************************************************)
(* One queue of the kernel (queue.c) and the calls tasks and interrupt     *)
(* handlers make on it: xQueueGenericSend, xQueueReceive (which for an     *)
(* item size of zero is xQueueSemaphoreTake without mutexes) and their     *)
(* FromISR versions.  lwIP's mailboxes and semaphores (sys_arch.c) and the *)
(* POSIX semaphores (posix_shim.c) are such queues.                        *)
(*                                                                         *)
(* A critical section is one step.  Any ready task may take the next step, *)
(* unless a task has suspended the scheduler: then only that task and the  *)
(* interrupt handlers run.  A task that has entered itself in an event     *)
(* list goes on until it resumes the scheduler.  A task that is taken off  *)
(* an event list meanwhile sits in xPendingReadyList until then, which     *)
(* makes no difference here: no other task runs before.  Times are counted *)
(* as ticks elapsed; KernelTick has the tick counter itself.               *)
(***************************************************************************)
EXTENDS Integers, Sequences, FiniteSets

CONSTANTS
    Task,           \* the tasks that use the queue
    NoTask,
    Msg,            \* the items
    uxLength,       \* capacity
    Semaphore,      \* uxItemSize = 0: nothing is copied
    Priority,       \* priority of each task
    NumberOfTasks,  \* uxTaskGetNumberOfTasks()
    Calls,          \* the calls each task makes
    IsrCalls,       \* the calls interrupt handlers make
    MaxDelay,       \* portMAX_DELAY
    MaxPended       \* bound on the ticks that pend while the scheduler is suspended

Sends == {"back", "front", "overwrite"}

ASSUME QueueAssumption ==
    /\ NoTask \notin Task /\ IsFiniteSet(Task) /\ Cardinality(Task) <= NumberOfTasks
    /\ Msg # {}
    /\ uxLength \in Nat \ {0}
    /\ Semaphore \in BOOLEAN
    /\ Semaphore => \E m \in Msg : Msg = {m}
    /\ Priority \in [Task -> Nat]
    /\ NumberOfTasks \in Nat
    /\ MaxDelay \in Nat \ {0} /\ MaxPended \in Nat
    /\ Calls \in [Task -> SUBSET ((Sends \cup {"receive"}) \X (0..MaxDelay))]
    /\ IsrCalls \subseteq Sends \cup {"receive"}
    /\ (\E t \in Task, w \in 0..MaxDelay : <<"overwrite", w>> \in Calls[t]) \/ "overwrite" \in IsrCalls
          => uxLength = 1 /\ ~Semaphore

VARIABLES
    buf,                     \* the storage area, by item
    pcWriteTo, pcReadFrom,   \* positions in it: next to write, last read
    uxMessagesWaiting,
    cTxLock, cRxLock,        \* -1 is queueUNLOCKED
    xTasksWaitingToSend, xTasksWaitingToReceive,
    owner,                   \* the task that has suspended the scheduler
    xPendedTicks,
    pc,                      \* per task: next statement of its call
    op, item, wait,          \* per task: the call, its buffer and its block time
    xTicksToWait,            \* per task: block time left
    xEntryTimeSet,           \* per task: xTimeOut is set
    elapsed,                 \* per task: ticks since xTimeOut was set
    waited, result           \* per task, history: ticks since the call, its result

storage == <<buf, pcWriteTo, pcReadFrom, uxMessagesWaiting>>
locks == <<cTxLock, cRxLock>>
lists == <<xTasksWaitingToSend, xTasksWaitingToReceive>>
sched == <<owner, xPendedTicks>>
caller == <<op, item, wait, waited, result>>
timeout == <<xTicksToWait, xEntryTimeSet, elapsed>>
vars == <<storage, locks, lists, sched, pc, caller, timeout>>

PC == {"idle", "enter", "suspend", "lock", "test", "place", "unlock_tx", "unlock_rx", "resume", "expired"}
Owned == {"lock", "test", "place", "unlock_tx", "unlock_rx", "resume"}

TypeOK ==
    /\ buf \in [0..(uxLength - 1) -> Msg]
    /\ pcWriteTo \in 0..(uxLength - 1) /\ pcReadFrom \in 0..(uxLength - 1)
    /\ uxMessagesWaiting \in 0..uxLength
    /\ cTxLock \in -1..NumberOfTasks /\ cRxLock \in -1..NumberOfTasks
    /\ xTasksWaitingToSend \in Seq(Task) /\ xTasksWaitingToReceive \in Seq(Task)
    /\ owner \in Task \cup {NoTask} /\ xPendedTicks \in 0..MaxPended
    /\ pc \in [Task -> PC]
    /\ op \in [Task -> Sends \cup {"receive", "none"}]
    /\ item \in [Task -> Msg]
    /\ wait \in [Task -> 0..MaxDelay] /\ xTicksToWait \in [Task -> 0..MaxDelay]
    /\ xEntryTimeSet \in [Task -> BOOLEAN]
    /\ elapsed \in [Task -> 0..MaxDelay] /\ waited \in [Task -> 0..MaxDelay]
    /\ result \in [Task -> {"none", "pass", "fail"}]

\* A new queue is empty (xQueueGenericReset); a semaphore starts with any count
\* (xQueueCreateCountingSemaphore).
Init ==
    /\ buf \in [0..(uxLength - 1) -> Msg] /\ \A i, j \in 0..(uxLength - 1) : buf[i] = buf[j]
    /\ pcWriteTo = 0 /\ pcReadFrom = uxLength - 1
    /\ uxMessagesWaiting \in (IF Semaphore THEN 0..uxLength ELSE {0})
    /\ cTxLock = -1 /\ cRxLock = -1
    /\ xTasksWaitingToSend = << >> /\ xTasksWaitingToReceive = << >>
    /\ owner = NoTask /\ xPendedTicks = 0
    /\ pc = [t \in Task |-> "idle"]
    /\ op = [t \in Task |-> "none"]
    /\ item \in [Task -> Msg] /\ \A t, u \in Task : item[t] = item[u]
    /\ wait = [t \in Task |-> 0] /\ xTicksToWait = [t \in Task |-> 0]
    /\ xEntryTimeSet = [t \in Task |-> FALSE]
    /\ elapsed = [t \in Task |-> 0] /\ waited = [t \in Task |-> 0]
    /\ result = [t \in Task |-> "none"]

-----------------------------------------------------------------------------
(* The calls of lwIP's port (sys_arch.c) and of the POSIX semaphores: a    *)
(* copy position, or "receive", and a block time in ticks.                 *)

configTICK_RATE_HZ == 1000
pdMS_TO_TICKS(ms) == (ms * configTICK_RATE_HZ) \div 1000

sys_mbox_post == <<"back", MaxDelay>>
sys_mbox_trypost == <<"back", 0>>
sys_arch_mbox_fetch(ms) ==
    <<"receive", IF ms = 0 THEN MaxDelay ELSE IF pdMS_TO_TICKS(ms) = 0 THEN 1 ELSE pdMS_TO_TICKS(ms)>>
sys_arch_mbox_tryfetch == <<"receive", 0>>

sem_wait == <<"receive", MaxDelay>>
sem_post == <<"back", 0>>
sys_arch_sem_wait(ms) ==
    <<"receive", IF ms = 0 THEN MaxDelay ELSE IF pdMS_TO_TICKS(ms) = 0 THEN 1 ELSE pdMS_TO_TICKS(ms)>>

-----------------------------------------------------------------------------
(* The storage area and the event lists.                                   *)

\* Fault: the position wraps one item late.
FollowingLate(p) == IF p + 1 > uxLength THEN 0 ELSE p + 1

Following(p) == IF p + 1 >= uxLength THEN 0 ELSE p + 1
Preceding(p) == IF p - 1 < 0 THEN uxLength - 1 ELSE p - 1

HasRoom(o) == uxMessagesWaiting < uxLength \/ o = "overwrite"

\* Fault: the read position steps back before an item is put in front.
FrontStepsFirst(o, m) ==
    /\ uxMessagesWaiting' = uxMessagesWaiting + 1
    /\ IF Semaphore THEN UNCHANGED <<buf, pcWriteTo, pcReadFrom>>
       ELSE IF o = "back"
       THEN /\ buf' = [buf EXCEPT ![pcWriteTo] = m]
            /\ pcWriteTo' = Following(pcWriteTo)
            /\ UNCHANGED pcReadFrom
       ELSE /\ buf' = [buf EXCEPT ![Preceding(pcReadFrom)] = m]
            /\ pcReadFrom' = Preceding(pcReadFrom)
            /\ UNCHANGED pcWriteTo

\* The item goes behind the last one, or to the place read last; an overwrite
\* replaces the item that is there and does not count it twice.
prvCopyDataToQueue(o, m) ==
    /\ uxMessagesWaiting' = (IF ~Semaphore /\ o = "overwrite" /\ uxMessagesWaiting > 0
                             THEN uxMessagesWaiting - 1 ELSE uxMessagesWaiting) + 1
    /\ IF Semaphore THEN UNCHANGED <<buf, pcWriteTo, pcReadFrom>>
       ELSE IF o = "back"
       THEN /\ buf' = [buf EXCEPT ![pcWriteTo] = m]
            /\ pcWriteTo' = Following(pcWriteTo)
            /\ UNCHANGED pcReadFrom
       ELSE /\ buf' = [buf EXCEPT ![pcReadFrom] = m]
            /\ pcReadFrom' = Preceding(pcReadFrom)
            /\ UNCHANGED pcWriteTo

FirstItem == IF Semaphore THEN buf[pcReadFrom] ELSE buf[Following(pcReadFrom)]

prvCopyDataFromQueue ==
    /\ pcReadFrom' = IF Semaphore THEN pcReadFrom ELSE Following(pcReadFrom)
    /\ uxMessagesWaiting' = uxMessagesWaiting - 1
    /\ UNCHANGED <<buf, pcWriteTo>>

Members(list) == {list[i] : i \in DOMAIN list}

\* vListInsert: by priority, behind the tasks of the same priority.
Inserted(list, t) ==
    LET n == Cardinality({i \in DOMAIN list : Priority[list[i]] >= Priority[t]})
    IN SubSeq(list, 1, n) \o <<t>> \o SubSeq(list, n + 1, Len(list))

\* The list after xTaskRemoveFromEventList has been called for up to n tasks of it.
Woken(list, n) == SubSeq(list, n + 1, Len(list))

InList(t) == t \in Members(xTasksWaitingToSend) \cup Members(xTasksWaitingToReceive)

Runs(t) == IF owner = NoTask THEN ~InList(t) ELSE owner = t

\* Fault: the lock count has no limit.
CountedPast(lock) == lock + 1

\* prvIncrementQueueTxLock and prvIncrementQueueRxLock.
Counted(lock) == IF lock < NumberOfTasks THEN lock + 1 ELSE lock

\* Fault: no receiver is woken.
WakesNobody == UNCHANGED <<lists, locks>>

\* Fault: a sender is woken only when the queue was full.
UnblockSenderIfFull ==
    /\ xTasksWaitingToSend' = Woken(xTasksWaitingToSend, IF uxMessagesWaiting = uxLength THEN 1 ELSE 0)
    /\ UNCHANGED <<xTasksWaitingToReceive, locks>>

\* One item more: a waiting receiver is woken.  One less: a waiting sender.
UnblockReceiver ==
    /\ xTasksWaitingToReceive' = Woken(xTasksWaitingToReceive, 1)
    /\ UNCHANGED <<xTasksWaitingToSend, locks>>

UnblockSender ==
    /\ xTasksWaitingToSend' = Woken(xTasksWaitingToSend, 1)
    /\ UNCHANGED <<xTasksWaitingToReceive, locks>>

-----------------------------------------------------------------------------
(* xQueueGenericSend and xQueueReceive.                                    *)

Call(t, o, w, m) ==
    /\ pc[t] = "idle" /\ Runs(t) /\ <<o, w>> \in Calls[t]
    /\ pc' = [pc EXCEPT ![t] = "enter"]
    /\ op' = [op EXCEPT ![t] = o] /\ wait' = [wait EXCEPT ![t] = w]
    /\ item' = [item EXCEPT ![t] = m]
    /\ waited' = [waited EXCEPT ![t] = 0] /\ result' = [result EXCEPT ![t] = "none"]
    /\ xTicksToWait' = [xTicksToWait EXCEPT ![t] = w]
    /\ xEntryTimeSet' = [xEntryTimeSet EXCEPT ![t] = FALSE]
    /\ elapsed' = [elapsed EXCEPT ![t] = 0]
    /\ UNCHANGED <<storage, locks, lists, sched>>

Return(t, r) ==
    /\ pc' = [pc EXCEPT ![t] = "idle"]
    /\ op' = [op EXCEPT ![t] = "none"] /\ result' = [result EXCEPT ![t] = r]
    /\ xTicksToWait' = [xTicksToWait EXCEPT ![t] = 0]
    /\ xEntryTimeSet' = [xEntryTimeSet EXCEPT ![t] = FALSE]
    /\ elapsed' = [elapsed EXCEPT ![t] = 0]
    /\ wait' = [wait EXCEPT ![t] = 0] /\ waited' = [waited EXCEPT ![t] = 0]

At(t, l) == pc[t] = l /\ Runs(t)
Goto(t, l) == pc' = [pc EXCEPT ![t] = l]

\* Whether the call of t has to wait: a send on a full queue, a receive on an empty one.
Blocked(t) == IF op[t] = "receive" THEN uxMessagesWaiting = 0 ELSE ~HasRoom(op[t])

\* The first critical section.
EnterSend(t) ==
    /\ At(t, "enter") /\ op[t] \in Sends /\ ~Blocked(t)
    /\ prvCopyDataToQueue(op[t], item[t])
    /\ UnblockReceiver
    /\ Return(t, "pass") /\ UNCHANGED <<sched, item>>

EnterReceive(t) ==
    /\ At(t, "enter") /\ op[t] = "receive" /\ ~Blocked(t)
    /\ item' = [item EXCEPT ![t] = FirstItem]
    /\ prvCopyDataFromQueue
    /\ UnblockSender
    /\ Return(t, "pass") /\ UNCHANGED sched

EnterFail(t) ==
    /\ At(t, "enter") /\ Blocked(t) /\ xTicksToWait[t] = 0
    /\ Return(t, "fail") /\ UNCHANGED <<storage, locks, lists, sched, item>>

EnterWait(t) ==
    /\ At(t, "enter") /\ Blocked(t) /\ xTicksToWait[t] # 0
    /\ xEntryTimeSet' = [xEntryTimeSet EXCEPT ![t] = TRUE]
    /\ elapsed' = [elapsed EXCEPT ![t] = IF xEntryTimeSet[t] THEN @ ELSE 0]
    /\ Goto(t, "suspend")
    /\ UNCHANGED <<storage, locks, lists, sched, caller, xTicksToWait>>

vTaskSuspendAll(t) ==
    /\ At(t, "suspend")
    /\ owner' = t /\ Goto(t, "lock")
    /\ UNCHANGED <<storage, locks, lists, xPendedTicks, caller, timeout>>

\* What xTaskCheckForTimeOut leaves of the block time, and of the time elapsed.
TicksLeft(t) ==
    IF xTicksToWait[t] = MaxDelay THEN MaxDelay
    ELSE IF elapsed[t] < xTicksToWait[t] THEN xTicksToWait[t] - elapsed[t] ELSE 0

\* Fault: after a timeout the queue stays locked.
ExpiredKeepsLock(t) ==
    /\ At(t, "lock")
    /\ cTxLock' = (IF cTxLock = -1 THEN 0 ELSE cTxLock)
    /\ cRxLock' = (IF cRxLock = -1 THEN 0 ELSE cRxLock)
    /\ xTicksToWait' = [xTicksToWait EXCEPT ![t] = TicksLeft(t)]
    /\ elapsed' = [elapsed EXCEPT ![t] = 0]
    /\ Goto(t, IF TicksLeft(t) = 0 THEN "resume" ELSE "test")
    /\ UNCHANGED <<storage, lists, sched, caller, xEntryTimeSet>>

\* prvLockQueue and xTaskCheckForTimeOut: no tick is counted between them.
LockQueue(t) ==
    /\ At(t, "lock")
    /\ cTxLock' = (IF cTxLock = -1 THEN 0 ELSE cTxLock)
    /\ cRxLock' = (IF cRxLock = -1 THEN 0 ELSE cRxLock)
    /\ xTicksToWait' = [xTicksToWait EXCEPT ![t] = TicksLeft(t)]
    /\ elapsed' = [elapsed EXCEPT ![t] = 0]
    /\ Goto(t, IF TicksLeft(t) = 0 THEN "unlock_tx" ELSE "test")
    /\ UNCHANGED <<storage, lists, sched, caller, xEntryTimeSet>>

\* prvIsQueueFull or prvIsQueueEmpty.
TestQueue(t) ==
    /\ At(t, "test")
    /\ Goto(t, IF Blocked(t) THEN "place" ELSE "unlock_tx")
    /\ UNCHANGED <<storage, locks, lists, sched, caller, timeout>>

vTaskPlaceOnEventList(t) ==
    /\ At(t, "place")
    /\ IF op[t] = "receive"
       THEN /\ xTasksWaitingToReceive' = Inserted(xTasksWaitingToReceive, t)
            /\ UNCHANGED xTasksWaitingToSend
       ELSE /\ xTasksWaitingToSend' = Inserted(xTasksWaitingToSend, t)
            /\ UNCHANGED xTasksWaitingToReceive
    /\ Goto(t, "unlock_tx")
    /\ UNCHANGED <<storage, locks, sched, caller, timeout>>

\* Fault: one receiver is woken however many items arrived.
UnlockTxOnce(t) ==
    /\ At(t, "unlock_tx")
    /\ xTasksWaitingToReceive' = Woken(xTasksWaitingToReceive, IF cTxLock > 0 THEN 1 ELSE 0)
    /\ cTxLock' = -1
    /\ Goto(t, "unlock_rx")
    /\ UNCHANGED <<storage, cRxLock, xTasksWaitingToSend, sched, caller, timeout>>

\* prvUnlockQueue, in its two critical sections.
UnlockTx(t) ==
    /\ At(t, "unlock_tx")
    /\ xTasksWaitingToReceive' = Woken(xTasksWaitingToReceive, cTxLock)
    /\ cTxLock' = -1
    /\ Goto(t, "unlock_rx")
    /\ UNCHANGED <<storage, cRxLock, xTasksWaitingToSend, sched, caller, timeout>>

UnlockRx(t) ==
    /\ At(t, "unlock_rx")
    /\ xTasksWaitingToSend' = Woken(xTasksWaitingToSend, cRxLock)
    /\ cRxLock' = -1
    /\ Goto(t, "resume")
    /\ UNCHANGED <<storage, cTxLock, xTasksWaitingToReceive, sched, caller, timeout>>

\* n ticks are counted: block times run, and who has waited long enough leaves
\* its event list.
Elapsed(t, n) ==
    IF ~xEntryTimeSet[t] \/ xTicksToWait[t] = MaxDelay THEN elapsed[t]
    ELSE IF elapsed[t] + n < xTicksToWait[t] THEN elapsed[t] + n ELSE xTicksToWait[t]

\* Fault: a task leaves its event list only for an item or a place.
NeverTimesOut(t, n) == TRUE

StillWaits(t, n) == xTicksToWait[t] = MaxDelay \/ Elapsed(t, n) < xTicksToWait[t]

\* The tasks of a list that still wait, in their order.
Waiting(list, n) ==
    LET kept == {i \in DOMAIN list : StillWaits(list[i], n)}
        Rank(i) == Cardinality({k \in kept : k <= i})
    IN [j \in 1..Cardinality(kept) |-> list[CHOOSE i \in kept : Rank(i) = j]]

CountTicks(n) ==
    /\ elapsed' = [t \in Task |-> Elapsed(t, n)]
    /\ waited' = [t \in Task |-> IF waited[t] + n < wait[t] THEN waited[t] + n ELSE wait[t]]
    /\ xTasksWaitingToSend' = Waiting(xTasksWaitingToSend, n)
    /\ xTasksWaitingToReceive' = Waiting(xTasksWaitingToReceive, n)
    /\ UNCHANGED <<op, item, wait, result, xTicksToWait, xEntryTimeSet>>

\* xTaskResumeAll counts the ticks that pended.
xTaskResumeAll(t) ==
    /\ At(t, "resume")
    /\ owner' = NoTask /\ xPendedTicks' = 0
    /\ CountTicks(xPendedTicks)
    /\ Goto(t, IF xTicksToWait[t] = 0 THEN "expired" ELSE "enter")
    /\ UNCHANGED <<storage, locks>>

\* Fault: a receive gives up without another look.
GivesUpAtOnce(t) ==
    /\ At(t, "expired")
    /\ Return(t, "fail") /\ UNCHANGED <<storage, locks, lists, sched, item>>

\* After a timeout a send gives up; a receive looks once more.
ExpiredFail(t) ==
    /\ At(t, "expired") /\ (op[t] = "receive" => Blocked(t))
    /\ Return(t, "fail") /\ UNCHANGED <<storage, locks, lists, sched, item>>

ExpiredRetry(t) ==
    /\ At(t, "expired") /\ op[t] = "receive" /\ ~Blocked(t)
    /\ Goto(t, "enter")
    /\ UNCHANGED <<storage, locks, lists, sched, caller, timeout>>

-----------------------------------------------------------------------------
(* Interrupt handlers.                                                     *)

xQueueGenericSendFromISR(o, m) ==
    /\ o \in IsrCalls /\ HasRoom(o)
    /\ prvCopyDataToQueue(o, m)
    /\ IF cTxLock = -1 THEN UnblockReceiver
       ELSE cTxLock' = Counted(cTxLock) /\ UNCHANGED <<lists, cRxLock>>
    /\ UNCHANGED <<sched, pc, caller, timeout>>

xQueueReceiveFromISR ==
    /\ "receive" \in IsrCalls /\ uxMessagesWaiting > 0
    /\ prvCopyDataFromQueue
    /\ IF cRxLock = -1 THEN UnblockSender
       ELSE cRxLock' = Counted(cRxLock) /\ UNCHANGED <<lists, cTxLock>>
    /\ UNCHANGED <<sched, pc, caller, timeout>>

\* xTaskIncrementTick: with the scheduler suspended the tick pends.
Tick ==
    IF owner = NoTask
    THEN CountTicks(1) /\ UNCHANGED <<storage, locks, sched, pc>>
    ELSE /\ xPendedTicks < MaxPended /\ xPendedTicks' = xPendedTicks + 1
         /\ UNCHANGED <<storage, locks, lists, owner, pc, caller, timeout>>

-----------------------------------------------------------------------------

Step(t) ==
    \/ EnterSend(t) \/ EnterReceive(t) \/ EnterFail(t) \/ EnterWait(t)
    \/ vTaskSuspendAll(t) \/ LockQueue(t) \/ TestQueue(t) \/ vTaskPlaceOnEventList(t)
    \/ UnlockTx(t) \/ UnlockRx(t) \/ xTaskResumeAll(t)
    \/ ExpiredFail(t) \/ ExpiredRetry(t)

Next ==
    \/ \E t \in Task, o \in Sends, w \in 0..MaxDelay, m \in Msg : Call(t, o, w, m)
    \/ \E t \in Task, w \in 0..MaxDelay : Call(t, "receive", w, item[t])
    \/ \E t \in Task : Step(t)
    \/ \E o \in Sends, m \in Msg : xQueueGenericSendFromISR(o, m)
    \/ xQueueReceiveFromISR
    \/ Tick

Spec == Init /\ [][Next]_vars

\* Ready tasks of one priority share the processor by time slicing, so each of them runs
\* again and again, and ticks go on.  Nothing of the kind holds of a task below another
\* that stays ready: the conjunction is for tasks of equal Priority.
Fairness ==
    /\ \A t \in Task : SF_vars(Step(t))
    /\ WF_vars(Tick)

FairSpec == Spec /\ Fairness

-----------------------------------------------------------------------------
(* Properties.                                                             *)

\* What the queue holds, first item first: n items of the storage area b from
\* the position after r on, around its end.
Position(r, i) == IF r + i < uxLength THEN r + i ELSE r + i - uxLength
Content(b, r, n) == [i \in 1..n |-> IF Semaphore THEN b[r] ELSE b[Position(r, i)]]
Items == Content(buf, pcReadFrom, uxMessagesWaiting)

Found == [t \in Task |-> op[t] \in Sends /\ xEntryTimeSet[t]]

BQ == INSTANCE BoundedQueue WITH items <- Items, found <- Found, Length <- uxLength

\* The queue is the one BoundedQueue promises, whatever the order of tasks,
\* interrupts and ticks: a timeout that races a send neither loses an item nor
\* delivers one twice, and no call fails before its block time is over.
Refines == BQ!Spec

\* Tasks that are in no event list and will look at the queue before they can
\* block or give up.
Coming(ops) ==
    {t \in Task : /\ op[t] \in ops /\ ~InList(t)
                  /\ \/ pc[t] = "enter"
                     \/ pc[t] \in {"unlock_tx", "unlock_rx", "resume"} /\ xTicksToWait[t] # 0
                     \/ pc[t] = "expired" /\ op[t] = "receive"}

\* While a receiver is blocked, every item in the queue has somebody on its way
\* to take it, or the task that has locked the queue will wake one for it.
NoLostItem ==
    xTasksWaitingToReceive # << >> =>
        \/ uxMessagesWaiting <= Cardinality(Coming({"receive"})) + (IF cTxLock > 0 THEN cTxLock ELSE 0)
        \/ cTxLock >= NumberOfTasks

\* The same for the free places and the senders that wait for one.
NoLostRoom ==
    xTasksWaitingToSend # << >> =>
        \/ uxLength - uxMessagesWaiting
              <= Cardinality(Coming({"back", "front"})) + (IF cRxLock > 0 THEN cRxLock ELSE 0)
        \/ cRxLock >= NumberOfTasks

\* The queue is locked only while its locker keeps the scheduler suspended, so a
\* task that finds the scheduler running may touch the event lists.
UnlockedForTasks == owner = NoTask => cTxLock = -1 /\ cRxLock = -1

\* A call with a block time always returns.
CallReturns == \A t \in Task : (pc[t] # "idle" /\ wait[t] # MaxDelay) ~> pc[t] = "idle"

-----------------------------------------------------------------------------
(* The inductive invariant of KernelQueueWakeups.                          *)

\* The task that has suspended the scheduler is between prvLockQueue and the end of
\* prvUnlockQueue, where the locks are.
LockInv ==
    /\ owner = NoTask => cTxLock = -1 /\ cRxLock = -1
    /\ \A t \in Task :
          /\ pc[t] \in Owned <=> owner = t
          /\ pc[t] \in {"test", "place", "unlock_tx"} => cTxLock >= 0
          /\ pc[t] \in {"test", "place", "unlock_tx", "unlock_rx"} => cRxLock >= 0
          /\ pc[t] \in {"unlock_rx", "resume"} => cTxLock = -1
          /\ pc[t] = "resume" => cRxLock = -1

\* Who is in an event list waits once, for what the list is for, with block time
\* left, and does not look at the queue before it is taken off the list.
ListInv(list, ops) ==
    /\ \A i \in 1..Len(list) : /\ op[list[i]] \in ops /\ xTicksToWait[list[i]] # 0
                               /\ pc[list[i]] \in {"enter", "unlock_tx", "unlock_rx", "resume"}
    /\ \A i, j \in 1..Len(list) : list[i] = list[j] => i = j

\* A task that has found nothing to receive enters its list before it unlocks the
\* queue: every item that has arrived since is counted.
PlaceInv ==
    \A t \in Task :
        /\ pc[t] \in {"test", "place"} => xTicksToWait[t] # 0
        /\ pc[t] = "place" /\ op[t] = "receive" => uxMessagesWaiting <= cTxLock \/ cTxLock >= NumberOfTasks
        /\ pc[t] = "place" /\ op[t] # "receive" =>
              /\ op[t] \in {"back", "front"}
              /\ uxLength - uxMessagesWaiting <= cRxLock \/ cRxLock >= NumberOfTasks

IInv ==
    /\ TypeOK /\ LockInv /\ PlaceInv /\ NoLostItem /\ NoLostRoom
    /\ ListInv(xTasksWaitingToReceive, {"receive"}) /\ ListInv(xTasksWaitingToSend, {"back", "front"})

=============================================================================
