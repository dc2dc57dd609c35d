----------------------------- MODULE KernelTick -----------------------------
(***************************************************************************)
(* The kernel's time (tasks.c): the tick count and its overflow, the lists *)
(* of delayed tasks, ticks and events that arrive while the scheduler is   *)
(* suspended, and block times that are measured again on every round of a  *)
(* wait.  Its users are sleep and usleep of the POSIX shim and every call  *)
(* with a block time, here the loop of xQueueReceive without its data.     *)
(*                                                                         *)
(* A critical section is one step, except that xTaskResumeAll counts each  *)
(* tick it has to catch up with in a step of its own, interrupts masked.   *)
(* Any ready task may run.  A list sorted by wake time is the set of its   *)
(* tasks, its head a task with the least wake time.                        *)
(***************************************************************************)
EXTENDS Integers, FiniteSets

CONSTANTS
    Task,
    NULL,
    Wrap,                \* values of TickType_t and of unsigned long (2^32)
    OverflowWrap,        \* values of xNumOfOverflows (2^32)
    Thousand,            \* the factor between s, ms and us (1000)
    configTICK_RATE_HZ,
    Seconds,             \* arguments of sleep
    Microseconds,        \* arguments of usleep
    BlockTimes,          \* block times of the waits, in ticks
    MaxPended,           \* bound: ticks while the scheduler is suspended
    MaxLag               \* bound: ticks by which a call returns late

portMAX_DELAY == Wrap - 1

ASSUME TickAssumption ==
    /\ NULL \notin Task
    /\ Wrap \in Nat /\ Wrap > 1
    /\ OverflowWrap \in Nat /\ OverflowWrap > 1
    /\ Thousand \in Nat \ {0} /\ configTICK_RATE_HZ = Thousand
    /\ Seconds \subseteq Nat /\ Microseconds \subseteq Nat
    /\ BlockTimes \subseteq 1..portMAX_DELAY
    /\ MaxPended \in Nat /\ MaxLag \in Nat

\* xTaskCheckForTimeOut can tell how much time has passed as long as the count
\* has not come round completely: no block time is that long, with its lag.
ASSUME LagAssumption ==
    \A n \in BlockTimes : n = portMAX_DELAY \/ n + MaxLag <= Wrap

VARIABLES
    xTickCount,
    xNumOfOverflows,
    xNextTaskUnblockTime,
    pxDelayedTaskList,          \* tasks that wake before the count overflows
    pxOverflowDelayedTaskList,  \* tasks that wake after it
    xSuspendedTaskList,         \* tasks that wait without a time limit
    xPendingReadyList,          \* tasks to make ready when the scheduler resumes
    eventList,                  \* tasks in an event list
    xTimeToWake,                \* per task: the value of its xStateListItem
    suspended,                  \* the task that has suspended the scheduler
    xPendedTicks,               \* ticks since then
    xPendedCounts,              \* of these, ticks that xTaskResumeAll has to count
    pc,                         \* per task
    xTicksToWait,               \* per task: what is left of its block time
    xTimeOut,                   \* per task: when that was last computed
    due                         \* per task, history: ticks until its time is over

clock == <<xTickCount, xNumOfOverflows>>
lists == <<pxDelayedTaskList, pxOverflowDelayedTaskList, xSuspendedTaskList>>
items == <<eventList, xTimeToWake>>
pend == <<suspended, xPendedTicks, xPendedCounts>>
vars == <<clock, xNextTaskUnblockTime, lists, xPendingReadyList, items, pend,
          pc, xTicksToWait, xTimeOut, due>>

Delay == {"add", "resume", "woken"}
Waits == {"check", "test", "place", "resume_place", "retry", "resume_expired", "expired"}
PC == {"run"} \cup Delay \cup Waits

TypeOK ==
    /\ xTickCount \in 0..Wrap - 1
    /\ xNumOfOverflows \in 0..OverflowWrap - 1
    /\ xNextTaskUnblockTime \in 0..Wrap - 1
    /\ pxDelayedTaskList \subseteq Task
    /\ pxOverflowDelayedTaskList \subseteq Task
    /\ xSuspendedTaskList \subseteq Task
    /\ xPendingReadyList \subseteq Task
    /\ eventList \subseteq Task
    /\ xTimeToWake \in [Task -> 0..Wrap - 1]
    /\ suspended \in Task \cup {NULL}
    /\ xPendedTicks \in 0..MaxPended
    /\ xPendedCounts \in 0..xPendedTicks
    /\ pc \in [Task -> PC]
    /\ xTicksToWait \in [Task -> 0..Wrap - 1]
    /\ xTimeOut \in [Task -> [xOverflowCount : 0..OverflowWrap - 1, xTimeOnEntering : 0..Wrap - 1]]
    /\ due \in [Task -> Int]

NoTimeOut == [xOverflowCount |-> 0, xTimeOnEntering |-> 0]

Init ==
    /\ xTickCount = 0 /\ xNumOfOverflows = 0
    /\ xNextTaskUnblockTime = portMAX_DELAY
    /\ pxDelayedTaskList = {} /\ pxOverflowDelayedTaskList = {} /\ xSuspendedTaskList = {}
    /\ xPendingReadyList = {} /\ eventList = {}
    /\ xTimeToWake = [t \in Task |-> 0]
    /\ suspended = NULL /\ xPendedTicks = 0 /\ xPendedCounts = 0
    /\ pc = [t \in Task |-> "run"]
    /\ xTicksToWait = [t \in Task |-> 0]
    /\ xTimeOut = [t \in Task |-> NoTimeOut]
    /\ due = [t \in Task |-> 0]

-----------------------------------------------------------------------------
(* The tick.                                                               *)

Listed == pxDelayedTaskList \cup pxOverflowDelayedTaskList \cup xSuspendedTaskList
Ready(t) == t \notin Listed

\* Interrupts are masked while xTaskResumeAll catches up.
Masked == xPendedCounts > 0

\* The value of the head of a delayed list.
prvResetNextTaskUnblockTime(list) ==
    IF list = {} THEN portMAX_DELAY
    ELSE CHOOSE w \in {xTimeToWake[t] : t \in list} : \A t \in list : w <= xTimeToWake[t]

\* taskSWITCH_DELAYED_LISTS, when the new count is 0.
CurrentList(tick) == IF tick = 0 THEN pxOverflowDelayedTaskList ELSE pxDelayedTaskList
OtherList(tick) == IF tick = 0 THEN pxDelayedTaskList ELSE pxOverflowDelayedTaskList
UnblockTime(tick) == IF tick = 0 THEN prvResetNextTaskUnblockTime(CurrentList(tick))
                     ELSE xNextTaskUnblockTime

Expired(tick) ==
    IF tick >= UnblockTime(tick) THEN {t \in CurrentList(tick) : xTimeToWake[t] <= tick} ELSE {}

\* Fault: a task whose time is over stays in its event list.
StaysInEventList(tick) == eventList

EventListAfter(tick) == eventList \ Expired(tick)

\* xTaskIncrementTick with the scheduler running.
CountTick ==
    LET tick == (xTickCount + 1) % Wrap
        list == CurrentList(tick) \ Expired(tick)
    IN /\ xTickCount' = tick
       /\ xNumOfOverflows' = IF tick = 0 THEN (xNumOfOverflows + 1) % OverflowWrap ELSE xNumOfOverflows
       /\ pxDelayedTaskList' = list
       /\ pxOverflowDelayedTaskList' = OtherList(tick)
       /\ xNextTaskUnblockTime' = IF tick >= UnblockTime(tick)
                                  THEN prvResetNextTaskUnblockTime(list) ELSE UnblockTime(tick)
       /\ eventList' = EventListAfter(tick)

\* In a call that ends by itself: not in a wait for portMAX_DELAY ticks.
Timed(t) == pc[t] \in Delay \/ (pc[t] \in Waits /\ xTicksToWait[t] # portMAX_DELAY)

\* The tick interrupt.  The history counts every one, the kernel those it sees.
Tick ==
    /\ ~Masked
    /\ xPendedTicks < MaxPended /\ \A t \in Task : due[t] > -MaxLag
    /\ due' = [t \in Task |-> IF Timed(t) THEN due[t] - 1 ELSE due[t]]
    /\ \/ /\ suspended = NULL /\ CountTick /\ UNCHANGED xPendedTicks
       \/ /\ suspended # NULL /\ xPendedTicks' = xPendedTicks + 1
          /\ UNCHANGED <<clock, xNextTaskUnblockTime, pxDelayedTaskList,
                         pxOverflowDelayedTaskList, eventList>>
    /\ UNCHANGED <<xSuspendedTaskList, xPendingReadyList, xTimeToWake, suspended, xPendedCounts,
                   pc, xTicksToWait, xTimeOut>>

\* xTaskRemoveFromEventList, from an interrupt or from another task.
xTaskRemoveFromEventList(t) ==
    /\ ~Masked /\ t \in eventList
    /\ eventList' = eventList \ {t}
    /\ \/ /\ suspended = NULL
          /\ pxDelayedTaskList' = pxDelayedTaskList \ {t}
          /\ pxOverflowDelayedTaskList' = pxOverflowDelayedTaskList \ {t}
          /\ xSuspendedTaskList' = xSuspendedTaskList \ {t}
          /\ UNCHANGED xPendingReadyList
       \/ /\ suspended # NULL
          /\ xPendingReadyList' = xPendingReadyList \cup {t}
          /\ UNCHANGED lists
    /\ UNCHANGED <<clock, xNextTaskUnblockTime, xTimeToWake, pend, pc, xTicksToWait, xTimeOut, due>>

-----------------------------------------------------------------------------
(* Suspending and resuming the scheduler.  A task runs when it is ready    *)
(* and no other task has suspended the scheduler.                          *)

At(t, l) == pc[t] = l /\ Ready(t) /\ suspended = NULL /\ ~Masked
Holds(t, l) == pc[t] = l /\ suspended = t /\ ~Masked
Goto(t, l) == pc' = [pc EXCEPT ![t] = l]

After(l) == CASE l = "resume" -> "woken"
              [] l = "resume_place" -> "retry"
              [] l = "resume_expired" -> "expired"

\* The first part of xTaskResumeAll: the tasks that events have made ready.
xTaskResumeAll(t) ==
    /\ suspended = t /\ pc[t] \in {"resume", "resume_place", "resume_expired"} /\ ~Masked
    /\ pxDelayedTaskList' = pxDelayedTaskList \ xPendingReadyList
    /\ pxOverflowDelayedTaskList' = pxOverflowDelayedTaskList \ xPendingReadyList
    /\ xSuspendedTaskList' = xSuspendedTaskList \ xPendingReadyList
    /\ xPendingReadyList' = {}
    /\ xNextTaskUnblockTime' = IF xPendingReadyList # {}
                               THEN prvResetNextTaskUnblockTime(pxDelayedTaskList')
                               ELSE xNextTaskUnblockTime
    /\ suspended' = NULL
    /\ xPendedCounts' = xPendedTicks
    /\ Goto(t, After(pc[t]))
    /\ UNCHANGED <<clock, xPendedTicks, items, xTicksToWait, xTimeOut, due>>

\* Its second part, once for each tick that was pended.
CatchUp ==
    /\ Masked
    /\ CountTick
    /\ xPendedCounts' = xPendedCounts - 1
    /\ xPendedTicks' = IF xPendedCounts = 1 THEN 0 ELSE xPendedTicks
    /\ UNCHANGED <<xSuspendedTaskList, xPendingReadyList, xTimeToWake, suspended, pc,
                   xTicksToWait, xTimeOut, due>>

\* Fault: every wait of portMAX_DELAY ticks is without a limit, delays too.
LimitedBelowMax(n, indefinitely) == n # portMAX_DELAY

\* Fault: the wake time is not seen to overflow.
NeverOverflows(n) == FALSE

Limited(n, indefinitely) == ~(n = portMAX_DELAY /\ indefinitely)
WakeTime(n) == (xTickCount + n) % Wrap
Overflows(n) == WakeTime(n) < xTickCount

prvAddCurrentTaskToDelayedList(t, n, indefinitely) ==
    \/ /\ ~Limited(n, indefinitely)
       /\ xSuspendedTaskList' = xSuspendedTaskList \cup {t}
       /\ UNCHANGED <<pxDelayedTaskList, pxOverflowDelayedTaskList, xTimeToWake, xNextTaskUnblockTime>>
    \/ /\ Limited(n, indefinitely) /\ Overflows(n)
       /\ xTimeToWake' = [xTimeToWake EXCEPT ![t] = WakeTime(n)]
       /\ pxOverflowDelayedTaskList' = pxOverflowDelayedTaskList \cup {t}
       /\ UNCHANGED <<pxDelayedTaskList, xSuspendedTaskList, xNextTaskUnblockTime>>
    \/ /\ Limited(n, indefinitely) /\ ~Overflows(n)
       /\ xTimeToWake' = [xTimeToWake EXCEPT ![t] = WakeTime(n)]
       /\ pxDelayedTaskList' = pxDelayedTaskList \cup {t}
       /\ xNextTaskUnblockTime' = IF WakeTime(n) < xNextTaskUnblockTime THEN WakeTime(n)
                                  ELSE xNextTaskUnblockTime
       /\ UNCHANGED <<pxOverflowDelayedTaskList, xSuspendedTaskList>>

-----------------------------------------------------------------------------
(* sleep, usleep: vTaskDelay.                                              *)

pdMS_TO_TICKS(ms) == ((ms * configTICK_RATE_HZ) \div Thousand) % Wrap

\* A delay of 0 only yields.
vTaskDelay(t, n, ticks) ==
    /\ At(t, "run")
    /\ \/ n > 0 /\ suspended' = t /\ Goto(t, "add")
       \/ n = 0 /\ UNCHANGED suspended /\ Goto(t, "woken")
    /\ xTicksToWait' = [xTicksToWait EXCEPT ![t] = n]
    /\ due' = [due EXCEPT ![t] = ticks]
    /\ UNCHANGED <<clock, xNextTaskUnblockTime, lists, xPendingReadyList, items,
                   xPendedTicks, xPendedCounts, xTimeOut>>

\* The product is computed in unsigned long.
sleep(t, s) == vTaskDelay(t, pdMS_TO_TICKS((s * Thousand) % Wrap), s * configTICK_RATE_HZ)

\* At least one tick, and fractions of a millisecond are cut off.
usleep(t, u) ==
    LET n == pdMS_TO_TICKS(u \div Thousand)
        ticks == IF n = 0 /\ u > 0 THEN 1 ELSE n
    IN vTaskDelay(t, ticks, ticks)

DelayAdd(t) ==
    /\ Holds(t, "add")
    /\ prvAddCurrentTaskToDelayedList(t, xTicksToWait[t], FALSE)
    /\ Goto(t, "resume")
    /\ UNCHANGED <<clock, xPendingReadyList, eventList, pend, xTicksToWait, xTimeOut, due>>

-----------------------------------------------------------------------------
(* The loop of a call with a block time.                                   *)

Now == [xOverflowCount |-> xNumOfOverflows, xTimeOnEntering |-> xTickCount]

\* The first round: nothing is there.  vTaskInternalSetTimeOutState.
Wait(t, n) ==
    /\ At(t, "run")
    /\ xTimeOut' = [xTimeOut EXCEPT ![t] = Now]
    /\ xTicksToWait' = [xTicksToWait EXCEPT ![t] = n]
    /\ due' = [due EXCEPT ![t] = IF n = portMAX_DELAY THEN 0 ELSE n]
    /\ Goto(t, "check")
    /\ UNCHANGED <<clock, xNextTaskUnblockTime, lists, xPendingReadyList, items, pend>>

vTaskSuspendAll(t) ==
    /\ At(t, "check")
    /\ suspended' = t
    /\ Goto(t, "test")
    /\ UNCHANGED <<clock, xNextTaskUnblockTime, lists, xPendingReadyList, items,
                   xPendedTicks, xPendedCounts, xTicksToWait, xTimeOut, due>>

\* Fault: the difference is not computed in TickType_t.
ElapsedSigned(t) == xTickCount - xTimeOut[t].xTimeOnEntering

Elapsed(t) == (xTickCount - xTimeOut[t].xTimeOnEntering) % Wrap

\* Fault: an overflow of the count is not noticed.
NeverWrapped(t) == FALSE

\* The count has come round to the time of entering.
WrappedPast(t) ==
    /\ xNumOfOverflows # xTimeOut[t].xOverflowCount
    /\ xTickCount >= xTimeOut[t].xTimeOnEntering

\* Fault: the time of entering is not moved with what is left.
CheckKeepsEntry(t) ==
    /\ Holds(t, "test")
    /\ \/ /\ xTicksToWait[t] = portMAX_DELAY
          /\ Goto(t, "place") /\ UNCHANGED <<xTicksToWait, xTimeOut>>
       \/ /\ xTicksToWait[t] # portMAX_DELAY /\ (WrappedPast(t) \/ Elapsed(t) >= xTicksToWait[t])
          /\ xTicksToWait' = [xTicksToWait EXCEPT ![t] = 0]
          /\ Goto(t, "resume_expired") /\ UNCHANGED xTimeOut
       \/ /\ xTicksToWait[t] # portMAX_DELAY /\ ~WrappedPast(t) /\ Elapsed(t) < xTicksToWait[t]
          /\ xTicksToWait' = [xTicksToWait EXCEPT ![t] = @ - Elapsed(t)]
          /\ Goto(t, "place") /\ UNCHANGED xTimeOut
    /\ UNCHANGED <<clock, xNextTaskUnblockTime, lists, xPendingReadyList, items, pend, due>>

xTaskCheckForTimeOut(t) ==
    /\ Holds(t, "test")
    /\ \/ /\ xTicksToWait[t] = portMAX_DELAY
          /\ Goto(t, "place") /\ UNCHANGED <<xTicksToWait, xTimeOut>>
       \/ /\ xTicksToWait[t] # portMAX_DELAY /\ (WrappedPast(t) \/ Elapsed(t) >= xTicksToWait[t])
          /\ xTicksToWait' = [xTicksToWait EXCEPT ![t] = 0]
          /\ Goto(t, "resume_expired") /\ UNCHANGED xTimeOut
       \/ /\ xTicksToWait[t] # portMAX_DELAY /\ ~WrappedPast(t) /\ Elapsed(t) < xTicksToWait[t]
          /\ xTicksToWait' = [xTicksToWait EXCEPT ![t] = @ - Elapsed(t)]
          /\ xTimeOut' = [xTimeOut EXCEPT ![t] = Now]
          /\ Goto(t, "place")
    /\ UNCHANGED <<clock, xNextTaskUnblockTime, lists, xPendingReadyList, items, pend, due>>

\* Still nothing there: vTaskPlaceOnEventList.
vTaskPlaceOnEventList(t) ==
    /\ Holds(t, "place")
    /\ eventList' = eventList \cup {t}
    /\ prvAddCurrentTaskToDelayedList(t, xTicksToWait[t], TRUE)
    /\ Goto(t, "resume_place")
    /\ UNCHANGED <<clock, xPendingReadyList, pend, xTicksToWait, xTimeOut, due>>

\* Something has come since the critical section: no blocking in this round.
PlaceSkipped(t) ==
    /\ Holds(t, "place")
    /\ Goto(t, "resume_place")
    /\ UNCHANGED <<clock, xNextTaskUnblockTime, lists, xPendingReadyList, items, pend,
                   xTicksToWait, xTimeOut, due>>

\* Nothing is there in this round either, or something after a timeout.
Retry(t) ==
    /\ \/ At(t, "retry") /\ xTicksToWait[t] # 0 /\ Goto(t, "check")
       \/ At(t, "expired") /\ Goto(t, "retry")
    /\ UNCHANGED <<clock, xNextTaskUnblockTime, lists, xPendingReadyList, items, pend,
                   xTicksToWait, xTimeOut, due>>

\* A delay is over; a wait has got what it waited for, or failed.
Return(t) ==
    /\ At(t, "woken") \/ At(t, "retry") \/ At(t, "expired")
    /\ Goto(t, "run")
    /\ xTicksToWait' = [xTicksToWait EXCEPT ![t] = 0]
    /\ xTimeOut' = [xTimeOut EXCEPT ![t] = NoTimeOut]
    /\ xTimeToWake' = [xTimeToWake EXCEPT ![t] = 0]
    /\ due' = [due EXCEPT ![t] = 0]
    /\ UNCHANGED <<clock, xNextTaskUnblockTime, lists, xPendingReadyList, eventList, pend>>

-----------------------------------------------------------------------------

Step(t) ==
    \/ DelayAdd(t) \/ vTaskSuspendAll(t) \/ xTaskCheckForTimeOut(t)
    \/ vTaskPlaceOnEventList(t) \/ PlaceSkipped(t) \/ Retry(t) \/ Return(t)
    \/ xTaskResumeAll(t)

Call(t) ==
    \/ \E s \in Seconds : sleep(t, s)
    \/ \E u \in Microseconds : usleep(t, u)
    \/ \E n \in BlockTimes : Wait(t, n)

Next ==
    \/ Tick \/ CatchUp
    \/ \E t \in Task : Call(t) \/ Step(t) \/ xTaskRemoveFromEventList(t)

Spec == Init /\ [][Next]_vars

\* The tick interrupt comes again and again, xTaskResumeAll ends, and a task
\* that can go on does: equal priorities are time-sliced.
FairSpec ==
    /\ Spec
    /\ WF_vars(Tick) /\ WF_vars(CatchUp)
    /\ \A t \in Task : SF_vars(Step(t))

-----------------------------------------------------------------------------
(* Properties.                                                             *)

\* The arguments of sleep that do not overflow; SleepLasts is about the others.
SecondsFit == \A s \in Seconds : s * Thousand < Wrap

\* Ticks that have happened and that the kernel has not counted yet.
Uncounted == IF suspended # NULL THEN xPendedTicks ELSE xPendedCounts

\* No task sleeps too long: when its time is over it is in neither delayed list,
\* however often the count has overflowed, except for ticks still to be counted.
OnTime ==
    \A t \in pxDelayedTaskList \cup pxOverflowDelayedTaskList :
        due[t] + Uncounted > 0

\* No delay ends, and no wait gives up, before the time that the caller asked
\* for is over.
NeverEarly ==
    \A t \in Task : pc[t] = "expired" \/ (pc[t] = "woken" /\ Ready(t)) => due[t] <= 0

\* The assertion of taskSWITCH_DELAYED_LISTS: the delayed list is empty when the
\* count overflows.
SwitchesEmpty == xTickCount = portMAX_DELAY => pxDelayedTaskList = {}

\* An event reaches a task that waits for it, once: a blocked wait can be readied
\* by an event, and no event is spent on a task that is ready already.
EventReaches ==
    /\ \A t \in Task : pc[t] \in {"resume_place", "retry"} /\ ~Ready(t)
                          => t \in eventList \cup xPendingReadyList
    /\ \A t \in eventList \cup xPendingReadyList : ~Ready(t)
    /\ eventList \cap xPendingReadyList = {}

\* Every sleep and every wait with a time limit returns.
TimedReturns == \A t \in Task : Timed(t) ~> pc[t] = "run"

-----------------------------------------------------------------------------
(* The inductive invariant: the wake time of a task in a delayed list and  *)
(* the time of entering of a wait agree with the ticks that are left, where *)
(* ticks that the kernel has still to count are left too.                  *)

Left(t) == due[t] + Uncounted

Suspends == {"add", "resume", "test", "place", "resume_place", "resume_expired"}
Runs == {"run", "add", "check", "test", "place", "resume_expired", "expired"}

SuspendPart ==
    /\ \A t \in Task : pc[t] \in Suspends <=> suspended = t
    /\ xPendedCounts > 0 => suspended = NULL
    /\ suspended = NULL /\ xPendedCounts = 0 => xPendedTicks = 0
    /\ suspended = NULL => xPendingReadyList = {}

ListPart ==
    /\ pxDelayedTaskList \cap pxOverflowDelayedTaskList = {}
    /\ \A t \in Task : pc[t] \in Runs => Ready(t)
    /\ \A t \in xSuspendedTaskList :
           pc[t] \in {"resume_place", "retry"} /\ xTicksToWait[t] = portMAX_DELAY
    /\ \A t \in pxDelayedTaskList \cup pxOverflowDelayedTaskList :
           \/ pc[t] \in {"resume", "woken"}
           \/ pc[t] \in {"resume_place", "retry"} /\ xTicksToWait[t] \notin {0, portMAX_DELAY}
    /\ \A t \in eventList \cup xPendingReadyList : pc[t] \in {"resume_place", "retry"}

WakePart ==
    /\ \A t \in pxDelayedTaskList : /\ xTimeToWake[t] > xTickCount
                                    /\ xTimeToWake[t] - xTickCount = Left(t)
                                    /\ xNextTaskUnblockTime <= xTimeToWake[t]
    /\ \A t \in pxOverflowDelayedTaskList : /\ xTimeToWake[t] < xTickCount
                                            /\ xTimeToWake[t] + Wrap - xTickCount = Left(t)

DelayPart ==
    /\ \A t \in Task : due[t] >= -MaxLag
    /\ \A t \in Task : pc[t] = "add" => xTicksToWait[t] > 0 /\ Left(t) = xTicksToWait[t]
    /\ \A t \in Task : pc[t] = "resume" => ~Ready(t)
    /\ \A t \in Task : pc[t] = "woken" /\ Ready(t) => Left(t) <= 0

\* Ticks that the kernel has counted since the time of entering.
Counted(t) == xTicksToWait[t] - Left(t)

Measured(t) ==
    /\ Counted(t) >= 0
    /\ xTicksToWait[t] + MaxLag <= Wrap
    /\ \/ /\ xNumOfOverflows = xTimeOut[t].xOverflowCount
          /\ xTickCount = xTimeOut[t].xTimeOnEntering + Counted(t)
       \/ /\ xNumOfOverflows # xTimeOut[t].xOverflowCount
          /\ xTickCount = xTimeOut[t].xTimeOnEntering + Counted(t) - Wrap

WaitPart ==
    /\ \A t \in Task :
           pc[t] \in {"check", "test", "place", "resume_place", "retry"}
           /\ xTicksToWait[t] \notin {0, portMAX_DELAY} => Measured(t)
    /\ \A t \in Task : pc[t] \in {"check", "test", "place", "resume_place"} => xTicksToWait[t] > 0
    /\ \A t \in Task : pc[t] = "place" /\ xTicksToWait[t] # portMAX_DELAY => Counted(t) = 0
    /\ \A t \in Task : pc[t] \in {"resume_expired", "expired"} => xTicksToWait[t] = 0
    /\ \A t \in Task : pc[t] \in Waits /\ xTicksToWait[t] = 0 => Left(t) <= 0

IInv == TypeOK /\ SuspendPart /\ ListPart /\ WakePart /\ DelayPart /\ WaitPart /\ EventReaches

-----------------------------------------------------------------------------

\* posix_shim.h: sleep delays the thread for its argument in seconds.
SleepLasts == \A t \in Task : pc[t] = "woken" /\ Ready(t) => due[t] <= 0
=============================================================================
