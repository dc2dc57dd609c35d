# A TLA+ verification project for STM32 Simulated Linux

The repository runs a small POSIX environment on a Cortex-M3: a shim
(`posix_shim.c`) maps threads, mutexes, semaphores and delays to FreeRTOS, a port
layer (`sys_arch.c`) does the same for lwIP 1.4.0, an Ethernet driver
(`ethernetif.c`) feeds lwIP from an interrupt, and a demo application
(`main_blinky.c`) starts worker threads and a web server. All of it is in
`src/FreeRTOS/Demo/CORTEX_MPS2_QEMU_IAR_GCC/`; the kernel, lwIP, the SMSC9220 driver and
the rest of the tree are vendored. This directory holds models of the repository's
own code, and of the vendored code as far as the own code depends on its behaviour.

## Inventory

| Part | State | Operations | Interaction | What is hard | What makes it correct |
|---|---|---|---|---|---|
| POSIX threads (`posix_shim.c` 39-300) | descriptors on the heap, registry `g_thread_list` | `pthread_create`, `join`, `exit`, `detach`, `self` | tasks of one priority, time-sliced; kernel semaphores, `vTaskSuspendAll`, heap_4; idle frees TCBs | every statement can be preempted; descriptor and TCB addresses are reused; two tasks decide who frees | no use after free, a thread finds itself, join returns the exit value, nothing leaks, join returns |
| POSIX mutexes (`posix_shim.c` 313-381) | handle to a kernel mutex; holder, count, event list, priorities in the kernel | init, lock, unlock, destroy | `queue.c` and `tasks.c`: priority inheritance, scheduler | priority inversion, nested mutexes, timeouts that withdraw a lent priority, missing context switches, unlock by a non-owner | mutual exclusion, inherited priorities exact, no lost wake-up, the urgent task is served |
| POSIX semaphores (424-492) | handle to a kernel queue | init, wait, post, destroy | `queue.c`; interrupt handlers may give | a give between test and wait, while the queue is locked, or at a timeout | counts exact, no lost wake-up |
| POSIX timing (391-412) | tick count, delayed lists in the kernel | `sleep`, `usleep` | `vTaskDelay`, 32-bit ticks | wrap at 2^32 ms, tick overflow, ticks pended while the scheduler is suspended | neither shorter nor longer than asked |
| lwIP port (`sys_arch.c`) | kernel handles | semaphores, mutexes, mailboxes with timeouts, threads | API threads, LWIP_RX and tcpip_thread | a timeout racing a post; block times measured again on every round | no message lost or duplicated, no early timeout |
| Ethernet receive (`ethernetif.c` 86-219) | interrupt registers, FIFOs, task notification, pbuf pool | `EthernetISR`, `ethernetif_input_task`, `low_level_init` | interrupt to task by notification, task to tcpip_thread by `tcpip_input` | frames arrive between any two register accesses; pool exhaustion | no lost wake-up, no pbuf leak, packet boundaries kept |
| Ethernet transmit (`ethernetif.c` 232-249) | TX FIFO, driver's ongoing length | `low_level_output` | called by tcpip_thread only | FIFO full in the middle of a chain | packets reach the FIFO whole |
| Demo application (`main_blinky.c`) | counter, mutex, semaphore, sockets | two kinds of worker, web server, `main_posix_app` | all of the above | handles used after a failed create | counter exact, all threads joined |
| Kernel, heap_4, lwIP, SMSC9220 driver (vendored) | ready lists, queues, free list, pbufs, registers | used through their API | | | what the parts above assume of them |

The hazards, each at its line, are in `PROJECT.json`.

## Modules

**`PosixThreads`** models the thread half of the shim. A task is named by the
address of its TCB, a thread handle is the address of its descriptor, and both kinds
of address return to the free set when the code frees them, so `find_thread`
compares what the C code compares. One action is one critical section, one kernel
call or one access to a shared field; `pc` names the statement a task executes
next (`create_add` is the call of `add_thread` in `pthread_create`), `t` its local
variable of that name. Any ready task may take the next step unless another one
holds `vTaskSuspendAll` (`suspended`), which is the freedom that preemption with time
slicing gives to tasks of one priority. `vTaskDelete` only marks the task; the TCB's
address becomes free when the idle task runs (`IdleFree`). `NativeTaskCreate` stands
for `sys_thread_new` and `low_level_init`, whose tasks take TCB addresses without
entering the registry. The client is unconstrained except for the
POSIX rules: a handle is joined or detached at most once, and no thread joins
itself; `claim` records this and is not program state. `passed` remembers the exit
value for the properties. Two constants select variants of the environment:

* `OnHeapFull`: `"halt"` is the configured build, where
  `vApplicationMallocFailedHook` loops for ever; `"return"` is the build without the
  hook, in which the failure branches of `pthread_create` run; `"never"` has no
  failures.
* `DetachBy`: with `"any"` a thread may detach any handle nobody has claimed, with
  `"self"` only itself.

`Init` is the state in which `main_blinky` starts the scheduler: one thread, detached.

**`AbstractThreads`** is what the calls promise: a handle names one thread from its creation
on; the thread ends once, with the value it has passed; a join waits for that,
gets the value and uses the handle up; the handle of a detached thread may vanish with it; and
only then the handle comes back. `Refines` says that `PosixThreads` implements it. A
thread is live until its task is about to call `vTaskDelete` (`Alive`): after
`xSemaphoreGive` or `vPortFree` nothing of it is left but a task on its way out.

**`PosixThreadsInv`** states the inductive invariant `IInv`, for threads that detach
only themselves `LeakPart`, and `HandlePart`, which the refinement needs; **`PosixThreadsProofs`**
proves the invariants and what follows, **`PosixThreadsRefines`** the refinement,
**`MCPosixThreads`** adds the symmetry set for TLC.
**`PosixThreadsDocs`** holds a statement of the documents that the code does not meet.

**`EthernetRx`** models the receive path at the granularity of register accesses.
The controller (`Arrive`) may receive a frame between any two of them, also within
the interrupt handler; the handler (`isr`) is not preempted by tasks; a pending
interrupt is taken before any task executes another statement (`TasksRun`); and
`low_level_init` runs only while LWIP_RX, which outranks it, is blocked.
The NVIC's pending bit is separate from the controller's status and enable bits, so
the handler can be entered again by an interrupt that was latched between its
clear and its disable. Data is abstracted to the number of words in the data
FIFO. A length is what the status word says, FCS included. The pbuf pool is a count; packets wait in `input` for
`tcpip_thread` and their buffers are in `kept` until lwIP frees them. The
controller, the NVIC and exception entry are external: modelled from how the driver
uses them. **`EthernetRxBursts`** adds a history variable, the reads of the data port that
LWIP_RX has made since the controller was last empty, which is what the driver's over-read adds up
over. **`EthernetRxProofs`** has the proofs.

**`KernelQueue`** models one queue of `queue.c`: the ring in its storage area, the
two event lists, the lock counts, and `xQueueGenericSend`, `xQueueReceive` and
their FromISR versions, which are also the give and the take of a semaphore (item
size 0: nothing is copied). A critical section is one step, every statement between
two of them is another (`enter`, `suspend`, `lock`, `test`, `place`, `unlock_tx`,
`unlock_rx`, `resume`, `expired`). With the scheduler suspended (`owner`) only
that task, interrupts and ticks happen, and ticks pend. The calls of
`sys_arch.c` and of the POSIX semaphores are pairs of a copy position and a block
time, computed as that code computes them. `elapsed` and `waited` count ticks no
further than the block time: more makes no difference, and how the kernel
measures elapsed time is `KernelTick`'s subject. **`BoundedQueue`** is what a
queue promises: each call takes effect in one step, a receive fails only when
its time is over and the queue is empty then, a send only when its time is over and it has found the
queue full. `Refines` says that `KernelQueue` implements it; `Items` reads the
ring from `pcReadFrom` on. **`MCKernelQueue`** defines the instances,
**`KernelQueueProofs`** proves the refinement and **`KernelQueueWakeups`** that no wake-up is lost.

**`KernelMutex`** models mutexes with the scheduler that priority inheritance is
about: `pxCurrentTCB` changes only where the code asks for a context switch
(`SwitchIf`), and picks among the ready tasks of the highest priority. What a take does with
the scheduler suspended is one step, because no interrupt may touch a mutex. A block
time has no length: `BlockTimeOver` may happen at any moment, also between the
take's first critical section and its blocking. Tasks sleep in critical
sections, nest mutexes as `Nests` allows, compute for ever. `Careless`
tasks unlock what they do not hold. `owned` is history: what the calls have told
the task. Event lists are sorted by the priority at insertion, as `vListInsert` does it: `tasks.c`
changes the item value of a waiting task whose priority changes, but does not move it.
**`AbstractMutex`** is what a mutex promises: a lock takes effect in one step, on a mutex
that nobody owns then; it gives up only when its time is over and it has found the
mutex owned after that; an unlock is the owner's and takes effect at once. `Refines` maps
owner to `xMutexHolder` and a call to the mutex it waits for; `found` is true of a call that
has seen the mutex held for the last time and has only to withdraw its priority.
**`MCKernelMutex`** defines the instances, **`KernelMutexProofs`** has the proofs.
**`NaturalLemmas`** holds the one fact on numbers that several proofs share: a
nonempty set of naturals has a least element.

**`KernelTick`** models time in `tasks.c`: tick count and overflow count with
their widths as constants (`Wrap`, `OverflowWrap`), the two delayed lists and
their exchange at overflow, the cached `xNextTaskUnblockTime`, suspension with
`xPendedTicks` and `xPendingReadyList`, `xTaskResumeAll` catching up tick by tick with interrupts
masked, and `xTaskCheckForTimeOut` on every round of a wait. `sleep` and
`usleep` convert as the shim does. `due` is history: the ticks that have still to happen
before the caller's time is over, negative when it returns late. A sorted
list is the set of its tasks. Whether a round of a wait finds something is left open
(`PlaceSkipped`, `Retry`, `Return`): the data is in `KernelQueue`.

The three kernel modules are views of the same functions (`xQueueReceive`, `xTaskResumeAll`,
`xTaskIncrementTick`), each with the state that its properties need. `KernelQueue` uses of
time that a blocked task leaves its list when its ticks are over, which
`KernelTick` shows; the other direction, that an event removes a task from its list,
is an action of `KernelTick` that may happen at any time.

Operators whose comment starts with "Fault:" are plausible bugs used to show that each
property can fail; no specification uses them.

## Runs

| Run | Instance | Checks |
|---|---|---|
| `threads_safety` | 3 descriptors, 3 TCBs, 1 value; `halt`, `any`; 717 thousand states up to symmetry | `NoUseAfterFree`, `SelfIdentifies`, `RegistryAllocated`, `RegistryComplete` |
| `threads_heap` | 3 descriptors, 2 TCBs, 2 values; `return`, `self`; fairness; 151 thousand states | `NoLeak`, `IInv` (`TypeOK` is a part of it), `JoinedValue`, `Refines`, `JoinReturns` |
| `rx` | lengths 66, 68 and 1000, 4 frames, pool of 2, one queued message; fairness; 33 thousand states | `IInv` (`TypeOK` included), `BurstKept`, `MaskedWhileDraining`, `PoolConserved`, `FrameServed` |
| `queue_mailbox` | length 2, 2 messages, 3 tasks of priorities 1, 6 and 7 with the calls of `MailboxCalls` | `TypeOK`, `NoLostItem`, `NoLostRoom`, `IInv`, `Refines` |
| `queue_semaphore` | 3 tasks of one priority with the calls of `SemaphoreCalls`, gives and takes from interrupts; fairness | `IInv` (`TypeOK`, `NoLostItem` and `NoLostRoom` are parts of it), `UnlockedForTasks`, `Refines`, `CallReturns` |
| `mutex` | 4 tasks of priorities 1 to 4, two mutexes, nested by two tasks; fairness; 40 thousand states | `IInv` (`TypeOK` included), `Exclusive`, `PriorityRestored`, `Inherits`, `NoLostUnlock`, `RunsHighest`, `NeverHalts`, `NoDeadlock`, `Refines`, `UrgentServed` |
| `tick` | 2 tasks, counts modulo 4 and 2, block times 2 and "for ever", one second or one tick of sleep, one pended tick; fairness; 413 thousand states | `TypeOK`, `OnTime`, `NeverEarly`, `SwitchesEmpty`, `EventReaches`, `IInv`, `TimedReturns` |
| `doc_*` | as small as the disagreement allows | one documented statement each, violated |

*Bounds of the thread runs.* Three descriptors and three TCBs allow a creator, a
live thread and an exited thread that nobody has joined yet whose TCB address the
live one has inherited, which is the situation that the order of the registry has to
handle; and three tasks at once in create, join and exit. The fair run has two TCBs,
so that a second thread inherits the first one's TCB address before the first is
joined, and two values, so that a join could return the wrong one. The proofs of the
safety properties remove these bounds; only `JoinReturns` keeps them.

*Bounds of the receive run.* Four frames let one arrive in each of: the
initialisation, the handler, the drain loop, and the window before the interrupt is
enabled again. A pool of two buffers and one message exercise the drop path and
the refuse path. Lengths 66 and 68 are a length with a remainder and a multiple of four, of 17 words each, and two
rounds of the drop loop; a frame of 1000 bytes is received in one read or dropped in 16. Two frames received
and a long one dropped in the same burst are enough to eat a fourth, and the long one alone is not, so the
run has frames that are left behind (`NoLostWakeup` and `FrameTaken` fail in it) next to bursts that
lose none; `doc_drop_flush` has the smallest case. `CHECK_DEADLOCK
FALSE` is used because the systems may rest: all threads exited, or no more frames.

*Bounds of the queue runs.* Length two lets the ring wrap and leaves room while a
sender waits; three tasks are two competitors for an item and a third that produces it. Block
times are none, one or two ticks and for ever; one tick may pend. In the semaphore run the
lock count reaches its limit, `NumberOfTasks`.

*Bounds of the mutex run.* `low` nests `inner` in `outer`, so that it can hold two mutexes, be
waited for on both and give them back in either order, and so does `top`; `mid` shares `outer` with a block
time and without one; `high` waits for `outer` for ever. These are the
smallest sets in which a timeout withdraws a priority that another waiter still
lends, in which a task of middle priority could starve the most urgent one, and in which two tasks
could each hold the mutex that the other wants. `NoDeadlock` says that no set of
tasks waits on event lists with nobody outside it who could let one of them go on: neither a circle
of holders nor tasks that sleep on a free mutex. The instance has room for both: when `Nests` allows
both orders TLC finds `low` and `top` in a circle, and without the second look at the mutex before blocking
(`BlockWithoutRetest`) the sleepers. The order is the programs' part: the code does not enforce it. The two violation
instances change priorities and uses only.

*Bounds of the tick run.* With counts modulo 4 and 2 every behaviour overflows both
again and again, and a block time of 2 with a lag of 2 spans a complete wrap, the
edge of what `xTaskCheckForTimeOut` can measure. `Thousand` is 3 and equals the tick
rate as in the build, so that one second fits below the wrap and two do not. The proofs
remove these bounds.

*Fairness.* `threads_heap` assumes strong fairness of each task's steps inside the shim: FreeRTOS
time-slices tasks of equal priority, so a task that is ready again and again runs again
and again although `vTaskSuspendAll` of others disables it for moments. No
fairness is assumed of client calls: nobody has to call `pthread_exit`. `rx` assumes
weak fairness of the handler, of LWIP_RX and of the initialisation; frames need not
arrive and lwIP need not free anything. `queue_semaphore` and `tick` assume that the tick interrupt
goes on and, for the same reason as above, strong fairness of a task that has
started a call: the tasks of `queue_semaphore` have one priority, as all POSIX threads do
(`posix_shim.c:196`), and `KernelTick` does not distinguish priorities. `queue_mailbox`, whose
tasks have the different priorities of application, LWIP_RX and `tcpip_thread`, has no liveness property. `mutex` has the scheduler in the model and so assumes less: delays end,
the running task goes on with a call it has started, and a mutex whose holder gets to run again
and again is unlocked at last; that the holder does run is what inheritance has to
achieve and `UrgentServed` shows.

### What the violation runs show

* `doc_detach`: `pthread_exit` reads `t->detached` once, without a critical section shared with
  `pthread_detach`. A detach between this read and the end of the thread leaves a
  descriptor that is marked detached and that nobody frees. The memory is lost but never
  touched after a free (`NoUseAfterFree` holds with `DetachBy = "any"`), and with
  self-detaching only, nothing is lost (`NoLeak`).
* `doc_drop_flush`: `empty_rx_fifo` reads one word too many for lengths that are
  multiples of four; the drop loop does so once per 64 bytes, which can
  swallow the next packet and strand its status entry.
* `doc_unlock_not_owned`: `pthread_mutex_unlock` of a mutex another thread holds
  fails an assertion of the kernel, and the assertion handler never returns; the header promises -1.
* `doc_switch`: when the last mutex goes back and the caller's priority drops,
  `xQueueGenericSend` yields only if no task waits for this mutex or the waiting one
  is more urgent. With a waiting task whose priority is not above the caller's base priority, the caller runs on although a
  task of higher priority is ready, until the next tick or call; a comment in `tasks.c` says the switch
  occurs. In the `mutex` run, where whoever waits for the last mutex of `low` outranks it and nobody outranks `top`, the
  two that nest, `RunsHighest` holds.
* `doc_sleep`: `seconds * 1000UL` wraps.

Other disagreements with the documents that need no run: `pthread_join` never looks at
`detached`, and so waits on a semaphore that the detached thread deletes
(`posix_shim.h:65` says -1); a native task that inherits the TCB address of an exited, unjoined
thread gets its handle from `pthread_self` (`posix_shim.h:101` says NULL);
`empty_rx_fifo` does not stop at the packet border as `smsc9220_eth_drv.h:505` says; and a
full frame is 1518 bytes with its FCS, more than the 1516 of a pool buffer
(`lwipopts.h:86`).

Limits of the kernel that the models make visible and that nothing in the documents
denies: inheritance is not transitive (the holder of the mutex that a holder waits for
keeps its priority); an event list is not sorted again when the priority of a task in it
changes; and two complete wraps of the tick count within one round of a wait, 99
days, would be taken for one (`LagAssumption`).

## Proofs

`PosixThreadsProofs` proves, for every set of descriptors, TCBs and values and every
value of the two policy constants, from the three assumptions of
`PosixThreads` (NULL is no address or value, the main thread's addresses exist, the policies
are among those listed):

* `InvariantHolds`: `Spec => []IInv`;
* `TypeCorrect`, `MemorySafe` (`NoUseAfterFree`), `SelfCorrect` (`SelfIdentifies`),
  `RegistrySound` (`RegistryAllocated`), `RegistryCorrect` (`RegistryComplete`) and `JoinCorrect`
  (`JoinedValue`);
* `NothingLeaks` (`NoLeak`), for `DetachBy = "self"` (`doc_detach` shows the other case).

None of the properties is inductive alone. `IInv` says who owns a descriptor at
each step of its life: its creator until `xTaskResumeAll` (`CreatePart`), then its thread
until it gives `join_sem` or frees (`LivePart`), then its one joiner
(`JoinPart`, `GivenPart`); the scheduler is suspended exactly while a task exists that is not
registered (`SuspendPart`); nothing names what is not allocated (`FreePart`); and
of the registry's descriptors that carry a task's handle, the live one comes
first (`OrderPart`), which is why `find_thread` may stop at the first match.
`DetachPart` and `ValuePart` follow the detach claim and the exit value. `NoLeak` names the
parties that may still reclaim a descriptor; `LeakPart` says where they are: a
private descriptor is with a `pthread_create` at work (`Creates`), a detached one with its own
thread that has not passed the test of `pthread_exit` (`Reclaims`). The proof has one
lemma per action; lemmas on `find_thread` and `remove_thread` as operations on
sequences carry the registry parts.

`PosixThreadsRefines` proves `ThreadsRefine` (`Spec => Refines`) under the same assumptions, with
either detach policy. Each step is mapped to a step of `AbstractThreads` or to none:
`CreateResume` is `Create`, `ExitCall` is `Exit`, `ExitGive` is `End`, `ExitFree` is `Vanish`,
`JoinRetval` is `Await`, `JoinFree` is `JoinReturns`. `IInv` carries most of it: past its
take a join has no live thread (`JoinPart`), so that what it reads is final; a thread that frees its
descriptor was detached (`LivePart`, `DetachPart`); `pthread_exit` never misses its own descriptor.
`HandlePart` adds that a value has been passed exactly when the thread is in `pthread_exit` or gone
(`PassedPart`), and that a handle is given out before its thread begins (`HandOutPart`), because
the creator holds the scheduler.

`KernelQueueProofs` proves `QueueRefines` (`Spec => Refines`) for a queue of any
length, any tasks, items, block times and calls, semaphores included, from
`QueueAssumption`. The mapping needs an invariant: the next position to write is the one
behind the last item (`RingPart`), and the ticks waited are at least those that
`xTicksToWait` has lost (`CallPart`), so that an expired call has waited its
block time. Lemmas read the ring as a sequence (`ContentBack`, `ContentFront`,
`ContentTail`); then each action is mapped to a step of `BoundedQueue` or to none. `LockedOnlySuspended`
proves `UnlockedForTasks`, along an invariant on where in the code the queue is locked
(`LockInv`).

`KernelQueueWakeups` proves `QueueInvariant` (`Spec => []IInv`) and from it `QueueTypes`
(`TypeOK`), `ItemsReachReceivers` (`NoLostItem`) and `RoomReachesSenders` (`NoLostRoom`). The
properties count: while a task waits for items, there are no more items than tasks on their way to look
(`Coming`) plus the wake-ups that the lock count still owes, or that count is at its limit.
A take, a timeout and a wake-up move a task from one side of the count to the other, so
the proof is about cardinalities: each step adds or removes one task, or none. The strengthening says
who is in an event list (`ListInv`: once, with block time left, and not at a statement that
looks at the queue) and what a task knows that has found the queue empty and is about to
enter the list: the items that have arrived since are counted in the lock (`PlaceInv`), or the
lock count is at its limit. The limit is the delicate case: `cTxLock` stops at the number of tasks, and the
proof needs that no more tasks than that exist (`QueueAssumption`; `uxTaskGetNumberOfTasks` in
`queue.c`). The list that ticks leave behind (`Waiting`) is defined by ranks
and not with `SelectSeq`, whose recursion is beyond the prover.

`KernelTickProofs` proves `TickInvariant` (`Spec => []IInv`) and from it
`SleepsNoLonger` (`OnTime`), `TimesOutNoEarlier` (`NeverEarly`),
`OverflowFindsListEmpty` (`SwitchesEmpty`), `EventsReachWaiters` (`EventReaches`) and `TickTypes`
(`TypeOK`), for
every width of the counters, all tasks and all block times within `LagAssumption`,
and for arguments of `sleep` whose milliseconds fit (`SecondsFit`; `doc_sleep` shows the
others). The invariant compares modular times with plain numbers: `Left(t)`, the ticks
still due plus those the kernel has not counted yet, is the distance from the
tick count to a wake time in either list (`WakePart`), is a delay before it is
entered (`DelayPart`), and is what remains of a block time when the ticks since the time
of entering, recovered from tick count and overflow count (`Measured`), are
subtracted (`WaitPart`). `CountTickLists` shows that the cached head lets exactly the
tasks leave whose time has come.

`KernelMutexProofs` proves in four steps, each for any tasks, priorities and mutexes:

* for every program, also one that unlocks what it does not own or locks a mutex twice:
  `MutexInvariant` (`IInv`), `MutexTypes`, `MutualExclusion` (`Exclusive`), `PrioritiesReturn`
  (`PriorityRestored`) and `UnlocksReachWaiters` (`NoLostUnlock`), with any nesting and timeouts. The
  invariant adds who is in an event list (`ListPart`), that a call has a mutex that exists
  (`CallPart`), and where the task is that will look at a free mutex again (`WokenPart`).
  `MutexRefines` (`Spec => Refines`) is about every program, too: its mapping needs that the count of a mutex
  and its holder agree (`Exclusive`) and that a call gives up only with no time left (`CallPart`);
* for `Ordered` programs, in which a rank decreases from a held mutex to the next one locked:
  `LockOrderSuffices` (`NoDeadlock`). What a task wants may be locked while it holds what it
  owns (`OrderPart`); in a set of waiting tasks that nobody outside can let go on, the one that wants a mutex of least rank would wait for an
  owner that wants one of smaller rank, and a free mutex among those wanted has somebody coming for it (`WokenPart`). A program that relocks a mutex, or locks two
  in both orders, is not `Ordered`;
* for `Careful` programs, which unlock only what they own and lock nothing twice:
  `AssertionsHold` (`NeverHalts`). `doc_unlock_not_owned` shows a careless one;
* for `Flat` programs, which hold one mutex at a time and wait for it without limit:
  `HoldersInherit` (`Inherits`) and `HighestPriorityRuns` (`RunsHighest`). The application is such a
  program: `pthread_mutex_lock` and `sys_mutex_lock` pass `portMAX_DELAY`, and neither the demo
  nor lwIP takes a second mutex (core locking is off, and `mem.c` holds its mutex across its own
  statements only). In them a waiting task has its base priority,
  so event lists are sorted (`SortedPart`), a raised holder owes its priority to a task that still
  waits (`LentPart`), and the task that an unlock wakes is the most urgent one
  (`FirstPart`), which is why the yield of `xQueueGenericSend` suffices. Both
  conditions of `Flat` are needed. With nesting, a list is not sorted again after its tasks' priorities
  have changed, and a switch can be missing (`doc_switch`). With time limits and no nesting, a holder
  that took the mutex after a waiting task's time was over keeps the priority that was lent to the last
  one; it unlocks with only a less urgent task waiting, drops, and goes on without a
  switch, into a lock of another mutex ahead of a more urgent task (six tasks are enough for TLC to violate
  both properties). The `mutex` run has an instance with nesting and timeouts in which they hold.

`EthernetRxProofs` proves, for any frame lengths, pool size, queue length and number of frames:
`RxInvariant` (`IInv`), `RxTypes` (`TypeOK`), `DrainsUndisturbed` (`MaskedWhileDraining`), `BuffersConserved` (`PoolConserved`) and
`WakeupsKept`. The invariant follows the interrupt from its enable bit to the notification: it is enabled
exactly while LWIP_RX is blocked and not notified (`MaskPart`), the NVIC has latched what the
controller signals (`PendPart`), and a frame that has arrived is noticed (`LatePart`): LWIP_RX
is at work, or notified, or the interrupt is up. `WakeupsKept` states
`NoLostWakeup` up to `ReadEmpty`: LWIP_RX stops when the controller has no data left, whatever
status entries there are, so a frame whose words the driver has read with the frames before it (the over-read of
`doc_drop_flush`) may be left behind at rest. `BurstsKept` says when, for any
number of bursts, each of any frames: a frame is left behind only if LWIP_RX has read the
data port at least as often in its burst as the frame has words (`BurstKept`). A frame received is one read; one dropped is
a read for each 64 bytes, 24 for a full frame. The smallest frame has 16 words, so a burst of up to 15 received frames
loses none, and one dropped full frame can lose the next, as `doc_drop_flush` shows. The invariant (`WordPart`)
is about sums of words: the data FIFO holds the words of all frames in the status FIFO, and of the frame that
LWIP_RX is reading, but for one word per read of the burst; sums are running totals (`WordTotals`), so that
no induction over the FIFO is needed. A read takes at most one word more than the bytes it
is for (`OneWordMore`, `OneChunkLess`), and where the burst ends nothing is missing (`DrainedWords`).

Only model-checked: liveness (`JoinReturns`, `FrameServed`, `CallReturns`,
`UrgentServed`, `TimedReturns`), which is outside the prover's reach; `Inherits` and
`RunsHighest` with nesting and timeouts, where they hold of some programs only.

## Not modelled

The protocols of lwIP and its sockets; heap_4's free list (blocks are addresses); the
context switch in assembly (critical sections are atomic); MAC and PHY set-up in
the SMSC9220 driver; UART output. A failing `xTaskCreate` in `low_level_init` would halt
in the malloc hook like any other failed allocation. A failing `smsc9220_init` is
ignored by the code; in the model the receiver is then off. The transmit path is
sequential (only tcpip_thread calls it); what the controller makes of a packet whose
last fragment never comes is not in this repository. Of the kernel: resetting and peeking a
queue, queue sets, recursive mutexes, `vTaskPrioritySet`, `vTaskSuspend`,
`xTaskAbortDelay`, which the application does not call. Destroying a mutex or a
semaphore in use and exiting with a mutex: the code has no answer to these,
and the clients of the models do not do it. Inactive variants
(`main_full.c`) and kernel parts nobody calls (timers, event groups, stream
buffers) are left out. `PROJECT.json` lists these with their reasons.

## Plan

1. Done: `PosixThreads` over `AbstractThreads`, `EthernetRx`, `KernelQueue` over `BoundedQueue`,
   `KernelMutex` over `AbstractMutex`, `KernelTick`.
2. Done: a theorem for every invariant that a run checks, and for the three refinements, within the
   limits named above.
3. If more is modelled: the elapsed times that `sys_arch.c` returns, over `KernelTick`; the demo
   application over `BoundedQueue`, `AbstractMutex` and `AbstractThreads`.
