----------------------------- MODULE EthernetRx -----------------------------
(***************************************************************************)
(* The receive path of ethernetif.c: low_level_init, EthernetISR and the   *)
(* LWIP_RX task (ethernetif_input_task), over the SMSC9220 driver's        *)
(* register accesses, the Ethernet controller and the NVIC.                *)
(*                                                                         *)
(* Three things run concurrently: the controller, which receives frames at *)
(* any moment; the interrupt handler, which no task interrupts but between *)
(* whose register accesses frames still arrive; and the tasks.  LWIP_RX    *)
(* has a higher priority than the thread that runs low_level_init.         *)
(* Lengths are in bytes as the status word gives them, data in FIFO words. *)
(***************************************************************************)
EXTENDS Integers, Sequences

CONSTANTS
    Lengths,     \* packet lengths that occur (status word, FCS included)
    MaxFrames,   \* bound on the frames received in one behaviour
    PoolSize,    \* PBUF_POOL_SIZE
    BufSize,     \* PBUF_POOL_BUFSIZE, rounded up to MEM_ALIGNMENT
    MaxInput,    \* MEMP_NUM_TCPIP_MSG_INPKT: packets tcpip_input can queue
    DropBuf      \* sizeof(drop_buf)

ASSUME SizeAssumption ==
    /\ Lengths \subseteq Nat \ {0}
    /\ MaxFrames \in Nat /\ PoolSize \in Nat /\ MaxInput \in Nat
    /\ BufSize \in Nat \ {0} /\ DropBuf \in Nat \ {0}

VARIABLES
    rxOn,        \* the MAC receiver is enabled
    rxStatus,    \* RX status FIFO: one entry per frame not yet peeked
    rxData,      \* RX data FIFO: number of words in it
    count,       \* history: frames received so far
    intSts,      \* irq_status, RX status FIFO level bit
    intEn,       \* irq_enable, the same bit
    nvicOn,      \* the Ethernet IRQ is enabled in the NVIC
    nvicPend,    \* the Ethernet IRQ is pending in the NVIC
    init,        \* next statement of low_level_init
    handle,      \* xRxTaskHandle # NULL
    isr,         \* next statement of EthernetISR, or "idle"
    pc,          \* next statement of ethernetif_input_task
    notified,    \* its notification count is not zero
    packet_len,  \* its local variables packet_len and remaining
    remaining,
    held,        \* pool buffers of its local pbuf p
    pool,        \* free buffers of the pbuf pool
    input,       \* queue to tcpip_thread: pool buffers per packet
    kept         \* pool buffers of packets that lwIP has not freed yet

device == <<rxOn, rxStatus, rxData, count>>
irq == <<intSts, intEn, nvicOn, nvicPend>>
locals == <<packet_len, remaining, held>>
vars == <<device, irq, init, handle, isr, pc, notified, locals, pool, input, kept>>

InitPC == {"device", "nvic_off", "disable_all", "clear_all", "enable_rx", "create", "nvic_on", "done"}
IsrPC  == {"idle", "status", "notify", "clear", "disable", "clear_all"}
TaskPC == {"none", "take", "peek", "alloc", "receive", "input", "drop", "enable"}

\* An entry of the status FIFO, with its place in the order of arrival.
Frame == [id : 1..MaxFrames, len : Lengths, late : BOOLEAN]

TypeOK ==
    /\ rxOn \in BOOLEAN /\ rxData \in Nat /\ count \in 0..MaxFrames
    /\ rxStatus \in Seq(Frame)
    /\ intSts \in BOOLEAN /\ intEn \in BOOLEAN /\ nvicOn \in BOOLEAN /\ nvicPend \in BOOLEAN
    /\ init \in InitPC /\ isr \in IsrPC /\ pc \in TaskPC
    /\ handle \in BOOLEAN /\ notified \in BOOLEAN
    /\ packet_len \in Lengths \cup {0} /\ remaining \in Nat
    /\ held \in Nat /\ pool \in Nat /\ input \in Seq(Nat) /\ kept \in Nat

Init ==
    /\ rxOn = FALSE /\ rxStatus = << >> /\ rxData = 0 /\ count = 0
    /\ intSts = FALSE /\ intEn = FALSE /\ nvicOn = FALSE /\ nvicPend = FALSE
    /\ init = "device" /\ handle = FALSE
    /\ isr = "idle"
    /\ pc = "none" /\ notified = FALSE
    /\ packet_len = 0 /\ remaining = 0 /\ held = 0
    /\ pool = PoolSize /\ input = << >> /\ kept = 0

-----------------------------------------------------------------------------
(* The controller and the NVIC, as the driver uses them.                   *)

Ceil(n, d) == (n + d - 1) \div d
Words(len) == Ceil(len, 4)

\* The interrupt line is level-sensitive; when it rises the NVIC latches it.
Line(sts, en) == sts /\ en
Latch == nvicPend' = (nvicPend \/ Line(intSts', intEn'))

\* A frame arrives: data and status are queued and the status bit is latched.
\* It is late if it comes after low_level_init has cleared the status bits.
Arrive(len) ==
    /\ rxOn /\ count < MaxFrames
    /\ count' = count + 1
    /\ rxStatus' = Append(rxStatus, [id |-> count + 1, len |-> len,
                                     late |-> init \notin {"device", "nvic_off", "disable_all", "clear_all"}])
    /\ rxData' = rxData + Words(len)
    /\ intSts' = TRUE /\ UNCHANGED intEn /\ Latch
    /\ UNCHANGED <<rxOn, nvicOn, init, handle, isr, pc, notified, locals, pool, input, kept>>

\* Reading n words of the data port; an empty FIFO has none to give.
PopWords(n) == rxData' = IF n > rxData THEN 0 ELSE rxData - n

-----------------------------------------------------------------------------
(* EthernetISR.  Tasks wait until it is over.                              *)

IsrEnter ==
    /\ isr = "idle" /\ nvicOn /\ nvicPend
    /\ isr' = "status" /\ nvicPend' = FALSE
    /\ UNCHANGED <<device, intSts, intEn, nvicOn, init, handle, pc, notified, locals, pool, input, kept>>

\* get_irq_status, and the test of the RX bit.
IsrStatus ==
    /\ isr = "status"
    /\ isr' = IF intSts THEN "notify" ELSE "clear_all"
    /\ UNCHANGED <<device, irq, init, handle, pc, notified, locals, pool, input, kept>>

\* vTaskNotifyGiveFromISR, if there is a task to notify.
IsrNotify ==
    /\ isr = "notify" /\ isr' = "clear"
    /\ notified' = (notified \/ handle)
    /\ UNCHANGED <<device, irq, init, handle, pc, locals, pool, input, kept>>

\* smsc9220_clear_interrupt: writing the bit back clears it.
IsrClear ==
    /\ isr = "clear" /\ isr' = "disable"
    /\ intSts' = FALSE
    /\ UNCHANGED <<device, intEn, nvicOn, nvicPend, init, handle, pc, notified, locals, pool, input, kept>>

\* Fault: the interrupt stays enabled while the task drains the FIFO.
IsrStaysEnabled ==
    /\ isr = "disable" /\ isr' = "clear_all"
    /\ UNCHANGED <<device, irq, init, handle, pc, notified, locals, pool, input, kept>>

IsrDisable ==
    /\ isr = "disable" /\ isr' = "clear_all"
    /\ intEn' = FALSE
    /\ UNCHANGED <<device, intSts, nvicOn, nvicPend, init, handle, pc, notified, locals, pool, input, kept>>

\* smsc9220_clear_all_interrupts, then return from the exception.
IsrClearAll ==
    /\ isr = "clear_all" /\ isr' = "idle"
    /\ intSts' = FALSE
    /\ UNCHANGED <<device, intEn, nvicOn, nvicPend, init, handle, pc, notified, locals, pool, input, kept>>

EthernetISR == IsrEnter \/ IsrStatus \/ IsrNotify \/ IsrClear \/ IsrDisable \/ IsrClearAll

-----------------------------------------------------------------------------
(* ethernetif_input_task                                                   *)

\* A pending interrupt is taken before any task executes another statement.
TasksRun == isr = "idle" /\ ~(nvicOn /\ nvicPend)
TaskGoto(here, there) == TasksRun /\ pc = here /\ pc' = there

\* ulTaskNotifyTake(pdTRUE, portMAX_DELAY)
TaskTake ==
    /\ TaskGoto("take", "peek")
    /\ notified /\ notified' = FALSE
    /\ UNCHANGED <<device, irq, init, handle, isr, locals, pool, input, kept>>

\* smsc9220_peek_next_packet_size: nothing when the data FIFO is empty, else
\* the length from the status port, whose entry is thereby taken.
TaskPeek ==
    /\ TasksRun /\ pc = "peek"
    /\ \/ /\ rxData > 0 /\ rxStatus # << >>
          /\ packet_len' = Head(rxStatus).len
          /\ rxStatus' = Tail(rxStatus)
          /\ pc' = "alloc"
       \/ /\ rxData = 0 \/ rxStatus = << >>
          /\ packet_len' = 0
          /\ pc' = "enable"
          /\ UNCHANGED rxStatus
    /\ UNCHANGED <<rxOn, rxData, count, irq, init, handle, isr, notified,
                   remaining, held, pool, input, kept>>

\* pbuf_alloc(PBUF_RAW, packet_len, PBUF_POOL): a chain of pool buffers, or NULL.
TaskAlloc ==
    LET n == Ceil(packet_len, BufSize)
    IN  /\ TasksRun /\ pc = "alloc"
        /\ \/ /\ n <= pool
              /\ held' = n /\ pool' = pool - n /\ pc' = "receive"
              /\ UNCHANGED remaining
           \/ /\ n > pool
              /\ remaining' = packet_len /\ pc' = "drop"
              /\ UNCHANGED <<held, pool>>
        /\ UNCHANGED <<device, irq, init, handle, isr, notified, packet_len, input, kept>>

\* empty_rx_fifo reads the whole words of n bytes and then one word more.
WordsRead(n) == n \div 4 + 1

\* smsc9220_receive_by_chunks into p->payload.
TaskReceive ==
    /\ TaskGoto("receive", "input")
    /\ PopWords(WordsRead(packet_len))
    /\ UNCHANGED <<rxOn, rxStatus, count, irq, init, handle, isr, notified, locals, pool, input, kept>>

\* Fault: a packet that the stack refuses is not freed.
InputForgetsFree ==
    /\ TaskGoto("input", "peek")
    /\ (Len(input) < MaxInput /\ input' = Append(input, held)) \/ UNCHANGED input
    /\ held' = 0 /\ packet_len' = 0
    /\ UNCHANGED <<device, irq, init, handle, isr, notified, remaining, pool, kept>>

\* Fault: one packet per notification, "if" in place of "while".
InputOncePerNotify ==
    /\ TaskGoto("input", "enable")
    /\ \/ /\ Len(input) < MaxInput
          /\ input' = Append(input, held) /\ UNCHANGED pool
       \/ /\ pool' = pool + held /\ UNCHANGED input
    /\ held' = 0 /\ packet_len' = 0
    /\ UNCHANGED <<device, irq, init, handle, isr, notified, remaining, kept>>

\* netif->input, which is tcpip_input: the packet is queued for tcpip_thread,
\* or it is refused and freed here: always when no message is left for it, and
\* at any time because the mailbox may be full of other messages.
TaskInput ==
    /\ TaskGoto("input", "peek")
    /\ \/ /\ Len(input) < MaxInput
          /\ input' = Append(input, held) /\ UNCHANGED pool
       \/ /\ pool' = pool + held /\ UNCHANGED input
    /\ held' = 0 /\ packet_len' = 0
    /\ UNCHANGED <<device, irq, init, handle, isr, notified, remaining, kept>>

\* Fault: the last chunk is read as if it filled drop_buf.
DropWholeChunks ==
    LET chunk == IF remaining > DropBuf THEN DropBuf ELSE remaining
    IN  /\ TasksRun /\ pc = "drop"
        /\ PopWords(WordsRead(DropBuf))
        /\ remaining' = remaining - chunk
        /\ IF chunk = remaining
           THEN pc' = "peek" /\ packet_len' = 0
           ELSE UNCHANGED <<pc, packet_len>>
        /\ UNCHANGED <<rxOn, rxStatus, count, irq, init, handle, isr, notified, held, pool, input, kept>>

\* One round of the loop that discards a packet for which there was no pbuf.
TaskDrop ==
    LET chunk == IF remaining > DropBuf THEN DropBuf ELSE remaining
    IN  /\ TasksRun /\ pc = "drop"
        /\ PopWords(WordsRead(chunk))
        /\ remaining' = remaining - chunk
        /\ IF chunk = remaining
           THEN pc' = "peek" /\ packet_len' = 0
           ELSE UNCHANGED <<pc, packet_len>>
        /\ UNCHANGED <<rxOn, rxStatus, count, irq, init, handle, isr, notified, held, pool, input, kept>>

\* Fault: the task acknowledges the interrupt before it enables it again.
EnableAfterClear ==
    /\ TaskGoto("enable", "take")
    /\ intSts' = FALSE /\ intEn' = TRUE
    /\ UNCHANGED <<device, nvicOn, nvicPend, init, handle, isr, notified, locals, pool, input, kept>>

\* smsc9220_enable_interrupt: the line rises at once if the status bit is set.
TaskEnable ==
    /\ TaskGoto("enable", "take")
    /\ intEn' = TRUE /\ UNCHANGED intSts /\ Latch
    /\ UNCHANGED <<device, nvicOn, init, handle, isr, notified, locals, pool, input, kept>>

RxTask == TaskTake \/ TaskPeek \/ TaskAlloc \/ TaskReceive \/ TaskInput \/ TaskDrop \/ TaskEnable

\* tcpip_thread takes a packet and passes it to the stack,
TcpipConsume ==
    /\ TasksRun /\ input # << >>
    /\ kept' = kept + Head(input) /\ input' = Tail(input)
    /\ UNCHANGED <<device, irq, init, handle, isr, pc, notified, locals, pool>>

\* which frees its buffers when it is done with them, perhaps much later.
TcpipFree ==
    /\ TasksRun
    /\ \E n \in 1..kept : kept' = kept - n /\ pool' = pool + n
    /\ UNCHANGED <<device, irq, init, handle, isr, pc, notified, locals, input>>

-----------------------------------------------------------------------------
(* low_level_init, in the web server thread: it runs when LWIP_RX does not.*)

InitGoto(here, there) ==
    /\ TasksRun /\ (pc = "none" \/ (pc = "take" /\ ~notified))
    /\ init = here /\ init' = there

\* smsc9220_init enables the receiver at its end; its result is not looked at.
InitDevice ==
    /\ InitGoto("device", "nvic_off")
    /\ rxOn' \in BOOLEAN
    /\ UNCHANGED <<rxStatus, rxData, count, irq, handle, isr, pc, notified, locals, pool, input, kept>>

InitNvicOff ==
    /\ InitGoto("nvic_off", "disable_all")
    /\ nvicOn' = FALSE
    /\ UNCHANGED <<device, intSts, intEn, nvicPend, handle, isr, pc, notified, locals, pool, input, kept>>

InitDisableAll ==
    /\ InitGoto("disable_all", "clear_all")
    /\ intEn' = FALSE
    /\ UNCHANGED <<device, intSts, nvicOn, nvicPend, handle, isr, pc, notified, locals, pool, input, kept>>

InitClearAll ==
    /\ InitGoto("clear_all", "enable_rx")
    /\ intSts' = FALSE
    /\ UNCHANGED <<device, intEn, nvicOn, nvicPend, handle, isr, pc, notified, locals, pool, input, kept>>

InitEnableRx ==
    /\ InitGoto("enable_rx", "create")
    /\ intEn' = TRUE /\ UNCHANGED intSts /\ Latch
    /\ UNCHANGED <<device, nvicOn, handle, isr, pc, notified, locals, pool, input, kept>>

\* xTaskCreate stores the handle and LWIP_RX preempts its creator.
InitCreate ==
    /\ InitGoto("create", "nvic_on")
    /\ handle' = TRUE /\ pc' = "take"
    /\ UNCHANGED <<device, irq, isr, notified, locals, pool, input, kept>>

InitNvicOn ==
    /\ InitGoto("nvic_on", "done")
    /\ nvicOn' = TRUE
    /\ UNCHANGED <<device, intSts, intEn, nvicPend, handle, isr, pc, notified, locals, pool, input, kept>>

low_level_init ==
    InitDevice \/ InitNvicOff \/ InitDisableAll \/ InitClearAll \/ InitEnableRx \/ InitCreate \/ InitNvicOn

-----------------------------------------------------------------------------

Next ==
    \/ \E len \in Lengths : Arrive(len)
    \/ EthernetISR \/ RxTask \/ TcpipConsume \/ TcpipFree \/ low_level_init

Spec == Init /\ [][Next]_vars

\* An enabled interrupt is taken and its handler runs to its end; a ready
\* task runs, since interrupts are finite and LWIP_RX outranks the
\* application.  Frames need not arrive, and lwIP need not free a packet.
Fairness == WF_vars(EthernetISR) /\ WF_vars(RxTask) /\ WF_vars(low_level_init)
FairSpec == Spec /\ Fairness

-----------------------------------------------------------------------------
(* Properties                                                              *)

Queued(f) == \E i \in 1..Len(rxStatus) : rxStatus[i].id = f /\ rxStatus[i].late

\* The driver is initialised, no handler runs or is pending, and LWIP_RX is
\* blocked with no notification.
AtRest == init = "done" /\ isr = "idle" /\ ~nvicPend /\ pc = "take" /\ ~notified

\* When everything is at rest no frame that arrived after low_level_init
\* cleared the controller waits in the FIFO and the next one will
\* interrupt: the window between the task's last peek and its
\* smsc9220_enable_interrupt loses no wake-up.
NoLostWakeup == AtRest => intEn /\ ~intSts /\ \A f \in 1..MaxFrames : ~Queued(f)

\* At rest, and ready for the next frame, with a data FIFO that has been read empty:
\* empty_rx_fifo reads a word too many of a frame whose length is a multiple of four,
\* and so the words of frames behind it.
ReadEmpty == AtRest /\ intEn /\ ~intSts /\ rxData = 0

\* While LWIP_RX drains the FIFO its interrupt is masked: no handler
\* notifies it a second time, and its read-modify-write of irq_enable is
\* not interleaved with the handler's.
MaskedWhileDraining ==
    pc \notin {"none", "take"} => ~intEn /\ ~notified

\* The running totals of the packets in a queue.
Totals(s) == {p \in [0..Len(s) -> 0..PoolSize] : p[0] = 0 /\ \A i \in 1..Len(s) : p[i] = p[i - 1] + s[i]}

\* Every buffer of the pbuf pool is free, held by LWIP_RX, queued for
\* tcpip_thread or with the stack: a refused packet is freed once, an accepted one is
\* not freed by LWIP_RX.
PoolConserved == \E p \in Totals(input) : pool + held + p[Len(input)] + kept = PoolSize

\* Every frame that arrives after initialisation is taken from the FIFO,
\* also when it arrives while the handler or the task is at work, and also
\* when there is no pbuf for it.
FrameTaken == \A f \in 1..MaxFrames : Queued(f) ~> ~Queued(f)
-----------------------------------------------------------------------------
(* The inductive invariant of EthernetRxProofs.                            *)

\* Where low_level_init is tells what the interrupt path looks like before it is done.
InitPart ==
    /\ pc = "none" <=> init \notin {"nvic_on", "done"}
    /\ handle <=> pc # "none"
    /\ nvicOn <=> init = "done"
    /\ init # "done" => isr = "idle" /\ ~notified /\ pc \in {"none", "take"}
    /\ init \notin {"create", "nvic_on", "done"} => ~intEn /\ ~nvicPend
    /\ init \in {"create", "nvic_on"} => intEn

\* The interrupt is enabled exactly while LWIP_RX is blocked and not notified, and the
\* handler runs only while it is blocked.
MaskPart ==
    /\ init = "done" /\ isr \in {"idle", "status"} => (intEn <=> pc = "take" /\ ~notified)
    /\ isr # "idle" => pc = "take"
    /\ pc \notin {"none", "take"} => ~notified /\ ~nvicPend
    /\ isr = "status" => intSts \/ notified
    /\ isr = "notify" => intSts
    /\ isr \in {"clear", "disable", "clear_all"} => notified
    /\ isr = "clear_all" => ~intEn

\* Between handlers the NVIC has latched what the controller signals, and what
\* it has latched is signalled still or has reached LWIP_RX.
PendPart == isr = "idle" => /\ intSts /\ intEn => nvicPend
                            /\ nvicPend => notified \/ (intSts /\ intEn)

LateQueued == \E i \in 1..Len(rxStatus) : rxStatus[i].late

\* LWIP_RX will look for a frame that has arrived, or is told to, or an interrupt is due,
\* or nothing is left of the frame's data.
LatePart ==
    LateQueued =>
        /\ init \notin {"device", "nvic_off", "disable_all", "clear_all"}
        /\ init # "done" => intSts
        /\ init = "done" /\ pc \in {"take", "enable"} => notified \/ intSts \/ rxData = 0

HeldPart == held # 0 => pc \in {"receive", "input"}

IInv == TypeOK /\ InitPart /\ MaskPart /\ PendPart /\ LatePart /\ HeldPart /\ PoolConserved
=============================================================================
