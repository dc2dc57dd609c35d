-------------------------- MODULE EthernetRxProofs --------------------------
(***************************************************************************)
(* Proofs about the receive path, for any frame lengths, pool and buffer   *)
(* sizes and number of frames.                                             *)
(***************************************************************************)
EXTENDS EthernetRxBursts, NaturalLemmas, TLAPS

USE DEF device, irq, locals, InitPC, IsrPC, TaskPC

\* What the interrupt, its handler and the tasks agree on.
ControlPart == InitPart /\ MaskPart /\ PendPart

\* The statements of the three threads, one by one.
Statement ==
    \/ IsrEnter \/ IsrStatus \/ IsrNotify \/ IsrClear \/ IsrDisable \/ IsrClearAll
    \/ TaskTake \/ TaskPeek \/ TaskAlloc \/ TaskReceive \/ TaskInput \/ TaskDrop \/ TaskEnable
    \/ TcpipConsume \/ TcpipFree
    \/ InitDevice \/ InitNvicOff \/ InitDisableAll \/ InitClearAll \/ InitEnableRx \/ InitCreate \/ InitNvicOn

\* A step is a frame that arrives or a statement.
LEMMA NextIs ==
    ASSUME [Next]_vars
    PROVE  UNCHANGED vars \/ (\E len \in Lengths : Arrive(len)) \/ Statement
  BY DEF Next, EthernetISR, RxTask, low_level_init, Statement

-----------------------------------------------------------------------------
(* Types.                                                                  *)

\* A division that rounds up yields a natural number.
LEMMA CeilNat == ASSUME NEW n \in Nat, NEW d \in Nat \ {0} PROVE Ceil(n, d) \in Nat
  BY DEF Ceil

\* A frame of at least one byte fills at least one word.
LEMMA WordsPositive == ASSUME NEW n \in Nat \ {0} PROVE Words(n) \in Nat \ {0}
  BY DEF Words, Ceil

\* Reading the data port leaves a number of words.
LEMMA PopNat ==
    ASSUME TypeOK, NEW n \in Nat, PopWords(n)
    PROVE  rxData' \in Nat
  BY DEF TypeOK, PopWords

\* Every step keeps the types.
LEMMA NextTypes == ASSUME TypeOK, [Next]_vars PROVE TypeOK'
<1> USE DEF TypeOK
<1>1. CASE UNCHANGED vars
    BY <1>1 DEF vars
<1>2. ASSUME NEW len \in Lengths, Arrive(len) PROVE TypeOK'
    <2>1. Words(len) \in Nat
        BY SizeAssumption, WordsPositive
    <2>2. [id |-> count + 1, len |-> len, late |-> init \notin {"device", "nvic_off", "disable_all", "clear_all"}]
             \in Frame
        BY <1>2, SizeAssumption DEF Arrive, Frame
    <2>3. rxStatus' \in Seq(Frame)
        BY <1>2, <2>2 DEF Arrive
    <2> QED BY <1>2, <2>1, <2>3, SizeAssumption DEF Arrive, Latch, Line
<1>3. CASE IsrEnter
    <2>1. isr' \in IsrPC /\ nvicPend' \in BOOLEAN
        BY <1>3 DEF IsrEnter
    <2>2. UNCHANGED <<device, intSts, intEn, nvicOn, init, handle, pc, notified, locals, pool, input, kept>>
        BY <1>3 DEF IsrEnter
    <2> QED BY <2>1, <2>2
<1>4. CASE IsrStatus
    BY <1>4 DEF IsrStatus
<1>5. CASE IsrNotify
    BY <1>5 DEF IsrNotify
<1>6. CASE IsrClear
    <2>1. isr' \in IsrPC /\ intSts' \in BOOLEAN /\ intEn' \in BOOLEAN
        BY <1>6 DEF IsrClear
    <2>2. UNCHANGED <<device, nvicOn, nvicPend, init, handle, pc, notified, locals, pool, input, kept>>
        BY <1>6 DEF IsrClear
    <2> QED BY <2>1, <2>2
<1>7. CASE IsrDisable
    <2>1. isr' \in IsrPC /\ intSts' \in BOOLEAN /\ intEn' \in BOOLEAN
        BY <1>7 DEF IsrDisable
    <2>2. UNCHANGED <<device, nvicOn, nvicPend, init, handle, pc, notified, locals, pool, input, kept>>
        BY <1>7 DEF IsrDisable
    <2> QED BY <2>1, <2>2
<1>8. CASE IsrClearAll
    <2>1. isr' \in IsrPC /\ intSts' \in BOOLEAN /\ intEn' \in BOOLEAN
        BY <1>8 DEF IsrClearAll
    <2>2. UNCHANGED <<device, nvicOn, nvicPend, init, handle, pc, notified, locals, pool, input, kept>>
        BY <1>8 DEF IsrClearAll
    <2> QED BY <2>1, <2>2
<1>9. CASE TaskTake
    BY <1>9 DEF TaskTake, TaskGoto, TasksRun, PopWords
<1>10. CASE TaskPeek
    <2>1. ASSUME rxStatus # << >>
          PROVE  Head(rxStatus).len \in Lengths /\ Tail(rxStatus) \in Seq(Frame)
        <3>1. Head(rxStatus) \in Frame /\ Tail(rxStatus) \in Seq(Frame)
            BY <2>1
        <3> QED BY <3>1 DEF Frame
    <2>2. packet_len' \in Lengths \cup {0} /\ rxStatus' \in Seq(Frame) /\ pc' \in {"alloc", "enable"}
        BY <1>10, <2>1 DEF TaskPeek
    <2>3. UNCHANGED <<rxOn, rxData, count, irq, init, handle, isr, notified, remaining, held, pool, input, kept>>
        BY <1>10 DEF TaskPeek
    <2> QED BY <2>2, <2>3
<1>11. CASE TaskAlloc
    <2>1. Ceil(packet_len, BufSize) \in Nat
        BY SizeAssumption, CeilNat
    <2>2. /\ held' \in Nat /\ pool' \in Nat /\ remaining' \in Nat /\ pc' \in TaskPC
          /\ UNCHANGED <<device, irq, init, handle, isr, notified, packet_len, input, kept>>
        <3> DEFINE n == Ceil(packet_len, BufSize)
        <3>1. n \in Nat
            BY <2>1
        <3>2. \/ n <= pool /\ held' = n /\ pool' = pool - n /\ pc' = "receive" /\ UNCHANGED remaining
              \/ remaining' = packet_len /\ pc' = "drop" /\ UNCHANGED <<held, pool>>
            BY <1>11 DEF TaskAlloc
        <3>3. packet_len \in Nat
            BY SizeAssumption
        <3> HIDE DEF n
        <3>4. UNCHANGED <<device, irq, init, handle, isr, notified, packet_len, input, kept>>
            BY <1>11 DEF TaskAlloc
        <3> QED BY <3>1, <3>2, <3>3, <3>4
    <2> QED BY <2>2
<1>12. CASE TaskReceive
    <2>1. WordsRead(packet_len) \in Nat
        BY SizeAssumption DEF WordsRead
    <2>2. rxData' \in Nat
        BY <1>12, <2>1, PopNat DEF TaskReceive
    <2> QED BY <1>12, <2>2 DEF TaskReceive, TaskGoto, TasksRun
<1>13. CASE TaskInput
    <2>1. held' = 0 /\ packet_len' = 0 /\ pc' = "peek"
        BY <1>13 DEF TaskInput, TaskGoto
    <2>2. pool' \in Nat /\ input' \in Seq(Nat)
        <3>1. input \in Seq(Nat) /\ held \in Nat /\ pool \in Nat
            OBVIOUS
        <3>2. Append(input, held) \in Seq(Nat) /\ pool + held \in Nat
            BY <3>1
        <3>3. (input' = Append(input, held) /\ pool' = pool) \/ (pool' = pool + held /\ input' = input)
            BY <1>13 DEF TaskInput
        <3> QED BY <3>1, <3>2, <3>3
    <2>3. UNCHANGED <<device, irq, init, handle, isr, notified, remaining, kept>>
        BY <1>13 DEF TaskInput
    <2> QED BY <2>1, <2>2, <2>3
<1>14. CASE TaskDrop
    <2> DEFINE chunk == IF remaining > DropBuf THEN DropBuf ELSE remaining
    <2>1. chunk \in Nat /\ remaining - chunk \in Nat
        BY SizeAssumption
    <2>2. WordsRead(chunk) \in Nat
        BY <2>1 DEF WordsRead
    <2>3. rxData' \in Nat
        BY <1>14, <2>2, PopNat DEF TaskDrop
    <2> HIDE DEF chunk
    <2>4. /\ remaining' = remaining - chunk /\ pc' \in {pc, "peek"} /\ packet_len' \in {packet_len, 0}
          /\ UNCHANGED <<rxOn, rxStatus, count, irq, init, handle, isr, notified, held, pool, input, kept>>
        BY <1>14 DEF TaskDrop, TasksRun, chunk
    <2> QED BY <2>1, <2>3, <2>4
<1>15. CASE TaskEnable
    BY <1>15 DEF TaskEnable, TaskGoto, TasksRun, PopWords, Latch, Line
<1>16. CASE TcpipConsume
    BY <1>16 DEF TcpipConsume, TasksRun
<1>17. CASE TcpipFree
    BY <1>17 DEF TcpipFree, TasksRun
<1>18. CASE InitDevice
    BY <1>18 DEF InitDevice, InitGoto, TasksRun
<1>19. CASE InitNvicOff
    BY <1>19 DEF InitNvicOff, InitGoto, TasksRun
<1>20. CASE InitDisableAll
    BY <1>20 DEF InitDisableAll, InitGoto, TasksRun
<1>21. CASE InitClearAll
    BY <1>21 DEF InitClearAll, InitGoto, TasksRun
<1>22. CASE InitEnableRx
    BY <1>22 DEF InitEnableRx, InitGoto, TasksRun, Latch, Line
<1>23. CASE InitCreate
    BY <1>23 DEF InitCreate, InitGoto, TasksRun
<1>24. CASE InitNvicOn
    BY <1>24 DEF InitNvicOn, InitGoto, TasksRun
<1> QED BY <1>1, <1>2, <1>3, <1>4, <1>5, <1>6, <1>7, <1>8, <1>9, <1>10, <1>11, <1>12,
           <1>13, <1>14, <1>15, <1>16, <1>17, <1>18, <1>19, <1>20, <1>21, <1>22, <1>23, <1>24,
           NextIs DEF Statement

-----------------------------------------------------------------------------
(* The interrupt, its handler and the tasks.                               *)

\* Every step keeps ControlPart.
LEMMA NextControl == ASSUME TypeOK, ControlPart, [Next]_vars PROVE ControlPart'
<1> USE DEF TypeOK, ControlPart, InitPart, MaskPart, PendPart
<1>1. CASE UNCHANGED vars
    BY <1>1 DEF vars
<1>2. ASSUME NEW len \in Lengths, Arrive(len) PROVE ControlPart'
    BY <1>2 DEF Arrive, Latch, Line
<1>3. CASE IsrEnter
    BY <1>3 DEF IsrEnter
<1>4. CASE IsrStatus
    BY <1>4 DEF IsrStatus
<1>5. CASE IsrNotify
    BY <1>5 DEF IsrNotify
<1>6. CASE IsrClear
    BY <1>6 DEF IsrClear
<1>7. CASE IsrDisable
    BY <1>7 DEF IsrDisable
<1>8. CASE IsrClearAll
    BY <1>8 DEF IsrClearAll
<1>9. CASE TaskTake
    BY <1>9 DEF TaskTake, TaskGoto, TasksRun, PopWords
<1>10. CASE TaskPeek
    BY <1>10 DEF TaskPeek, TaskGoto, TasksRun, PopWords
<1>11. CASE TaskAlloc
    BY <1>11 DEF TaskAlloc, TaskGoto, TasksRun, PopWords
<1>12. CASE TaskReceive
    BY <1>12 DEF TaskReceive, TaskGoto, TasksRun, PopWords
<1>13. CASE TaskInput
    BY <1>13 DEF TaskInput, TaskGoto, TasksRun, PopWords
<1>14. CASE TaskDrop
    BY <1>14 DEF TaskDrop, TaskGoto, TasksRun, PopWords
<1>15. CASE TaskEnable
    BY <1>15 DEF TaskEnable, TaskGoto, TasksRun, PopWords, Latch, Line
<1>16. CASE TcpipConsume
    BY <1>16 DEF TcpipConsume, TasksRun
<1>17. CASE TcpipFree
    BY <1>17 DEF TcpipFree, TasksRun
<1>18. CASE InitDevice
    BY <1>18 DEF InitDevice, InitGoto, TasksRun
<1>19. CASE InitNvicOff
    BY <1>19 DEF InitNvicOff, InitGoto, TasksRun
<1>20. CASE InitDisableAll
    BY <1>20 DEF InitDisableAll, InitGoto, TasksRun
<1>21. CASE InitClearAll
    BY <1>21 DEF InitClearAll, InitGoto, TasksRun
<1>22. CASE InitEnableRx
    BY <1>22 DEF InitEnableRx, InitGoto, TasksRun, Latch, Line
<1>23. CASE InitCreate
    BY <1>23 DEF InitCreate, InitGoto, TasksRun
<1>24. CASE InitNvicOn
    BY <1>24 DEF InitNvicOn, InitGoto, TasksRun
<1> QED BY <1>1, <1>2, <1>3, <1>4, <1>5, <1>6, <1>7, <1>8, <1>9, <1>10, <1>11, <1>12,
           <1>13, <1>14, <1>15, <1>16, <1>17, <1>18, <1>19, <1>20, <1>21, <1>22, <1>23, <1>24,
           NextIs DEF Statement

-----------------------------------------------------------------------------
(* Frames in the FIFO.                                                     *)

\* What LateQueued becomes when a frame arrives or one is taken.
LEMMA LateTaken ==
    ASSUME TypeOK, rxStatus # << >>, rxStatus' = Tail(rxStatus), LateQueued'
    PROVE  LateQueued
<1>1. PICK i \in 1..Len(Tail(rxStatus)) : Tail(rxStatus)[i].late
    BY DEF LateQueued
<1>2. i + 1 \in 1..Len(rxStatus) /\ Tail(rxStatus)[i] = rxStatus[i + 1]
    BY DEF TypeOK
<1>3. rxStatus[i + 1].late
    BY <1>1, <1>2
<1> QED BY <1>2, <1>3 DEF LateQueued

\* A frame that arrives before low_level_init has cleared the status bits is not late.
LEMMA LateArrives ==
    ASSUME TypeOK, NEW len \in Lengths, Arrive(len), LateQueued'
    PROVE  LateQueued \/ init \notin {"device", "nvic_off", "disable_all", "clear_all"}
<1> SUFFICES ASSUME init \in {"device", "nvic_off", "disable_all", "clear_all"} PROVE LateQueued
    OBVIOUS
<1> DEFINE f == [id |-> count + 1, len |-> len,
                 late |-> init \notin {"device", "nvic_off", "disable_all", "clear_all"}]
<1>1. rxStatus' = Append(rxStatus, f)
    BY DEF Arrive
<1>2. ~f.late
    OBVIOUS
<1> HIDE DEF f
<1>3. PICK i \in 1..Len(rxStatus') : rxStatus'[i].late
    BY DEF LateQueued
<1>4. Len(rxStatus) \in Nat /\ Len(rxStatus') = Len(rxStatus) + 1
    BY <1>1 DEF TypeOK
<1>5. i = Len(rxStatus) + 1 => rxStatus'[i] = f
    BY <1>1 DEF TypeOK
<1>6. i \in 1..Len(rxStatus) /\ rxStatus'[i] = rxStatus[i]
    BY <1>1, <1>2, <1>3, <1>4, <1>5 DEF TypeOK
<1>7. rxStatus[i].late
    BY <1>3, <1>6
<1> QED BY <1>6, <1>7 DEF LateQueued

\* Every step keeps LatePart: the handler clears the status bit only when LWIP_RX is
\* notified, and LWIP_RX stops only when it has found nothing.
LEMMA NextLate ==
    ASSUME TypeOK, ControlPart, LatePart, [Next]_vars PROVE LatePart'
<1> USE DEF LatePart
<1>1. ASSUME NEW len \in Lengths, Arrive(len) PROVE LatePart'
    <2>1. intSts' /\ UNCHANGED <<init, pc, notified>>
        BY <1>1 DEF Arrive
    <2> QED BY <1>1, <2>1, LateArrives
<1>2. CASE TaskPeek
    <2>1. UNCHANGED <<init, notified, intSts, rxData>> /\ pc = "peek" /\ init = "done"
        BY <1>2 DEF TaskPeek, ControlPart, InitPart
    <2>2. CASE rxData > 0 /\ rxStatus # << >> /\ rxStatus' = Tail(rxStatus) /\ pc' = "alloc"
        BY <2>1, <2>2, LateTaken
    <2>3. CASE (rxData = 0 \/ rxStatus = << >>) /\ UNCHANGED rxStatus
        <3>1. rxStatus = << >> => ~LateQueued'
            BY <2>3 DEF LateQueued
        <3> QED BY <2>1, <2>3, <3>1 DEF LateQueued
    <2> QED BY <1>2, <2>2, <2>3 DEF TaskPeek
<1>3. CASE ~TaskPeek /\ (UNCHANGED vars \/ Statement)
    <2>1. LateQueued' <=> LateQueued
        <3>1. UNCHANGED rxStatus
            BY <1>3 DEF Statement, vars, IsrEnter, IsrStatus, IsrNotify, IsrClear, IsrDisable, IsrClearAll,
                        TaskTake, TaskAlloc, TaskReceive, TaskInput, TaskDrop, TaskEnable, TcpipConsume, TcpipFree,
                        InitDevice, InitNvicOff, InitDisableAll, InitClearAll, InitEnableRx, InitCreate, InitNvicOn
        <3> QED BY <3>1 DEF LateQueued
    <2>2. CASE UNCHANGED vars
        BY <2>1, <2>2 DEF vars
    <2>3. CASE IsrEnter \/ IsrStatus \/ IsrNotify \/ IsrDisable
        BY <2>1, <2>3 DEF IsrEnter, IsrStatus, IsrNotify, IsrDisable, TypeOK
    <2>4. CASE IsrClear \/ IsrClearAll
        BY <2>1, <2>4 DEF IsrClear, IsrClearAll, ControlPart, InitPart, MaskPart
    <2>5. CASE TaskTake \/ TaskAlloc \/ TaskInput
        BY <2>1, <2>5 DEF TaskTake, TaskAlloc, TaskInput, TaskGoto, ControlPart, InitPart
    <2>6. CASE TaskReceive \/ TaskDrop
        <3>1. pc \in {"receive", "drop"} /\ pc' \in {"input", "drop", "peek"} /\ UNCHANGED <<init, notified, intSts>>
            BY <2>6 DEF TaskReceive, TaskDrop, TaskGoto
        <3> QED BY <2>1, <3>1 DEF ControlPart, InitPart
    <2>7. CASE TaskEnable
        BY <2>1, <2>7 DEF TaskEnable, TaskGoto
    <2>8. CASE TcpipConsume \/ TcpipFree
        BY <2>1, <2>8 DEF TcpipConsume, TcpipFree
    <2>9. CASE InitDevice \/ InitNvicOff \/ InitDisableAll \/ InitClearAll
        BY <2>1, <2>9 DEF InitDevice, InitNvicOff, InitDisableAll, InitClearAll, InitGoto
    <2>10. CASE InitEnableRx \/ InitCreate \/ InitNvicOn
        BY <2>1, <2>10 DEF InitEnableRx, InitCreate, InitNvicOn, InitGoto
    <2> QED BY <1>3, <2>2, <2>3, <2>4, <2>5, <2>6, <2>7, <2>8, <2>9, <2>10 DEF Statement
<1> QED BY <1>1, <1>2, <1>3, NextIs

-----------------------------------------------------------------------------
(* The pbuf pool.                                                          *)

\* A packet joins the queue to tcpip_thread.
LEMMA TotalsAppend ==
    ASSUME NEW s \in Seq(Nat), NEW n \in Nat, NEW p \in Totals(s), p[Len(s)] + n <= PoolSize
    PROVE  \E q \in Totals(Append(s, n)) : q[Len(s) + 1] = p[Len(s)] + n
<1> DEFINE q == [i \in 0..Len(Append(s, n)) |-> IF i = Len(s) + 1 THEN p[Len(s)] + n ELSE p[i]]
<1>1. /\ Len(s) \in Nat /\ Len(Append(s, n)) = Len(s) + 1 /\ Append(s, n)[Len(s) + 1] = n
      /\ \A i \in 1..Len(s) : Append(s, n)[i] = s[i]
    OBVIOUS
<1>2. /\ p \in [0..Len(s) -> 0..PoolSize] /\ p[0] = 0 /\ \A i \in 1..Len(s) : p[i] = p[i - 1] + s[i]
      /\ p[Len(s)] \in 0..PoolSize
    BY <1>1 DEF Totals
<1>3. q \in [0..(Len(s) + 1) -> 0..PoolSize] /\ q[0] = 0 /\ q[Len(s) + 1] = p[Len(s)] + n
    BY <1>1, <1>2, SizeAssumption
<1>4. ASSUME NEW i \in 1..(Len(s) + 1) PROVE q[i] = q[i - 1] + Append(s, n)[i]
    <2>1. CASE i = Len(s) + 1
        BY <2>1, <1>1, <1>2
    <2>2. CASE i # Len(s) + 1
        <3>1. i \in 1..Len(s) /\ i - 1 \in 0..Len(s) /\ i - 1 # Len(s) + 1
            BY <2>2, <1>1
        <3> QED BY <2>2, <3>1, <1>1, <1>2
    <2> QED BY <2>1, <2>2
<1> HIDE DEF q
<1>5. q \in Totals(Append(s, n))
    BY <1>1, <1>3, <1>4 DEF Totals
<1> QED BY <1>3, <1>5

\* tcpip_thread takes the first packet of the queue.
LEMMA TotalsTail ==
    ASSUME NEW s \in Seq(Nat), s # << >>, NEW p \in Totals(s)
    PROVE  \E q \in Totals(Tail(s)) : q[Len(Tail(s))] + Head(s) = p[Len(s)]
<1> DEFINE q == [i \in 0..Len(Tail(s)) |-> p[i + 1] - s[1]]
<1>1. /\ Len(s) \in Nat /\ Len(s) > 0 /\ Len(Tail(s)) = Len(s) - 1 /\ Head(s) = s[1]
      /\ \A i \in 1..(Len(s) - 1) : Tail(s)[i] = s[i + 1]
      /\ \A i \in 1..Len(s) : s[i] \in Nat
    OBVIOUS
<1>2. p \in [0..Len(s) -> 0..PoolSize] /\ p[0] = 0 /\ \A i \in 1..Len(s) : p[i] = p[i - 1] + s[i]
    BY DEF Totals
<1>10. /\ \A i \in 1..Len(s) : i \in 0..Len(s) /\ i - 1 \in 0..Len(s) /\ i - 1 \in 0..(Len(s) - 1)
       /\ \A i \in 0..(Len(s) - 1) : i + 1 \in 1..Len(s) /\ i + 1 \in 0..Len(s)
       /\ s[1] \in Nat
    BY <1>1
<1>11. \A i \in 0..Len(s) : p[i] \in 0..PoolSize /\ p[i] \in Nat
    <2>1. \A k \in 0..PoolSize : k \in Nat
        OBVIOUS
    <2> QED BY <1>2, <2>1
<1>12. \A i \in 1..Len(s) : p[i] \in Nat /\ p[i - 1] \in Nat /\ s[i] \in Nat /\ p[i] = p[i - 1] + s[i]
    BY <1>1, <1>2, <1>10, <1>11
<1>3. p[1] = s[1]
    <2>1. 1 \in 1..Len(s) /\ 1 - 1 = 0 /\ s[1] \in Nat
        BY <1>1
    <2>2. p[1] = p[1 - 1] + s[1]
        BY <2>1, <1>2
    <2> QED BY <2>1, <2>2, <1>2
<1>4. \A i \in 1..Len(s) : p[i] >= s[1]
    <2> DEFINE T == {i \in 1..Len(s) : p[i] < s[1]}
    <2> SUFFICES ASSUME T # {} PROVE FALSE
        <3>1. \A i \in 1..Len(s) : p[i] \in Nat /\ (i \notin T => ~(p[i] < s[1]))
            BY <1>12
        <3> HIDE DEF T
        <3> QED BY <3>1, <1>10
    <2>1. PICK x \in T : \A y \in T : x <= y
        <3>1. T \subseteq Nat
            BY <1>1
        <3> QED BY <3>1, LeastNatural
    <2>2. x \in 1..Len(s) /\ p[x] < s[1] /\ x # 1
        BY <1>1, <1>3
    <2>3. x - 1 \in 1..Len(s) /\ ~(x <= x - 1)
        BY <2>2, <1>1
    <2>4. p[x - 1] >= s[1]
        <3>1. x - 1 \notin T
            BY <2>1, <2>3
        <3> QED BY <2>3, <3>1, <1>10, <1>12
    <2>5. p[x] = p[x - 1] + s[x] /\ s[x] \in Nat /\ p[x - 1] \in Nat /\ s[1] \in Nat
        BY <2>2, <1>10, <1>12
    <2> QED BY <2>2, <2>4, <2>5
<1>5. \A i \in 0..(Len(s) - 1) : i + 1 \in 1..Len(s) /\ p[i + 1] \in 0..PoolSize /\ p[i + 1] >= s[1]
    BY <1>4, <1>10, <1>11
<1>6. q \in [0..(Len(s) - 1) -> 0..PoolSize] /\ q[0] = 0
    <2>1. s[1] \in Nat
        BY <1>1
    <2>2. \A i \in 0..(Len(s) - 1) : p[i + 1] - s[1] \in 0..PoolSize
        BY <2>1, <1>5, SizeAssumption
    <2>3. 0 \in 0..(Len(s) - 1) /\ 0 + 1 = 1
        BY <1>1
    <2> QED BY <2>1, <2>2, <2>3, <1>1, <1>3
<1>7. ASSUME NEW i \in 1..(Len(s) - 1) PROVE q[i] = q[i - 1] + Tail(s)[i]
    <2>1. /\ i \in 0..(Len(s) - 1) /\ i - 1 \in 0..(Len(s) - 1) /\ i + 1 \in 1..Len(s)
          /\ (i - 1) + 1 = i /\ (i + 1) - 1 = i /\ i \in 1..Len(s)
        BY <1>1
    <2>2. q[i] = p[i + 1] - s[1] /\ q[i - 1] = p[i] - s[1] /\ Tail(s)[i] = s[i + 1]
        BY <2>1, <1>1
    <2>3. p[i + 1] = p[i] + s[i + 1]
        BY <2>1, <1>2
    <2>4. p[i] \in Nat /\ s[i + 1] \in Nat /\ s[1] \in Nat
        BY <2>1, <1>10, <1>12
    <2> QED BY <2>2, <2>3, <2>4
<1>8. q[Len(s) - 1] + s[1] = p[Len(s)]
    <2>1. Len(s) - 1 \in 0..(Len(s) - 1) /\ (Len(s) - 1) + 1 = Len(s) /\ Len(s) \in 1..Len(s)
        BY <1>1
    <2>2. q[Len(s) - 1] = p[Len(s)] - s[1]
        BY <2>1, <1>1
    <2>3. p[Len(s)] \in Nat /\ s[1] \in Nat
        BY <2>1, <1>1, <1>2, SizeAssumption
    <2> QED BY <2>2, <2>3
<1> HIDE DEF q
<1>9. q \in Totals(Tail(s))
    BY <1>1, <1>6, <1>7 DEF Totals
<1> QED BY <1>1, <1>8, <1>9

\* Every step keeps the buffers: where they go is where they are counted.
LEMMA NextPool ==
    ASSUME TypeOK, HeldPart, PoolConserved, [Next]_vars PROVE HeldPart' /\ PoolConserved'
<1>0. /\ held \in Nat /\ pool \in Nat /\ kept \in Nat /\ input \in Seq(Nat) /\ PoolSize \in Nat
      /\ Len(input) \in Nat
    BY SizeAssumption DEF TypeOK
<1>1. PICK p \in Totals(input) : pool + held + p[Len(input)] + kept = PoolSize
    BY DEF PoolConserved
<1>2. p[Len(input)] \in Nat
    BY <1>0 DEF Totals
<1>3. CASE TaskAlloc
    <2>1. held = 0 /\ UNCHANGED <<input, kept>>
        BY <1>3 DEF TaskAlloc, HeldPart
    <2> DEFINE n == Ceil(packet_len, BufSize)
    <2>2. \/ held' = n /\ pool' = pool - n /\ pc' = "receive"
          \/ held' = 0 /\ pool' = pool
        BY <1>3, <2>1 DEF TaskAlloc
    <2>3. n \in Nat
        BY SizeAssumption, CeilNat DEF TypeOK
    <2> HIDE DEF n
    <2>4. pool' + held' = pool + held
        BY <2>1, <2>2, <2>3, <1>0
    <2>5. pool' + held' + p[Len(input)] + kept = PoolSize
        BY <2>4, <1>1
    <2> QED BY <2>1, <2>2, <2>5 DEF HeldPart, PoolConserved
<1>4. CASE TaskInput
    <2>1. held' = 0 /\ UNCHANGED kept
        BY <1>4 DEF TaskInput
    <2>2. CASE pool' = pool + held /\ UNCHANGED input
        <3>1. pool' + held' + p[Len(input)] + kept = PoolSize
            BY <2>1, <2>2, <1>0, <1>1, <1>2
        <3> QED BY <2>1, <2>2, <3>1 DEF HeldPart, PoolConserved
    <2>3. CASE input' = Append(input, held) /\ UNCHANGED pool
        <3>1. p[Len(input)] + held <= PoolSize
            BY <1>0, <1>1, <1>2
        <3>2. PICK q \in Totals(Append(input, held)) : q[Len(input) + 1] = p[Len(input)] + held
            BY <3>1, <1>0, TotalsAppend
        <3>3. Len(input') = Len(input) + 1
            BY <2>3, <1>0
        <3>4. pool' + held' + q[Len(input')] + kept' = PoolSize
            BY <2>1, <2>3, <3>2, <3>3, <1>0, <1>1, <1>2
        <3> QED BY <2>1, <2>3, <3>2, <3>4 DEF HeldPart, PoolConserved
    <2> QED BY <1>4, <2>2, <2>3 DEF TaskInput
<1>5. CASE TcpipConsume
    <2>1. input # << >> /\ kept' = kept + Head(input) /\ input' = Tail(input) /\ UNCHANGED <<pool, held, pc>>
        BY <1>5 DEF TcpipConsume
    <2>2. PICK q \in Totals(Tail(input)) : q[Len(Tail(input))] + Head(input) = p[Len(input)]
        BY <2>1, <1>0, TotalsTail
    <2>3. q[Len(Tail(input))] \in Nat /\ Head(input) \in Nat
        <3>1. Tail(input) \in Seq(Nat) /\ Len(Tail(input)) \in Nat /\ Head(input) \in Nat
            BY <2>1, <1>0
        <3>2. q \in [0..Len(Tail(input)) -> 0..PoolSize]
            BY DEF Totals
        <3>3. Len(Tail(input)) \in 0..Len(Tail(input))
            BY <3>1
        <3>4. q[Len(Tail(input))] \in 0..PoolSize
            BY <3>2, <3>3
        <3> QED BY <3>1, <3>4, <1>0
    <2>4. pool' + held' + q[Len(input')] + kept' = PoolSize
        <3>1. pool' = pool /\ held' = held /\ kept' = kept + Head(input) /\ q[Len(input')] = q[Len(Tail(input))]
            BY <2>1
        <3>2. pool + held + q[Len(Tail(input))] + (kept + Head(input)) = PoolSize
            BY <2>2, <2>3, <1>0, <1>1
        <3> QED BY <3>1, <3>2, Zenon
    <2> QED BY <2>1, <2>2, <2>4 DEF HeldPart, PoolConserved
<1>6. CASE TcpipFree
    <2>1. PICK n \in 1..kept : kept' = kept - n /\ pool' = pool + n
        BY <1>6 DEF TcpipFree
    <2>2. UNCHANGED <<held, pc, input>>
        BY <1>6 DEF TcpipFree
    <2>3. pool' + held + p[Len(input)] + kept' = PoolSize
        BY <2>1, <1>0, <1>1, <1>2
    <2> QED BY <2>2, <2>3 DEF HeldPart, PoolConserved
<1>7. CASE TaskPeek \/ TaskReceive \/ TaskDrop
    <2>1. UNCHANGED <<pool, held, input, kept>> /\ (held # 0 => pc' \in {"receive", "input"})
        BY <1>7 DEF TaskPeek, TaskReceive, TaskDrop, TaskGoto, HeldPart
    <2> QED BY <2>1 DEF HeldPart, PoolConserved
<1>8. CASE TaskTake \/ TaskEnable
    <2>1. UNCHANGED <<pool, held, input, kept>> /\ held = 0
        BY <1>8 DEF TaskTake, TaskEnable, TaskGoto, HeldPart
    <2> QED BY <2>1 DEF HeldPart, PoolConserved
<1>9. CASE \/ UNCHANGED vars \/ (\E len \in Lengths : Arrive(len))
           \/ IsrEnter \/ IsrStatus \/ IsrNotify \/ IsrClear \/ IsrDisable \/ IsrClearAll
           \/ InitDevice \/ InitNvicOff \/ InitDisableAll \/ InitClearAll \/ InitEnableRx \/ InitCreate \/ InitNvicOn
    <2>1. UNCHANGED <<pool, held, input, kept>>
        BY <1>9 DEF vars, Arrive, IsrEnter, IsrStatus, IsrNotify, IsrClear, IsrDisable, IsrClearAll,
                    InitDevice, InitNvicOff, InitDisableAll, InitClearAll, InitEnableRx, InitCreate, InitNvicOn
    <2>2. pc' = pc \/ pc \in {"none", "take"}
        BY <1>9 DEF vars, Arrive, IsrEnter, IsrStatus, IsrNotify, IsrClear, IsrDisable, IsrClearAll,
                    InitDevice, InitNvicOff, InitDisableAll, InitClearAll, InitEnableRx, InitCreate, InitNvicOn,
                    InitGoto
    <2> QED BY <2>1, <2>2 DEF HeldPart, PoolConserved
<1> QED BY <1>3, <1>4, <1>5, <1>6, <1>7, <1>8, <1>9, NextIs DEF Statement

-----------------------------------------------------------------------------
(* The theorems.                                                           *)

\* Interrupt bits, handler, LWIP_RX and low_level_init agree between any two register
\* accesses, and every frame that has arrived is noticed by one of them.
THEOREM RxInvariant == Spec => []IInv
<1>1. Init => IInv
    <2> SUFFICES ASSUME Init PROVE IInv
        OBVIOUS
    <2>1. TypeOK
        <3>1. << >> \in Seq(Frame) /\ << >> \in Seq(Nat) /\ 0 \in 0..MaxFrames /\ PoolSize \in Nat
            BY SizeAssumption
        <3> QED BY <3>1 DEF Init, TypeOK
    <2>2. InitPart /\ MaskPart /\ PendPart /\ HeldPart
        BY DEF Init, InitPart, MaskPart, PendPart, HeldPart
    <2>3. LatePart
        BY DEF Init, LatePart, LateQueued
    <2>4. PoolConserved
        <3> DEFINE p == [i \in 0..0 |-> 0]
        <3>1. p \in Totals(<< >>) /\ p[0] = 0
            BY SizeAssumption DEF Totals
        <3> HIDE DEF p
        <3>2. pool + held + p[Len(input)] + kept = PoolSize /\ input = << >>
            BY <3>1, SizeAssumption DEF Init
        <3> QED BY <3>1, <3>2 DEF PoolConserved
    <2> QED BY <2>1, <2>2, <2>3, <2>4 DEF IInv
<1>2. IInv /\ [Next]_vars => IInv'
    BY NextTypes, NextControl, NextLate, NextPool DEF IInv, ControlPart
<1> QED BY <1>1, <1>2, PTL DEF Spec

\* The types, for any frames.
THEOREM RxTypes == Spec => []TypeOK
<1>1. IInv => TypeOK
    BY DEF IInv
<1> QED BY <1>1, RxInvariant, PTL

\* While LWIP_RX drains the FIFO (ethernetif_input_task) its interrupt is masked and no
\* handler runs beside it.
THEOREM DrainsUndisturbed == Spec => []MaskedWhileDraining
<1>1. IInv => MaskedWhileDraining
    BY DEF IInv, InitPart, MaskPart, MaskedWhileDraining, TypeOK
<1> QED BY <1>1, RxInvariant, PTL

\* No pool buffer is lost or freed twice, whichever packets lwIP refuses.
THEOREM BuffersConserved == Spec => []PoolConserved
<1>1. IInv => PoolConserved
    BY DEF IInv
<1> QED BY <1>1, RxInvariant, PTL

\* At rest the next frame interrupts, and a frame that has arrived still waits only if
\* its words were read with those of frames before it: neither the handler nor LWIP_RX
\* loses a wake-up, however frames, interrupts and statements interleave.
THEOREM WakeupsKept == Spec => [](NoLostWakeup \/ ReadEmpty)
<1>1. IInv => NoLostWakeup \/ ReadEmpty
    <2> SUFFICES ASSUME IInv, AtRest, ~ReadEmpty PROVE NoLostWakeup
        BY DEF NoLostWakeup
    <2>1. intEn /\ ~intSts
        BY DEF IInv, AtRest, MaskPart, PendPart, TypeOK
    <2>2. ~LateQueued
        BY <2>1 DEF IInv, AtRest, ReadEmpty, LatePart
    <2>3. \A f \in 1..MaxFrames : ~Queued(f)
        BY <2>2 DEF Queued, LateQueued
    <2> QED BY <2>1, <2>3 DEF NoLostWakeup
<1> QED BY <1>1, RxInvariant, PTL

-----------------------------------------------------------------------------
(* Words read with those of a frame before them.                           *)

\* Running totals of the words of the frames in a status FIFO.
WordTotals(s) ==
    {p \in [0..Len(s) -> Nat] : /\ \A i \in 1..Len(s) : p[i] = p[i - 1] + Words(s[i].len)
                               /\ \A i, j \in 0..Len(s) : i <= j => p[i] <= p[j]}

\* The words that are left of the frame LWIP_RX is at.
Rest == IF pc \in {"alloc", "receive"} THEN Words(packet_len) ELSE IF pc = "drop" THEN Words(remaining) ELSE 0

\* The data FIFO has lost at most one word for each read of the burst.
WordPart ==
    /\ reads \in Nat
    /\ \E p \in WordTotals(rxStatus) : rxData + reads + p[0] >= p[Len(rxStatus)] + Rest

\* empty_rx_fifo reads at most one word more than there are.
LEMMA OneWordMore ==
    ASSUME NEW n \in Nat PROVE Words(n) \in Nat /\ WordsRead(n) \in Nat /\ WordsRead(n) <= Words(n) + 1
  BY DEF Words, Ceil, WordsRead

\* So does one round of the drop loop.
LEMMA OneChunkLess ==
    ASSUME NEW n \in Nat, n > DropBuf
    PROVE  Words(n - DropBuf) + WordsRead(DropBuf) <= Words(n) + 1
  BY SizeAssumption DEF Words, Ceil, WordsRead

\* The data port gives no more than it is asked for.
LEMMA PopAtMost ==
    ASSUME TypeOK, NEW n \in Nat, PopWords(n) PROVE rxData' \in Nat /\ rxData' + n >= rxData
  BY DEF TypeOK, PopWords

\* A frame joins the status FIFO.
LEMMA WordsArrive ==
    ASSUME NEW s \in Seq(Frame), NEW f \in Frame, NEW p \in WordTotals(s)
    PROVE  \E q \in WordTotals(Append(s, f)) : q[0] = p[0] /\ q[Len(s) + 1] = p[Len(s)] + Words(f.len)
<1> DEFINE m == Len(s) + 1
           q == [i \in 0..m |-> IF i = m THEN p[Len(s)] + Words(f.len) ELSE p[i]]
<1>1. /\ Len(s) \in Nat /\ Len(Append(s, f)) = m /\ Append(s, f)[m] = f
      /\ \A i \in 1..Len(s) : Append(s, f)[i] = s[i]
    OBVIOUS
<1>2. f.len \in Lengths /\ Words(f.len) \in Nat
    BY SizeAssumption, OneWordMore DEF Frame
<1>3. /\ p \in [0..Len(s) -> Nat] /\ \A i \in 1..Len(s) : p[i] = p[i - 1] + Words(s[i].len)
      /\ \A i, j \in 0..Len(s) : i <= j => p[i] <= p[j]
    BY DEF WordTotals
<1>4. /\ \A i \in 0..m : i = m \/ i \in 0..Len(s)
      /\ \A i \in 1..m : i = m \/ (i \in 1..Len(s) /\ i - 1 \in 0..Len(s) /\ i - 1 # m)
      /\ m - 1 = Len(s) /\ m # Len(s) /\ 0 # m /\ Len(s) \in 0..Len(s) /\ 0 \in 0..Len(s)
      /\ \A i \in 0..Len(s) : i <= Len(s) /\ i \in 0..m /\ i # m
      /\ m \in 0..m /\ \A i \in 1..m : i \in 0..m /\ i - 1 \in 0..m
    BY <1>1
<1>5. /\ q[m] = p[Len(s)] + Words(f.len) /\ \A i \in 0..Len(s) : q[i] = p[i] /\ p[i] \in Nat
    BY <1>3, <1>4
<1>6. q \in [0..m -> Nat]
    <2>1. p[Len(s)] \in Nat
        BY <1>4, <1>5
    <2> HIDE DEF q
    <2>2. ASSUME NEW i \in 0..m PROVE q[i] \in Nat
        <3>1. CASE i = m
            BY <3>1, <2>1, <1>2, <1>5
        <3>2. CASE i \in 0..Len(s)
            BY <3>2, <1>5
        <3> QED BY <3>1, <3>2, <1>4
    <2> QED BY <2>2 DEF q
<1> HIDE DEF q
<1>7. ASSUME NEW i \in 1..m PROVE q[i] = q[i - 1] + Words(Append(s, f)[i].len)
    <2>1. CASE i = m
        BY <2>1, <1>1, <1>4, <1>5
    <2>2. CASE i # m
        BY <2>2, <1>1, <1>3, <1>4, <1>5
    <2> QED BY <2>1, <2>2
<1>8. ASSUME NEW i \in 0..m, NEW j \in 0..m, i <= j PROVE q[i] <= q[j]
    <2>1. CASE j = m /\ i # m
        <3>1. p[i] <= p[Len(s)] /\ p[i] \in Nat /\ p[Len(s)] \in Nat /\ q[i] = p[i]
            BY <2>1, <1>3, <1>4, <1>5
        <3> QED BY <2>1, <3>1, <1>2, <1>5
    <2>2. CASE i = m
        BY <2>2, <1>8, <1>1, <1>6
    <2>3. CASE j # m /\ i # m
        BY <2>3, <1>8, <1>3, <1>4, <1>5
    <2> QED BY <2>1, <2>2, <2>3
<1>9. q \in WordTotals(Append(s, f))
    BY <1>1, <1>6, <1>7, <1>8 DEF WordTotals
<1> QED BY <1>4, <1>5, <1>9

\* The first one is taken.
LEMMA WordsTaken ==
    ASSUME NEW s \in Seq(Frame), s # << >>, NEW p \in WordTotals(s)
    PROVE  \E q \in WordTotals(Tail(s)) :
              q[0] = p[0] + Words(Head(s).len) /\ q[Len(Tail(s))] = p[Len(s)]
<1> DEFINE m == Len(s) - 1
           q == [i \in 0..m |-> p[i + 1]]
<1>1. /\ Len(s) \in Nat /\ Len(s) > 0 /\ Len(Tail(s)) = m /\ Head(s) = s[1]
      /\ \A i \in 1..m : Tail(s)[i] = s[i + 1]
    OBVIOUS
<1>2. /\ p \in [0..Len(s) -> Nat] /\ \A i \in 1..Len(s) : p[i] = p[i - 1] + Words(s[i].len)
      /\ \A i, j \in 0..Len(s) : i <= j => p[i] <= p[j]
    BY DEF WordTotals
<1>3. /\ \A i \in 0..m : i + 1 \in 0..Len(s) /\ i + 1 \in 1..Len(s)
      /\ \A i \in 1..m : i \in 0..m /\ i - 1 \in 0..m /\ (i - 1) + 1 = i /\ (i + 1) - 1 = i
      /\ 0 \in 0..m /\ m \in 0..m /\ m + 1 = Len(s) /\ 0 + 1 = 1 /\ 1 \in 1..Len(s) /\ 1 - 1 = 0
      /\ \A i, j \in 0..m : i <= j => i + 1 <= j + 1
    BY <1>1
<1>4. q \in [0..m -> Nat] /\ \A i \in 0..m : q[i] = p[i + 1]
    BY <1>2, <1>3
<1> HIDE DEF q
<1>5. \A i \in 1..m : q[i] = q[i - 1] + Words(Tail(s)[i].len)
    BY <1>1, <1>2, <1>3, <1>4
<1>6. \A i, j \in 0..m : i <= j => q[i] <= q[j]
    BY <1>2, <1>3, <1>4
<1>7. q \in WordTotals(Tail(s))
    BY <1>1, <1>4, <1>5, <1>6 DEF WordTotals
<1>8. q[0] = p[0] + Words(Head(s).len)
    BY <1>1, <1>2, <1>3, <1>4
<1> QED BY <1>1, <1>3, <1>4, <1>7, <1>8

\* The counts that WordPart compares.
LEMMA WordsAre ==
    ASSUME TypeOK
    PROVE  /\ Len(rxStatus) \in Nat /\ rxStatus \in Seq(Frame) /\ rxData \in Nat /\ Rest \in Nat
           /\ packet_len \in Nat /\ remaining \in Nat
           /\ \A p \in WordTotals(rxStatus) : p[0] \in Nat /\ p[Len(rxStatus)] \in Nat
<1>1. /\ Len(rxStatus) \in Nat /\ rxStatus \in Seq(Frame) /\ rxData \in Nat
      /\ packet_len \in Nat /\ remaining \in Nat
    BY SizeAssumption DEF TypeOK
<1>2. Rest \in Nat
    BY <1>1, OneWordMore DEF Rest
<1>3. \A p \in WordTotals(rxStatus) : p[0] \in Nat /\ p[Len(rxStatus)] \in Nat
    <2>1. 0 \in 0..Len(rxStatus) /\ Len(rxStatus) \in 0..Len(rxStatus)
        BY <1>1
    <2> QED BY <2>1 DEF WordTotals
<1> QED BY <1>1, <1>2, <1>3

\* With nothing in the controller nothing is missing.
LEMMA DrainedWords ==
    ASSUME NEW s, s = << >>, NEW d \in Nat
    PROVE  \E p \in WordTotals(s) : d + 0 + p[0] >= p[Len(s)] + 0
<1> DEFINE p == [i \in 0..0 |-> 0]
<1>1. p \in WordTotals(<< >>) /\ p[0] = 0
    BY DEF WordTotals
<1> HIDE DEF p
<1>2. Len(s) = 0 /\ d + 0 + p[0] >= p[Len(s)] + 0
    BY <1>1
<1> QED BY <1>1, <1>2

\* What is missing after some words are read (d to e left, r to s reads, x to y to read).
LEMMA Missing ==
    ASSUME NEW d \in Nat, NEW r \in Nat, NEW x \in Nat, NEW e \in Nat, NEW s \in Nat, NEW y \in Nat,
           NEW a \in Nat, NEW b \in Nat, d + r + a >= b + x, e + s + x >= d + r + y
    PROVE  e + s + a >= b + y
  OBVIOUS

\* A frame arrives with its words.
LEMMA ArriveWords ==
    ASSUME TypeOK, WordPart, NEW len \in Lengths, Arrive(len), reads' = reads PROVE WordPart'
<1>0. reads \in Nat /\ rxData \in Nat /\ Rest \in Nat /\ Len(rxStatus) \in Nat
    BY WordsAre DEF WordPart
<1>1. PICK p \in WordTotals(rxStatus) : rxData + reads + p[0] >= p[Len(rxStatus)] + Rest
    BY DEF WordPart
<1> DEFINE f == [id |-> count + 1, len |-> len,
                 late |-> init \notin {"device", "nvic_off", "disable_all", "clear_all"}]
<1>2. rxStatus' = Append(rxStatus, f) /\ rxData' = rxData + Words(len) /\ Rest' = Rest
    BY DEF Arrive, Rest
<1>3. f \in Frame /\ f.len = len /\ rxStatus \in Seq(Frame)
    <2>1. count + 1 \in 1..MaxFrames
        BY SizeAssumption DEF TypeOK, Arrive
    <2> QED BY <2>1 DEF Frame, TypeOK
<1> HIDE DEF f
<1>4. PICK q \in WordTotals(Append(rxStatus, f)) :
          q[0] = p[0] /\ q[Len(rxStatus) + 1] = p[Len(rxStatus)] + Words(len)
    BY <1>3, WordsArrive
<1>5. Len(rxStatus') = Len(rxStatus) + 1
    BY <1>2, <1>3
<1>6. Words(len) \in Nat
    BY SizeAssumption, OneWordMore
<1>7. PICK a \in Nat, b \in Nat : a = p[0] /\ b = p[Len(rxStatus)]
    BY WordsAre
<1>8. rxData' + reads' + q[0] >= q[Len(rxStatus')] + Rest'
    <2>1. rxData + reads + a >= b + Rest
        BY <1>1, <1>7
    <2>2. (rxData + Words(len)) + reads + a >= (b + Words(len)) + Rest
        BY <1>0, <1>6, <2>1
    <2>3. q[0] = a /\ q[Len(rxStatus')] = b + Words(len)
        BY <1>4, <1>5, <1>7
    <2> QED BY <1>2, <2>2, <2>3
<1> QED BY <1>0, <1>2, <1>4, <1>8 DEF WordPart

\* LWIP_RX takes the status of a frame, and has its words to read.
LEMMA PeekWords ==
    ASSUME TypeOK, WordPart, TaskPeek, reads' = reads PROVE WordPart'
<1>0. reads \in Nat /\ rxData \in Nat /\ Len(rxStatus) \in Nat
    BY WordsAre DEF WordPart
<1>1. PICK p \in WordTotals(rxStatus) : rxData + reads + p[0] >= p[Len(rxStatus)] + Rest
    BY DEF WordPart
<1>2. Rest = 0 /\ UNCHANGED rxData
    BY DEF Rest, TaskPeek
<1>3. CASE rxStatus # << >> /\ packet_len' = Head(rxStatus).len /\ rxStatus' = Tail(rxStatus) /\ pc' = "alloc"
    <2>1. PICK q \in WordTotals(Tail(rxStatus)) :
              q[0] = p[0] + Words(packet_len') /\ q[Len(Tail(rxStatus))] = p[Len(rxStatus)]
        BY <1>3, WordsTaken DEF TypeOK
    <2>2. packet_len' \in Lengths
        <3>1. Head(rxStatus) \in Frame
            BY <1>3 DEF TypeOK
        <3> QED BY <1>3, <3>1 DEF Frame
    <2>3. Words(packet_len') \in Nat /\ Rest' = Words(packet_len')
        BY <1>3, <2>2, SizeAssumption, OneWordMore DEF Rest
    <2>4. PICK a \in Nat, b \in Nat : a = p[0] /\ b = p[Len(rxStatus)]
        BY WordsAre
    <2>5. rxData' + reads' + q[0] >= q[Len(rxStatus')] + Rest'
        <3>1. rxData + reads + a >= b
            BY <1>1, <1>2, <2>4
        <3>2. rxData + reads + (a + Words(packet_len')) >= b + Words(packet_len')
            BY <1>0, <2>3, <3>1
        <3> QED BY <1>2, <1>3, <2>1, <2>3, <2>4, <3>2
    <2> QED BY <1>0, <1>3, <2>1, <2>5 DEF WordPart
<1>4. CASE UNCHANGED rxStatus /\ pc' = "enable"
    <2>1. Rest' = 0
        BY <1>4 DEF Rest
    <2> QED BY <1>1, <1>2, <1>4, <2>1 DEF WordPart
<1> QED BY <1>3, <1>4 DEF TaskPeek

\* Steps that leave the FIFOs alone, or read at most one word more than they should.
LEMMA ReadWords ==
    ASSUME TypeOK, WordPart, UNCHANGED rxStatus, rxData' \in Nat, Rest' \in Nat, reads' \in Nat,
           rxData' + reads' + Rest >= rxData + reads + Rest'
    PROVE  WordPart'
<1>1. PICK p \in WordTotals(rxStatus) : rxData + reads + p[0] >= p[Len(rxStatus)] + Rest
    BY DEF WordPart
<1>2. PICK a \in Nat, b \in Nat : a = p[0] /\ b = p[Len(rxStatus)]
    BY WordsAre
<1>3. reads \in Nat /\ rxData \in Nat /\ Rest \in Nat /\ rxData + reads + a >= b + Rest
    BY <1>1, <1>2, WordsAre DEF WordPart
<1>4. rxData' + reads' + a >= b + Rest'
    <2> HIDE DEF Rest
    <2>1. PICK e \in Nat, s \in Nat, y \in Nat : e = rxData' /\ s = reads' /\ y = Rest'
        OBVIOUS
    <2>2. PICK d \in Nat, r \in Nat, x \in Nat : d = rxData /\ r = reads /\ x = Rest
        BY <1>3
    <2>3. d + r + a >= b + x /\ e + s + x >= d + r + y
        BY <1>3, <2>1, <2>2
    <2>4. e + s + a >= b + y
        BY <2>3, Missing
    <2> QED BY <2>1, <2>4
<1> QED BY <1>1, <1>2, <1>4 DEF WordPart

\* smsc9220_receive_by_chunks reads the frame in one go.
LEMMA ReceiveWords ==
    ASSUME TypeOK, WordPart, TaskReceive, reads' = reads + 1 PROVE WordPart'
<1>1. UNCHANGED rxStatus /\ PopWords(WordsRead(packet_len)) /\ Rest = Words(packet_len) /\ Rest' = 0
    BY DEF TaskReceive, TaskGoto, Rest
<1>2. packet_len \in Nat /\ rxData \in Nat /\ reads \in Nat
    BY WordsAre DEF WordPart
<1>3. Words(packet_len) \in Nat /\ WordsRead(packet_len) \in Nat /\ WordsRead(packet_len) <= Words(packet_len) + 1
    BY <1>2, OneWordMore
<1>4. rxData' \in Nat /\ rxData' + WordsRead(packet_len) >= rxData
    BY <1>1, <1>3, PopAtMost
<1>5. rxData' + reads' + Rest >= rxData + reads + Rest'
    BY <1>1, <1>2, <1>3, <1>4
<1> QED BY <1>1, <1>2, <1>4, <1>5, ReadWords

\* One round of the drop loop reads a chunk, and at most one word more.
LEMMA DropWords ==
    ASSUME TypeOK, WordPart, TaskDrop, reads' = reads + 1 PROVE WordPart'
<1>0. /\ UNCHANGED rxStatus /\ remaining \in Nat /\ DropBuf \in Nat \ {0} /\ rxData \in Nat /\ reads \in Nat
      /\ Rest = Words(remaining)
    BY SizeAssumption, WordsAre DEF TaskDrop, WordPart, Rest
<1>1. CASE remaining > DropBuf
    <2>1. PopWords(WordsRead(DropBuf)) /\ Rest' = Words(remaining - DropBuf)
        BY <1>0, <1>1 DEF TaskDrop, Rest
    <2>2. remaining - DropBuf \in Nat
        BY <1>0, <1>1
    <2>3. /\ Words(remaining - DropBuf) + WordsRead(DropBuf) <= Words(remaining) + 1
          /\ Words(remaining) \in Nat /\ Words(remaining - DropBuf) \in Nat /\ WordsRead(DropBuf) \in Nat
        BY <1>0, <1>1, <2>2, OneChunkLess, OneWordMore
    <2>4. rxData' \in Nat /\ rxData' + WordsRead(DropBuf) >= rxData
        BY <2>1, <2>3, PopAtMost
    <2>5. rxData' + reads' + Rest >= rxData + reads + Rest'
        BY <1>0, <2>1, <2>3, <2>4
    <2> QED BY <1>0, <2>1, <2>3, <2>4, <2>5, ReadWords
<1>2. CASE ~(remaining > DropBuf)
    <2>1. PopWords(WordsRead(remaining)) /\ Rest' = 0
        BY <1>2 DEF TaskDrop, Rest
    <2>2. Words(remaining) \in Nat /\ WordsRead(remaining) \in Nat /\ WordsRead(remaining) <= Words(remaining) + 1
        BY <1>0, OneWordMore
    <2>3. rxData' \in Nat /\ rxData' + WordsRead(remaining) >= rxData
        BY <2>1, <2>2, PopAtMost
    <2>4. rxData' + reads' + Rest >= rxData + reads + Rest'
        BY <1>0, <2>1, <2>2, <2>3
    <2> QED BY <1>0, <2>1, <2>3, <2>4, ReadWords
<1> QED BY <1>1, <1>2

\* The other steps read nothing, and leave what is left of the frame.
LEMMA OtherWords ==
    ASSUME TypeOK, WordPart, reads' = reads,
           UNCHANGED vars \/ Statement, ~(TaskPeek \/ TaskReceive \/ TaskDrop)
    PROVE  WordPart'
<1>1. UNCHANGED <<rxStatus, rxData>>
    BY DEF Statement, vars, IsrEnter, IsrStatus, IsrNotify, IsrClear, IsrDisable, IsrClearAll,
           TaskTake, TaskAlloc, TaskInput, TaskEnable, TcpipConsume, TcpipFree,
           InitDevice, InitNvicOff, InitDisableAll, InitClearAll, InitEnableRx, InitCreate, InitNvicOn
<1>2. Rest' = Rest
    <2>1. CASE TaskAlloc
        BY <2>1 DEF TaskAlloc, Rest
    <2>2. CASE ~TaskAlloc
        <3>1. \/ UNCHANGED <<pc, packet_len, remaining>>
              \/ pc \notin {"alloc", "receive", "drop"} /\ pc' \notin {"alloc", "receive", "drop"}
            BY <2>2 DEF Statement, vars, IsrEnter, IsrStatus, IsrNotify, IsrClear, IsrDisable, IsrClearAll,
                        TaskTake, TaskInput, TaskEnable, TcpipConsume, TcpipFree, TaskGoto, InitGoto,
                        InitDevice, InitNvicOff, InitDisableAll, InitClearAll, InitEnableRx, InitCreate, InitNvicOn
        <3> QED BY <3>1 DEF Rest
    <2> QED BY <2>1, <2>2
<1> QED BY <1>1, <1>2 DEF WordPart

\* Every step of a burst loses at most the words it has counted.
LEMMA NextWords ==
    ASSUME TypeOK, TypeOK', WordPart, [BurstNext]_<<vars, reads>> PROVE WordPart'
<1>1. [Next]_vars /\ (UNCHANGED <<vars, reads>> \/ Counts)
    BY DEF BurstNext
<1>2. CASE UNCHANGED <<vars, reads>> \/ ~Drained'
    <2>1. CASE TaskReceive \/ TaskDrop
        <3>1. reads' = reads + 1
            <4>1. pc \in {"receive", "drop"} /\ (pc' # pc \/ remaining' # remaining)
                BY <2>1, SizeAssumption DEF TaskReceive, TaskGoto, TaskDrop, TypeOK
            <4> QED BY <1>1, <1>2, <2>1, <4>1 DEF Counts, vars
        <3> QED BY <2>1, <3>1, ReceiveWords, DropWords
    <2>2. CASE ~(TaskReceive \/ TaskDrop)
        <3>1. reads' = reads
            BY <1>1, <1>2, <2>2 DEF Counts
        <3> QED BY <1>1, <2>2, <3>1, ArriveWords, PeekWords, OtherWords, NextIs
    <2> QED BY <2>1, <2>2
<1>3. CASE Counts /\ Drained'
    <2>1. reads' = 0
        BY <1>3 DEF Counts
    <2>2. rxStatus' = << >> /\ rxData' \in Nat /\ Rest' = 0
        BY <1>3 DEF Drained, Rest, TypeOK
    <2>3. \E p \in WordTotals(rxStatus') : rxData' + 0 + p[0] >= p[Len(rxStatus')] + 0
        BY <2>2, DrainedWords
    <2> QED BY <2>1, <2>2, <2>3 DEF WordPart
<1> QED BY <1>1, <1>2, <1>3

\* LWIP_RX and EthernetISR leave a frame in the controller only when the reads of one burst,
\* each of a word too many, have eaten as many words as the frame has, however many bursts
\* there are, of frames of any lengths, received or dropped: in shorter bursts no frame is
\* left behind and no wake-up lost.
THEOREM BurstsKept == BurstSpec => []BurstKept
<1>1. IInv /\ BurstInit => WordPart
    <2> SUFFICES ASSUME IInv, BurstInit PROVE WordPart
        OBVIOUS
    <2>1. rxStatus = << >> /\ rxData \in Nat /\ Rest = 0 /\ reads = 0
        BY DEF BurstInit, Init, Rest, IInv, TypeOK
    <2>2. \E p \in WordTotals(rxStatus) : rxData + 0 + p[0] >= p[Len(rxStatus)] + 0
        BY <2>1, DrainedWords
    <2> QED BY <2>1, <2>2 DEF WordPart
<1>2. IInv /\ IInv' /\ WordPart /\ [BurstNext]_<<vars, reads>> => WordPart'
    BY NextWords DEF IInv
<1>3. IInv /\ WordPart /\ (NoLostWakeup \/ ReadEmpty) => BurstKept
    <2> SUFFICES ASSUME IInv, WordPart, AtRest, NoLostWakeup \/ ReadEmpty PROVE BurstKept
        BY DEF BurstKept
    <2>1. intEn /\ ~intSts
        BY DEF NoLostWakeup, ReadEmpty
    <2>2. ASSUME NEW i \in 1..Len(rxStatus), rxStatus[i].late PROVE Words(rxStatus[i].len) <= reads
        <3>1. /\ Len(rxStatus) \in Nat /\ rxStatus \in Seq(Frame) /\ reads \in Nat /\ Rest = 0
              /\ rxStatus[i] \in Frame
            BY WordsAre DEF IInv, WordPart, AtRest, Rest
        <3>2. rxData = 0
            <4>1. rxStatus[i].id \in 1..MaxFrames /\ Queued(rxStatus[i].id)
                BY <2>2, <3>1 DEF Queued, Frame
            <4> QED BY <4>1 DEF NoLostWakeup, ReadEmpty
        <3>3. PICK p \in WordTotals(rxStatus) : rxData + reads + p[0] >= p[Len(rxStatus)] + Rest
            BY DEF WordPart
        <3>4. /\ 0 \in 0..Len(rxStatus) /\ i - 1 \in 0..Len(rxStatus) /\ i \in 0..Len(rxStatus)
              /\ Len(rxStatus) \in 0..Len(rxStatus) /\ 0 <= i - 1 /\ i <= Len(rxStatus)
            BY <3>1
        <3>5. /\ p[0] \in Nat /\ p[i - 1] \in Nat /\ p[i] \in Nat /\ p[Len(rxStatus)] \in Nat
              /\ p[0] <= p[i - 1] /\ p[i] = p[i - 1] + Words(rxStatus[i].len) /\ p[i] <= p[Len(rxStatus)]
            BY <3>4 DEF WordTotals
        <3>6. Words(rxStatus[i].len) \in Nat
            BY <3>1, SizeAssumption, OneWordMore DEF Frame
        <3>7. reads + p[0] >= p[Len(rxStatus)]
            BY <3>1, <3>2, <3>3, <3>5
        <3> QED BY <3>1, <3>5, <3>6, <3>7
    <2> QED BY <2>1, <2>2 DEF BurstKept, Eaten
<1>4. BurstSpec => Spec
    <2>1. BurstInit => Init
        BY DEF BurstInit
    <2>2. [BurstNext]_<<vars, reads>> => [Next]_vars
        BY DEF BurstNext
    <2> QED BY <2>1, <2>2, PTL DEF BurstSpec, Spec
<1> QED BY <1>1, <1>2, <1>3, <1>4, RxInvariant, WakeupsKept, PTL DEF BurstSpec
=============================================================================
