------------------------- MODULE KernelQueueProofs --------------------------
(***************************************************************************)
(* KernelQueue implements BoundedQueue, for every number of tasks, length  *)
(* of the queue, set of items, block times and calls.                      *)
(***************************************************************************)
EXTENDS KernelQueue, TLAPS

\* The part of TypeOK the mapping depends on.
StorageType ==
    /\ buf \in [0..(uxLength - 1) -> Msg]
    /\ pcWriteTo \in 0..(uxLength - 1) /\ pcReadFrom \in 0..(uxLength - 1)
    /\ uxMessagesWaiting \in 0..uxLength

CallType ==
    /\ owner \in Task \cup {NoTask} /\ xPendedTicks \in 0..MaxPended
    /\ pc \in [Task -> PC]
    /\ op \in [Task -> Sends \cup {"receive", "none"}]
    /\ item \in [Task -> Msg]
    /\ wait \in [Task -> 0..MaxDelay] /\ xTicksToWait \in [Task -> 0..MaxDelay]
    /\ xEntryTimeSet \in [Task -> BOOLEAN]
    /\ elapsed \in [Task -> 0..MaxDelay] /\ waited \in [Task -> 0..MaxDelay]
    /\ result \in [Task -> {"none", "pass", "fail"}]

\* The next position to write is the one behind the last item.
RingPart ==
    ~Semaphore => pcWriteTo = IF uxMessagesWaiting = uxLength THEN Following(pcReadFrom)
                              ELSE Position(pcReadFrom, uxMessagesWaiting + 1)

\* The state of the call t is in, and how much of its block time has gone.
CallOK(t) ==
    /\ (pc[t] = "idle") <=> (op[t] = "none")
    /\ pc[t] \notin {"idle", "enter"} => xEntryTimeSet[t]
    /\ pc[t] = "expired" => xTicksToWait[t] = 0
    /\ op[t] = "overwrite" => uxLength = 1 /\ ~Semaphore
    /\ waited[t] <= wait[t]
    /\ pc[t] # "idle" /\ wait[t] = MaxDelay => xTicksToWait[t] = MaxDelay
    /\ pc[t] # "idle" /\ wait[t] # MaxDelay =>
          /\ xTicksToWait[t] <= wait[t] /\ elapsed[t] <= xTicksToWait[t]
          /\ waited[t] >= wait[t] - xTicksToWait[t] + elapsed[t]

CallPart == \A t \in Task : CallOK(t)

QInv == StorageType /\ CallType /\ RingPart /\ CallPart

-----------------------------------------------------------------------------
(* The storage area as a sequence.                                         *)

Area == [0..(uxLength - 1) -> Msg]
Index == 0..(uxLength - 1)

\* The capacity of a queue.
LEMMA LengthType == uxLength \in Nat /\ uxLength > 0
  BY QueueAssumption

\* Block times and pended ticks.
LEMMA DelayType == MaxDelay \in Nat /\ MaxDelay > 0 /\ MaxPended \in Nat
  BY QueueAssumption

\* All items of a semaphore are the same.
LEMMA OneToken == Semaphore => \A m, l \in Msg : m = l
  BY QueueAssumption

\* What the ring holds is a sequence of items.
LEMMA ContentType ==
    ASSUME NEW b \in Area, NEW r \in Index, NEW n \in 0..uxLength
    PROVE  /\ Content(b, r, n) \in Seq(Msg) /\ Len(Content(b, r, n)) = n
           /\ \A i \in 1..n : Content(b, r, n)[i] = IF Semaphore THEN b[r] ELSE b[Position(r, i)]
           /\ (Content(b, r, n) = << >>) <=> (n = 0)
  <1>1. \A i \in 1..n : Position(r, i) \in Index
    BY LengthType DEF Position, Index
  <1>2. \A i \in 1..n : (IF Semaphore THEN b[r] ELSE b[Position(r, i)]) \in Msg
    BY <1>1 DEF Area, Index
  <1>3. Content(b, r, n) \in [1..n -> Msg] /\ n \in Nat
    BY <1>2, LengthType DEF Content
  <1>4. Content(b, r, n) \in Seq(Msg) /\ Len(Content(b, r, n)) = n
    BY <1>3
  <1>5. \A i \in 1..n : Content(b, r, n)[i] = IF Semaphore THEN b[r] ELSE b[Position(r, i)]
    BY DEF Content
  <1> QED
    BY <1>3, <1>4, <1>5

\* Two sequences are equal when they agree element by element.
LEMMA SameItems ==
    ASSUME NEW s \in Seq(Msg), NEW u \in Seq(Msg), Len(s) = Len(u),
           \A i \in 1..Len(s) : s[i] = u[i]
    PROVE  s = u
  OBVIOUS

\* Reading moves the ring on by one: the first item is gone.
LEMMA ContentTail ==
    ASSUME NEW b \in Area, NEW r \in Index, NEW n \in 1..uxLength,
           NEW q, q = IF Semaphore THEN r ELSE Following(r)
    PROVE  /\ q \in Index
           /\ Head(Content(b, r, n)) = b[q]
           /\ Content(b, q, n - 1) = Tail(Content(b, r, n))
  <1> DEFINE s == Content(b, r, n)
             u == Content(b, q, n - 1)
  <1>1. q \in Index /\ n - 1 \in 0..uxLength /\ n \in 0..uxLength
    BY LengthType DEF Following, Index
  <1>2. /\ s \in Seq(Msg) /\ Len(s) = n
        /\ \A i \in 1..n : s[i] = IF Semaphore THEN b[r] ELSE b[Position(r, i)]
    BY <1>1, ContentType
  <1>3. /\ u \in Seq(Msg) /\ Len(u) = n - 1
        /\ \A i \in 1..(n - 1) : u[i] = IF Semaphore THEN b[q] ELSE b[Position(q, i)]
    BY <1>1, ContentType
  <1>4. \A i \in 1..(n - 1) : Position(Following(r), i) = Position(r, i + 1)
    BY LengthType DEF Position, Following, Index
  <1>5. \A i \in 1..(n - 1) : i + 1 \in 1..n
    OBVIOUS
  <1>6. \A i \in 1..(n - 1) : u[i] = s[i + 1]
    BY <1>2, <1>3, <1>4, <1>5
  <1>7. Position(r, 1) = Following(r)
    BY LengthType DEF Position, Following, Index
  <1>8. Head(s) = b[q]
    BY <1>2, <1>7
  <1> HIDE DEF s, u
  <1>9. Tail(s) \in Seq(Msg) /\ Len(Tail(s)) = n - 1 /\ \A i \in 1..(n - 1) : Tail(s)[i] = s[i + 1]
    BY <1>2
  <1>10. u = Tail(s)
    BY <1>3, <1>6, <1>9, SameItems
  <1> QED
    BY <1>1, <1>8, <1>10 DEF s, u

\* An item written behind the last one is appended.
LEMMA ContentBack ==
    ASSUME NEW b \in Area, NEW r \in Index, NEW n \in 0..(uxLength - 1), NEW m \in Msg,
           NEW c, c = IF Semaphore THEN b ELSE [b EXCEPT ![Position(r, n + 1)] = m]
    PROVE  /\ c \in Area
           /\ Content(c, r, n + 1) = Append(Content(b, r, n), m)
  <1> DEFINE s == Content(b, r, n)
             u == Content(c, r, n + 1)
  <1>1. Position(r, n + 1) \in Index /\ n + 1 \in 0..uxLength /\ n \in 0..uxLength
    BY LengthType DEF Position, Index
  <1>2. c \in Area
    BY <1>1 DEF Area, Index
  <1>3. /\ s \in Seq(Msg) /\ Len(s) = n
        /\ \A i \in 1..n : s[i] = IF Semaphore THEN b[r] ELSE b[Position(r, i)]
    BY <1>1, ContentType
  <1>4. /\ u \in Seq(Msg) /\ Len(u) = n + 1
        /\ \A i \in 1..(n + 1) : u[i] = IF Semaphore THEN c[r] ELSE c[Position(r, i)]
    BY <1>1, <1>2, ContentType, ZenonT(40)
  <1>5. \A i \in 1..n : Position(r, i) \in Index /\ Position(r, i) # Position(r, n + 1)
    BY LengthType DEF Position, Index
  <1>a. /\ Semaphore => c = b
        /\ ~Semaphore => /\ c[Position(r, n + 1)] = m
                         /\ \A j \in Index : j # Position(r, n + 1) => c[j] = b[j]
    BY <1>1 DEF Area, Index
  <1>b. 1..n \subseteq 1..(n + 1) /\ n + 1 \in 1..(n + 1)
    BY LengthType
  <1> HIDE DEF s, u
  <1>6. \A i \in 1..n : u[i] = s[i]
    BY <1>3, <1>4, <1>5, <1>a, <1>b
  <1>7. u[n + 1] = m
    <2>1. CASE Semaphore
      BY <2>1, <1>4, <1>2, <1>b, OneToken DEF Area, Index
    <2>2. CASE ~Semaphore
      BY <2>2, <1>4, <1>a, <1>b
    <2> QED
      BY <2>1, <2>2
  <1>8. /\ Append(s, m) \in Seq(Msg) /\ Len(Append(s, m)) = n + 1
        /\ \A i \in 1..n : Append(s, m)[i] = s[i]
        /\ Append(s, m)[n + 1] = m
    BY <1>3
  <1>9. \A i \in 1..(n + 1) : u[i] = Append(s, m)[i]
    BY <1>6, <1>7, <1>8
  <1>10. u = Append(s, m)
    BY <1>4, <1>8, <1>9, SameItems
  <1> QED
    BY <1>2, <1>10 DEF s, u

\* The storage area and the read position after an item is put in front.
FrontArea(b, r, m) == IF Semaphore THEN b ELSE [b EXCEPT ![r] = m]
FrontIndex(r) == IF Semaphore THEN r ELSE Preceding(r)

\* An item written where the last one was read comes first.
LEMMA ContentFront ==
    ASSUME NEW b \in Area, NEW r \in Index, NEW n \in 0..(uxLength - 1), NEW m \in Msg
    PROVE  Content(FrontArea(b, r, m), FrontIndex(r), n + 1) = <<m>> \o Content(b, r, n)
  <1> DEFINE c == FrontArea(b, r, m)
             q == FrontIndex(r)
             s == Content(b, r, n)
             u == Content(c, q, n + 1)
  <1> USE DEF FrontArea, FrontIndex
  <1>1. q \in Index /\ n + 1 \in 0..uxLength /\ n \in 0..uxLength
    BY LengthType DEF Preceding, Index
  <1>2. c \in Area
    BY DEF Area, Index
  <1>3. /\ s \in Seq(Msg) /\ Len(s) = n
        /\ \A i \in 1..n : s[i] = IF Semaphore THEN b[r] ELSE b[Position(r, i)]
    BY <1>1, ContentType
  <1>4. /\ u \in Seq(Msg) /\ Len(u) = n + 1
        /\ \A i \in 1..(n + 1) : u[i] = IF Semaphore THEN c[q] ELSE c[Position(q, i)]
    BY <1>1, <1>2, ContentType, ZenonT(40)
  <1>5. \A i \in 1..n : /\ Position(r, i) \in Index /\ Position(r, i) # r
                        /\ Position(Preceding(r), i + 1) = Position(r, i)
    BY LengthType DEF Position, Preceding, Index
  <1>6. \A i \in 1..n : i + 1 \in 1..(n + 1)
    BY LengthType
  <1>7. \A i \in 1..n : u[i + 1] = s[i]
    <2>1. CASE Semaphore
      BY <2>1, <1>3, <1>4, <1>6
    <2>2. CASE ~Semaphore
      BY <2>2, <1>3, <1>4, <1>5, <1>6, LengthType DEF Area, Index
    <2> QED
      BY <2>1, <2>2
  <1>8. u[1] = m
    <2>1. CASE Semaphore
      BY <2>1, <1>4, <1>1, <1>2, OneToken, LengthType DEF Area, Index
    <2>2. CASE ~Semaphore
      <3>1. Position(Preceding(r), 1) = r
        BY LengthType DEF Position, Preceding, Index
      <3>2. c[r] = m /\ 1 \in 1..(n + 1)
        BY <2>2, LengthType DEF Area, Index
      <3> QED
        BY <2>2, <3>1, <3>2, <1>4
    <2> QED
      BY <2>1, <2>2
  <1> HIDE DEF s, u
  <1>9. /\ <<m>> \o s \in Seq(Msg) /\ Len(<<m>> \o s) = n + 1
        /\ (<<m>> \o s)[1] = m
        /\ \A i \in 1..n : (<<m>> \o s)[i + 1] = s[i]
    BY <1>3
  <1>10. \A i \in 1..(n + 1) : u[i] = (<<m>> \o s)[i]
    <2>1. SUFFICES ASSUME NEW i \in 1..(n + 1) PROVE u[i] = (<<m>> \o s)[i]
      OBVIOUS
    <2>2. CASE i = 1
      BY <2>2, <1>8, <1>9
    <2>3. CASE i # 1
      <3>1. i - 1 \in 1..n /\ (i - 1) + 1 = i
        BY <2>3, LengthType
      <3> QED
        BY <3>1, <1>7, <1>9
    <2> QED
      BY <2>2, <2>3
  <1>11. u = <<m>> \o s
    BY <1>4, <1>9, <1>10, SameItems
  <1> QED
    BY <1>11 DEF s, u

-----------------------------------------------------------------------------
(* The operations on the storage area.                                     *)

\* The abstract queue has its type.
LEMMA ItemsType ==
    ASSUME StorageType
    PROVE  /\ Items \in Seq(Msg) /\ Len(Items) = uxMessagesWaiting
           /\ (Items = << >>) <=> (uxMessagesWaiting = 0)
  BY ContentType DEF StorageType, Area, Index, Items

\* prvCopyDataFromQueue takes the first item.
LEMMA TakeFirst ==
    ASSUME StorageType, RingPart, uxMessagesWaiting > 0, prvCopyDataFromQueue
    PROVE  /\ StorageType' /\ RingPart'
           /\ Head(Items) = FirstItem /\ FirstItem \in Msg
           /\ Items' = Tail(Items)
  <1>1. StorageType' /\ RingPart'
    BY LengthType DEF StorageType, RingPart, prvCopyDataFromQueue, Following, Position
  <1>2. buf \in Area /\ pcReadFrom \in Index /\ uxMessagesWaiting \in 1..uxLength
    BY LengthType DEF StorageType, Area, Index
  <1>3. pcReadFrom' = IF Semaphore THEN pcReadFrom ELSE Following(pcReadFrom)
    BY DEF prvCopyDataFromQueue
  <1>4. /\ Head(Content(buf, pcReadFrom, uxMessagesWaiting)) = buf[pcReadFrom']
        /\ Content(buf, pcReadFrom', uxMessagesWaiting - 1)
              = Tail(Content(buf, pcReadFrom, uxMessagesWaiting))
        /\ pcReadFrom' \in Index
    BY <1>2, <1>3, ContentTail
  <1>5. FirstItem = buf[pcReadFrom']
    BY <1>3 DEF FirstItem
  <1> QED
    BY <1>1, <1>2, <1>4, <1>5 DEF Items, prvCopyDataFromQueue, Area, Index

\* prvCopyDataToQueue does to the ring what Put does to the sequence.
LEMMA PutItem ==
    ASSUME StorageType, RingPart, NEW o \in Sends, NEW m \in Msg, HasRoom(o),
           o = "overwrite" => uxLength = 1 /\ ~Semaphore,
           prvCopyDataToQueue(o, m)
    PROVE  /\ StorageType' /\ RingPart'
           /\ Items' = BQ!Put(o, m)
  <1>1. StorageType' /\ RingPart'
    BY LengthType
    DEF StorageType, RingPart, prvCopyDataToQueue, Following, Preceding, Position, HasRoom, Sends
  <1>2. buf \in Area /\ pcReadFrom \in Index /\ uxMessagesWaiting \in 0..uxLength
    BY DEF StorageType, Area, Index
  <1>3. CASE o = "back"
    <2>1. uxMessagesWaiting \in 0..(uxLength - 1) /\ uxMessagesWaiting' = uxMessagesWaiting + 1
      BY <1>2, <1>3, LengthType DEF prvCopyDataToQueue, HasRoom
    <2>2. /\ buf' = IF Semaphore THEN buf
                    ELSE [buf EXCEPT ![Position(pcReadFrom, uxMessagesWaiting + 1)] = m]
          /\ pcReadFrom' = pcReadFrom
      BY <1>2, <1>3, <2>1 DEF prvCopyDataToQueue, RingPart
    <2>3. Items' = Append(Items, m)
      BY <1>2, <2>1, <2>2, ContentBack, ZenonT(30) DEF Items
    <2> QED
      BY <1>1, <1>3, <2>3 DEF BQ!Put
  <1>4. CASE o = "front"
    <2>1. uxMessagesWaiting \in 0..(uxLength - 1) /\ uxMessagesWaiting' = uxMessagesWaiting + 1
      BY <1>2, <1>4, LengthType DEF prvCopyDataToQueue, HasRoom
    <2>2. buf' = FrontArea(buf, pcReadFrom, m) /\ pcReadFrom' = FrontIndex(pcReadFrom)
      BY <1>4 DEF prvCopyDataToQueue, FrontArea, FrontIndex
    <2>3. Content(buf', pcReadFrom', uxMessagesWaiting + 1)
             = <<m>> \o Content(buf, pcReadFrom, uxMessagesWaiting)
      BY <1>2, <2>1, <2>2, ContentFront
    <2>4. Items' = <<m>> \o Items
      BY <2>1, <2>3 DEF Items
    <2> QED
      BY <1>1, <1>4, <2>4 DEF BQ!Put
  <1>5. CASE o = "overwrite"
    <2>1. /\ uxMessagesWaiting' = 1
          /\ buf' = [buf EXCEPT ![pcReadFrom] = m] /\ pcReadFrom' = Preceding(pcReadFrom)
      BY <1>2, <1>5 DEF prvCopyDataToQueue
    <2>2. Content(buf', pcReadFrom', 1) = <<m>> \o Content(buf, pcReadFrom, 0)
      <3>1. 0 \in 0..(uxLength - 1) /\ 0 + 1 = 1
        BY LengthType
      <3>2. buf' = FrontArea(buf, pcReadFrom, m) /\ pcReadFrom' = FrontIndex(pcReadFrom)
        BY <1>5, <2>1 DEF FrontArea, FrontIndex
      <3>3. Content(buf', pcReadFrom', 0 + 1) = <<m>> \o Content(buf, pcReadFrom, 0)
        BY <1>2, <3>1, <3>2, ContentFront
      <3> QED
        BY <3>1, <3>3
    <2>3. Content(buf, pcReadFrom, 0) = << >>
      BY <1>2, LengthType, ContentType
    <2>4. Items' = <<m>>
      <3>1. <<m>> \o << >> = <<m>>
        OBVIOUS
      <3> QED
        BY <2>1, <2>2, <2>3, <3>1 DEF Items
    <2> QED
      BY <1>1, <1>5, <2>4 DEF BQ!Put
  <1> QED
    BY <1>3, <1>4, <1>5 DEF Sends

\* Steps that leave the storage alone leave the abstract queue alone.
LEMMA SameStorage ==
    ASSUME StorageType, RingPart, UNCHANGED storage
    PROVE  StorageType' /\ RingPart' /\ Items' = Items
  BY DEF storage, StorageType, RingPart, Items, Content, Following, Position

-----------------------------------------------------------------------------
(* One lemma per operation: it keeps the invariant and maps to a step of   *)
(* BoundedQueue, or to none.                                               *)

\* A call begins.
LEMMA CallStep ==
    ASSUME QInv, NEW t \in Task, NEW o \in Sends \cup {"receive"}, NEW w \in 0..MaxDelay,
           NEW m \in Msg, Call(t, o, w, m)
    PROVE  QInv' /\ BQ!Call(t, o, w, m)
  <1>1. StorageType' /\ RingPart' /\ Items' = Items
    BY SameStorage DEF QInv, Call
  <1>2. CallType'
    <2>1. owner' \in Task \cup {NoTask} /\ xPendedTicks' \in 0..MaxPended
      BY DEF QInv, CallType, Call, sched
    <2>2. pc' \in [Task -> PC] /\ op' \in [Task -> Sends \cup {"receive", "none"}]
      BY DEF QInv, CallType, Call, PC
    <2>3. /\ item' \in [Task -> Msg] /\ wait' \in [Task -> 0..MaxDelay]
          /\ xTicksToWait' \in [Task -> 0..MaxDelay] /\ waited' \in [Task -> 0..MaxDelay]
          /\ elapsed' \in [Task -> 0..MaxDelay]
      BY DelayType DEF QInv, CallType, Call
    <2>4. xEntryTimeSet' \in [Task -> BOOLEAN] /\ result' \in [Task -> {"none", "pass", "fail"}]
      BY DEF QInv, CallType, Call
    <2> QED
      BY <2>1, <2>2, <2>3, <2>4 DEF CallType
  <1>3. CallPart'
    <2>1. SUFFICES ASSUME NEW u \in Task PROVE CallOK(u)'
      BY DEF CallPart
    <2>2. CASE u = t
      <3>1. o = "overwrite" => uxLength = 1 /\ ~Semaphore
        BY QueueAssumption DEF Call
      <3>2. o # "none"
        BY DEF Sends
      <3> QED
        BY <2>2, <3>1, <3>2 DEF QInv, CallType, Call, CallOK
    <2>3. CASE u # t
      BY <2>3 DEF QInv, CallType, Call, CallOK, CallPart
    <2> QED
      BY <2>2, <2>3
  <1>4. Found' = Found
    <2>1. \A u \in Task : (op'[u] \in Sends /\ xEntryTimeSet'[u]) <=> (op[u] \in Sends /\ xEntryTimeSet[u])
      BY DEF QInv, CallType, CallPart, CallOK, Call, Sends
    <2> QED
      BY <2>1 DEF Found
  <1>5. op[t] = "none"
    BY DEF QInv, CallPart, CallOK, Call
  <1> QED
    BY <1>1, <1>2, <1>3, <1>4, <1>5 DEF QInv, Call, BQ!Call

\* What returning does to the state of the calls.
LEMMA ReturnStep ==
    ASSUME QInv, NEW t \in Task, NEW r \in {"pass", "fail"}, Return(t, r),
           UNCHANGED sched, item' \in [Task -> Msg]
    PROVE  CallType' /\ CallPart' /\ BQ!Return(t, r)
  <1>1. CallType'
    <2>1. owner' \in Task \cup {NoTask} /\ xPendedTicks' \in 0..MaxPended
      BY DEF QInv, CallType, Return, sched
    <2>2. pc' \in [Task -> PC] /\ op' \in [Task -> Sends \cup {"receive", "none"}]
      BY DEF QInv, CallType, Return, PC
    <2>3. /\ wait' \in [Task -> 0..MaxDelay] /\ waited' \in [Task -> 0..MaxDelay]
          /\ xTicksToWait' \in [Task -> 0..MaxDelay] /\ elapsed' \in [Task -> 0..MaxDelay]
      <3>1. 0 \in 0..MaxDelay
        BY DelayType
      <3> QED
        BY <3>1 DEF QInv, CallType, Return
    <2>4. xEntryTimeSet' \in [Task -> BOOLEAN] /\ result' \in [Task -> {"none", "pass", "fail"}]
      BY DEF QInv, CallType, Return
    <2> QED
      BY <2>1, <2>2, <2>3, <2>4 DEF CallType
  <1>2. CallPart'
    <2>1. SUFFICES ASSUME NEW u \in Task PROVE CallOK(u)'
      BY DEF CallPart
    <2>2. CASE u = t
      BY <2>2, QueueAssumption DEF QInv, CallType, Return, CallOK
    <2>3. CASE u # t
      BY <2>3 DEF QInv, CallType, Return, CallOK, CallPart
    <2> QED
      BY <2>2, <2>3
  <1>3. Found' = [Found EXCEPT ![t] = FALSE]
    <2>1. \A u \in Task : (op'[u] \in Sends /\ xEntryTimeSet'[u])
                             <=> (IF u = t THEN FALSE ELSE op[u] \in Sends /\ xEntryTimeSet[u])
      BY DEF QInv, CallType, Return
    <2> QED
      BY <2>1 DEF Found
  <1> QED
    BY <1>1, <1>2, <1>3 DEF Return, BQ!Return

\* A send that finds room is the abstract Send.
LEMMA EnterSendStep ==
    ASSUME QInv, NEW t \in Task, EnterSend(t)
    PROVE  QInv' /\ BQ!Send(t)
  <1>1. /\ op[t] \in Sends /\ HasRoom(op[t]) /\ item[t] \in Msg
        /\ op[t] = "overwrite" => uxLength = 1 /\ ~Semaphore
    BY DEF EnterSend, Blocked, QInv, CallType, CallPart, CallOK, Sends
  <1>2. StorageType' /\ RingPart' /\ Items' = BQ!Put(op[t], item[t])
    BY <1>1, PutItem DEF QInv, EnterSend
  <1>3. CallType' /\ CallPart' /\ BQ!Return(t, "pass")
    BY ReturnStep DEF QInv, CallType, EnterSend
  <1>4. BQ!Room(op[t])
    BY <1>1, ItemsType DEF QInv, HasRoom, BQ!Room
  <1> QED
    BY <1>1, <1>2, <1>3, <1>4 DEF QInv, EnterSend, BQ!Send, BQ!Sends, Sends

\* A receive that finds an item is the abstract Receive.
LEMMA EnterReceiveStep ==
    ASSUME QInv, NEW t \in Task, EnterReceive(t)
    PROVE  QInv' /\ BQ!Receive(t)
  <1>1. op[t] = "receive" /\ uxMessagesWaiting > 0
    BY DEF EnterReceive, Blocked, QInv, StorageType
  <1>2. /\ StorageType' /\ RingPart'
        /\ Head(Items) = FirstItem /\ FirstItem \in Msg
        /\ Items' = Tail(Items)
    BY <1>1, TakeFirst DEF QInv, EnterReceive
  <1>3. item' \in [Task -> Msg]
    BY <1>2 DEF QInv, CallType, EnterReceive
  <1>4. CallType' /\ CallPart' /\ BQ!Return(t, "pass")
    BY <1>3, ReturnStep DEF EnterReceive
  <1>5. Items # << >>
    BY <1>1, ItemsType DEF QInv
  <1> QED
    BY <1>1, <1>2, <1>4, <1>5 DEF QInv, EnterReceive, BQ!Receive

\* A call whose block time is used up may fail.
LEMMA TimeOver ==
    ASSUME QInv, NEW t \in Task, pc[t] # "idle", xTicksToWait[t] = 0
    PROVE  BQ!MayFail(t)
  BY QueueAssumption DEF QInv, CallType, CallPart, CallOK, BQ!MayFail

\* A call without a block time fails at once.
LEMMA EnterFailStep ==
    ASSUME QInv, NEW t \in Task, EnterFail(t)
    PROVE  QInv' /\ (BQ!FailSend(t) \/ BQ!FailReceive(t))
  <1>1. StorageType' /\ RingPart' /\ Items' = Items
    BY SameStorage DEF QInv, EnterFail
  <1>2. CallType' /\ CallPart' /\ BQ!Return(t, "fail")
    BY ReturnStep DEF QInv, CallType, EnterFail
  <1>3. BQ!MayFail(t)
    BY TimeOver DEF EnterFail, At
  <1>4. op[t] \in Sends \/ op[t] = "receive"
    BY DEF QInv, CallType, CallPart, CallOK, EnterFail, At
  <1>5. CASE op[t] \in Sends
    <2>1. ~BQ!Room(op[t])
      BY <1>5, ItemsType DEF QInv, EnterFail, Blocked, HasRoom, BQ!Room, Sends
    <2> QED
      BY <1>1, <1>2, <1>3, <1>5, <2>1 DEF QInv, EnterFail, BQ!FailSend, BQ!Sends, Sends
  <1>6. CASE op[t] = "receive"
    <2>1. Items = << >>
      BY <1>6, ItemsType DEF QInv, EnterFail, Blocked
    <2> QED
      BY <1>1, <1>2, <1>3, <1>6, <2>1 DEF QInv, EnterFail, BQ!FailReceive
  <1> QED
    BY <1>4, <1>5, <1>6

\* A call whose block time is over fails.
LEMMA ExpiredFailStep ==
    ASSUME QInv, NEW t \in Task, ExpiredFail(t)
    PROVE  QInv' /\ (BQ!FailSend(t) \/ BQ!FailReceive(t))
  <1>1. StorageType' /\ RingPart' /\ Items' = Items
    BY SameStorage DEF QInv, ExpiredFail
  <1>2. CallType' /\ CallPart' /\ BQ!Return(t, "fail")
    BY ReturnStep DEF QInv, CallType, ExpiredFail
  <1>3. BQ!MayFail(t)
    BY TimeOver DEF ExpiredFail, At, QInv, CallPart, CallOK
  <1>4. op[t] \in Sends \/ op[t] = "receive"
    BY DEF QInv, CallType, CallPart, CallOK, ExpiredFail, At
  <1>5. CASE op[t] \in Sends
    <2>1. Found[t]
      BY <1>5 DEF Found, QInv, CallType, CallPart, CallOK, ExpiredFail, At
    <2> QED
      BY <1>1, <1>2, <1>3, <1>5, <2>1 DEF QInv, ExpiredFail, BQ!FailSend, BQ!Sends, Sends
  <1>6. CASE op[t] = "receive"
    <2>1. Items = << >>
      BY <1>6, ItemsType DEF QInv, ExpiredFail, Blocked
    <2> QED
      BY <1>1, <1>2, <1>3, <1>6, <2>1 DEF QInv, ExpiredFail, BQ!FailReceive
  <1> QED
    BY <1>4, <1>5, <1>6

\* A step of a call that leaves the queue's items and the call itself alone.
LEMMA QuietStep ==
    ASSUME QInv, NEW t \in Task, UNCHANGED <<storage, xPendedTicks, caller, timeout>>,
           pc' \in [Task -> PC], owner' \in Task \cup {NoTask}, pc[t] \notin {"idle", "enter"},
           \A u \in Task : pc'[u] = pc[u] \/ (u = t /\ pc'[u] \notin {"idle", "expired"})
    PROVE  QInv' /\ UNCHANGED BQ!vars
  <1>1. StorageType' /\ RingPart' /\ Items' = Items
    BY SameStorage DEF QInv
  <1>2. CallType'
    BY DEF QInv, CallType, caller, timeout
  <1>3. CallPart'
    <2>1. SUFFICES ASSUME NEW u \in Task PROVE CallOK(u)'
      BY DEF CallPart
    <2>2. CallOK(u)
      BY DEF QInv, CallPart
    <2>3. CASE pc'[u] = pc[u]
      BY <2>2, <2>3 DEF CallOK, caller, timeout
    <2>4. CASE u = t /\ pc'[u] \notin {"idle", "expired"}
      BY <2>2, <2>4 DEF CallOK, caller, timeout
    <2> QED
      BY <2>3, <2>4
  <1> QED
    BY <1>1, <1>2, <1>3 DEF QInv, Found, caller, timeout, BQ!vars

\* Suspending the scheduler maps to no step.
LEMMA vTaskSuspendAllStep ==
    ASSUME QInv, NEW t \in Task, vTaskSuspendAll(t)
    PROVE  QInv' /\ UNCHANGED BQ!vars
  <1>1. UNCHANGED <<storage, xPendedTicks, caller, timeout>>
    BY DEF vTaskSuspendAll, sched
  <1>2. pc' \in [Task -> PC] /\ owner' \in Task \cup {NoTask} /\ pc[t] \notin {"idle", "enter"}
    BY DEF vTaskSuspendAll, Goto, At, QInv, CallType, PC, sched
  <1>3. \A u \in Task : pc'[u] = pc[u] \/ (u = t /\ pc'[u] \notin {"idle", "expired"})
    BY DEF vTaskSuspendAll, Goto, QInv, CallType
  <1> QED
    BY <1>1, <1>2, <1>3, QuietStep

\* Testing the queue maps to no step.
LEMMA TestQueueStep ==
    ASSUME QInv, NEW t \in Task, TestQueue(t)
    PROVE  QInv' /\ UNCHANGED BQ!vars
  <1>1. UNCHANGED <<storage, xPendedTicks, caller, timeout>>
    BY DEF TestQueue, sched
  <1>2. pc' \in [Task -> PC] /\ owner' \in Task \cup {NoTask} /\ pc[t] \notin {"idle", "enter"}
    BY DEF TestQueue, Goto, At, QInv, CallType, PC, sched
  <1>3. \A u \in Task : pc'[u] = pc[u] \/ (u = t /\ pc'[u] \notin {"idle", "expired"})
    BY DEF TestQueue, Goto, QInv, CallType
  <1> QED
    BY <1>1, <1>2, <1>3, QuietStep

\* Entering an event list maps to no step.
LEMMA vTaskPlaceOnEventListStep ==
    ASSUME QInv, NEW t \in Task, vTaskPlaceOnEventList(t)
    PROVE  QInv' /\ UNCHANGED BQ!vars
  <1>1. UNCHANGED <<storage, xPendedTicks, caller, timeout>>
    BY DEF vTaskPlaceOnEventList, sched
  <1>2. pc' \in [Task -> PC] /\ owner' \in Task \cup {NoTask} /\ pc[t] \notin {"idle", "enter"}
    BY DEF vTaskPlaceOnEventList, Goto, At, QInv, CallType, PC, sched
  <1>3. \A u \in Task : pc'[u] = pc[u] \/ (u = t /\ pc'[u] \notin {"idle", "expired"})
    BY DEF vTaskPlaceOnEventList, Goto, QInv, CallType
  <1> QED
    BY <1>1, <1>2, <1>3, QuietStep

\* Unlocking the queue for receivers maps to no step.
LEMMA UnlockTxStep ==
    ASSUME QInv, NEW t \in Task, UnlockTx(t)
    PROVE  QInv' /\ UNCHANGED BQ!vars
  <1>1. UNCHANGED <<storage, xPendedTicks, caller, timeout>>
    BY DEF UnlockTx, sched
  <1>2. pc' \in [Task -> PC] /\ owner' \in Task \cup {NoTask} /\ pc[t] \notin {"idle", "enter"}
    BY DEF UnlockTx, Goto, At, QInv, CallType, PC, sched
  <1>3. \A u \in Task : pc'[u] = pc[u] \/ (u = t /\ pc'[u] \notin {"idle", "expired"})
    BY DEF UnlockTx, Goto, QInv, CallType
  <1> QED
    BY <1>1, <1>2, <1>3, QuietStep

\* Unlocking the queue for senders maps to no step.
LEMMA UnlockRxStep ==
    ASSUME QInv, NEW t \in Task, UnlockRx(t)
    PROVE  QInv' /\ UNCHANGED BQ!vars
  <1>1. UNCHANGED <<storage, xPendedTicks, caller, timeout>>
    BY DEF UnlockRx, sched
  <1>2. pc' \in [Task -> PC] /\ owner' \in Task \cup {NoTask} /\ pc[t] \notin {"idle", "enter"}
    BY DEF UnlockRx, Goto, At, QInv, CallType, PC, sched
  <1>3. \A u \in Task : pc'[u] = pc[u] \/ (u = t /\ pc'[u] \notin {"idle", "expired"})
    BY DEF UnlockRx, Goto, QInv, CallType
  <1> QED
    BY <1>1, <1>2, <1>3, QuietStep

\* Going round again after a timeout maps to no step.
LEMMA ExpiredRetryStep ==
    ASSUME QInv, NEW t \in Task, ExpiredRetry(t)
    PROVE  QInv' /\ UNCHANGED BQ!vars
  <1>1. UNCHANGED <<storage, xPendedTicks, caller, timeout>>
    BY DEF ExpiredRetry, sched
  <1>2. pc' \in [Task -> PC] /\ owner' \in Task \cup {NoTask} /\ pc[t] \notin {"idle", "enter"}
    BY DEF ExpiredRetry, Goto, At, QInv, CallType, PC, sched
  <1>3. \A u \in Task : pc'[u] = pc[u] \/ (u = t /\ pc'[u] \notin {"idle", "expired"})
    BY DEF ExpiredRetry, Goto, QInv, CallType
  <1> QED
    BY <1>1, <1>2, <1>3, QuietStep

\* A send that has to wait has found the queue full.
LEMMA EnterWaitStep ==
    ASSUME QInv, NEW t \in Task, EnterWait(t)
    PROVE  QInv' /\ (BQ!FindFull(t) \/ UNCHANGED BQ!vars)
  <1>1. StorageType' /\ RingPart' /\ Items' = Items
    BY SameStorage DEF QInv, EnterWait
  <1>2. CallType'
    BY DelayType DEF QInv, CallType, EnterWait, Goto, PC, caller, sched
  <1>3. CallPart'
    <2>1. SUFFICES ASSUME NEW u \in Task PROVE CallOK(u)'
      BY DEF CallPart
    <2>2. CallOK(u)
      BY DEF QInv, CallPart
    <2>3. CASE u = t
      BY <2>2, <2>3, DelayType DEF QInv, CallType, EnterWait, At, Goto, CallOK, caller
    <2>4. CASE u # t
      BY <2>2, <2>4 DEF QInv, CallType, EnterWait, Goto, CallOK, caller
    <2> QED
      BY <2>3, <2>4
  <1>4. CASE op[t] \in Sends
    <2>1. ~BQ!Room(op[t])
      BY <1>4, ItemsType DEF QInv, EnterWait, Blocked, HasRoom, BQ!Room, Sends
    <2>2. Found' = [Found EXCEPT ![t] = TRUE]
      <3>1. \A u \in Task : (op'[u] \in Sends /\ xEntryTimeSet'[u])
                               <=> (IF u = t THEN TRUE ELSE op[u] \in Sends /\ xEntryTimeSet[u])
        BY <1>4 DEF QInv, CallType, EnterWait, caller
      <3> QED
        BY <3>1 DEF Found
    <2> QED
      BY <1>1, <1>2, <1>3, <1>4, <2>1, <2>2
      DEF QInv, EnterWait, caller, BQ!FindFull, BQ!Sends, Sends
  <1>5. CASE op[t] \notin Sends
    <2>1. Found' = Found
      <3>1. \A u \in Task : (op'[u] \in Sends /\ xEntryTimeSet'[u])
                               <=> (op[u] \in Sends /\ xEntryTimeSet[u])
        BY <1>5 DEF QInv, CallType, EnterWait, caller
      <3> QED
        BY <3>1 DEF Found
    <2> QED
      BY <1>1, <1>2, <1>3, <2>1 DEF QInv, EnterWait, caller, BQ!vars
  <1> QED
    BY <1>4, <1>5

\* Measuring what is left of the block time keeps the account of ticks waited.
LEMMA LockQueueStep ==
    ASSUME QInv, NEW t \in Task, LockQueue(t)
    PROVE  QInv' /\ UNCHANGED BQ!vars
  <1>1. StorageType' /\ RingPart' /\ Items' = Items
    BY SameStorage DEF QInv, LockQueue
  <1>2. CallType'
    <2>1. TicksLeft(t) \in 0..MaxDelay
      BY DelayType DEF QInv, CallType, TicksLeft
    <2> QED
      BY <2>1, DelayType DEF QInv, CallType, LockQueue, Goto, PC, caller, sched
  <1>3. CallPart'
    <2>1. SUFFICES ASSUME NEW u \in Task PROVE CallOK(u)'
      BY DEF CallPart
    <2>2. CallOK(u)
      BY DEF QInv, CallPart
    <2>3. CASE u = t
      BY <2>2, <2>3, DelayType DEF QInv, CallType, LockQueue, At, Goto, CallOK, TicksLeft, caller
    <2>4. CASE u # t
      BY <2>2, <2>4 DEF QInv, CallType, LockQueue, Goto, CallOK, caller
    <2> QED
      BY <2>3, <2>4
  <1> QED
    BY <1>1, <1>2, <1>3 DEF QInv, LockQueue, Found, caller, BQ!vars

\* Counting ticks keeps every call's account of its block time.
LEMMA CountTicksStep ==
    ASSUME QInv, NEW n \in 0..MaxPended \cup {1}, CountTicks(n),
           owner' \in Task \cup {NoTask}, xPendedTicks' \in 0..MaxPended, pc' \in [Task -> PC],
           \A u \in Task : \/ pc'[u] = pc[u]
                           \/ pc[u] = "resume"
                              /\ pc'[u] = IF xTicksToWait[u] = 0 THEN "expired" ELSE "enter"
    PROVE  CallType' /\ CallPart' /\ UNCHANGED Found /\ \E k \in 0..MaxDelay : waited' =
             [u \in Task |-> IF waited[u] + k < wait[u] THEN waited[u] + k ELSE wait[u]]
  <1>1. n \in Nat
    BY DelayType
  <1>2. \A u \in Task : Elapsed(u, n) \in 0..MaxDelay
    BY <1>1, DelayType DEF QInv, CallType, Elapsed
  <1>3. \A u \in Task : (IF waited[u] + n < wait[u] THEN waited[u] + n ELSE wait[u]) \in 0..MaxDelay
    BY <1>1, DelayType DEF QInv, CallType
  <1>4. CallType'
    BY <1>2, <1>3 DEF QInv, CallType, CountTicks
  <1>5. CallPart'
    <2>1. SUFFICES ASSUME NEW u \in Task PROVE CallOK(u)'
      BY DEF CallPart
    <2>2. CallOK(u)
      BY DEF QInv, CallPart
    <2>3. /\ elapsed'[u] = Elapsed(u, n)
          /\ waited'[u] = IF waited[u] + n < wait[u] THEN waited[u] + n ELSE wait[u]
          /\ UNCHANGED <<op[u], wait[u], xTicksToWait[u], xEntryTimeSet[u]>>
      BY DEF CountTicks
    <2>4. /\ waited[u] \in Nat /\ wait[u] \in Nat /\ xTicksToWait[u] \in Nat /\ elapsed[u] \in Nat
          /\ pc[u] \in PC /\ pc'[u] \in PC
      BY DelayType DEF QInv, CallType
    <2>5. waited'[u] <= wait'[u]
      BY <1>1, <2>3, <2>4
    <2>6. ASSUME pc'[u] # "idle", wait'[u] # MaxDelay
          PROVE  /\ xTicksToWait'[u] <= wait'[u] /\ elapsed'[u] <= xTicksToWait'[u]
                 /\ waited'[u] >= wait'[u] - xTicksToWait'[u] + elapsed'[u]
      <3>1. pc[u] # "idle" /\ wait[u] # MaxDelay
        BY <2>3, <2>6
      <3>2. /\ xTicksToWait[u] <= wait[u] /\ elapsed[u] <= xTicksToWait[u]
            /\ waited[u] >= wait[u] - xTicksToWait[u] + elapsed[u]
        BY <2>2, <3>1 DEF CallOK
      <3> QED
        BY <1>1, <2>2, <2>3, <2>4, <3>1, <3>2 DEF Elapsed, CallOK
    <2>7. pc'[u] # "idle" /\ wait'[u] = MaxDelay => xTicksToWait'[u] = MaxDelay
      BY <2>2, <2>3 DEF CallOK
    <2>8. /\ (pc'[u] = "idle") <=> (op'[u] = "none")
          /\ pc'[u] \notin {"idle", "enter"} => xEntryTimeSet'[u]
          /\ pc'[u] = "expired" => xTicksToWait'[u] = 0
          /\ op'[u] = "overwrite" => uxLength = 1 /\ ~Semaphore
      BY <2>2, <2>3 DEF CallOK
    <2> QED
      BY <2>5, <2>6, <2>7, <2>8 DEF CallOK
  <1>6. UNCHANGED Found
    BY DEF Found, CountTicks
  <1>7. \E k \in 0..MaxDelay : waited' =
             [u \in Task |-> IF waited[u] + k < wait[u] THEN waited[u] + k ELSE wait[u]]
    <2>1. CASE n <= MaxDelay
      BY <1>1, <2>1, DelayType DEF CountTicks
    <2>2. CASE ~(n <= MaxDelay)
      <3>1. \A u \in Task : (IF waited[u] + n < wait[u] THEN waited[u] + n ELSE wait[u])
                = IF waited[u] + MaxDelay < wait[u] THEN waited[u] + MaxDelay ELSE wait[u]
        BY <1>1, <2>2, DelayType DEF QInv, CallType
      <3>2. waited' = [u \in Task |-> IF waited[u] + MaxDelay < wait[u] THEN waited[u] + MaxDelay
                                       ELSE wait[u]]
        BY <3>1 DEF CountTicks
      <3> QED
        BY <3>2, DelayType
    <2> QED
      BY <2>1, <2>2
  <1> QED
    BY <1>4, <1>5, <1>6, <1>7

\* Ticks that pended pass when the scheduler resumes.
LEMMA xTaskResumeAllStep ==
    ASSUME QInv, NEW t \in Task, xTaskResumeAll(t)
    PROVE  QInv' /\ \E n \in 0..MaxDelay : BQ!Pass(n)
  <1>1. StorageType' /\ RingPart' /\ Items' = Items
    BY SameStorage DEF QInv, xTaskResumeAll
  <1>2. /\ xPendedTicks \in 0..MaxPended \cup {1} /\ CountTicks(xPendedTicks)
        /\ owner' \in Task \cup {NoTask} /\ xPendedTicks' \in 0..MaxPended
        /\ pc' \in [Task -> PC]
        /\ \A u \in Task : \/ pc'[u] = pc[u]
                           \/ pc[u] = "resume"
                              /\ pc'[u] = IF xTicksToWait[u] = 0 THEN "expired" ELSE "enter"
    BY DelayType DEF QInv, CallType, xTaskResumeAll, Goto, At, PC
  <1>3. /\ CallType' /\ CallPart' /\ UNCHANGED Found
        /\ \E k \in 0..MaxDelay : waited' =
             [u \in Task |-> IF waited[u] + k < wait[u] THEN waited[u] + k ELSE wait[u]]
    BY <1>2, CountTicksStep
  <1> QED
    BY <1>1, <1>2, <1>3 DEF QInv, CountTicks, BQ!Pass

\* A tick passes, or pends.
LEMMA TickStep ==
    ASSUME QInv, Tick
    PROVE  QInv' /\ (UNCHANGED BQ!vars \/ \E n \in 0..MaxDelay : BQ!Pass(n))
  <1>1. StorageType' /\ RingPart' /\ Items' = Items
    BY SameStorage DEF QInv, Tick
  <1>2. CASE owner = NoTask
    <2>1. /\ CountTicks(1) /\ 1 \in 0..MaxPended \cup {1}
          /\ owner' \in Task \cup {NoTask} /\ xPendedTicks' \in 0..MaxPended
          /\ pc' \in [Task -> PC] /\ \A u \in Task : pc'[u] = pc[u]
      BY <1>2 DEF QInv, CallType, Tick, sched
    <2>2. /\ CallType' /\ CallPart' /\ UNCHANGED Found
          /\ \E k \in 0..MaxDelay : waited' =
               [u \in Task |-> IF waited[u] + k < wait[u] THEN waited[u] + k ELSE wait[u]]
      BY <2>1, CountTicksStep
    <2> QED
      BY <1>1, <2>1, <2>2 DEF QInv, CountTicks, BQ!Pass
  <1>3. CASE owner # NoTask
    BY <1>1, <1>3, DelayType
    DEF QInv, CallType, CallPart, CallOK, Tick, Found, caller, timeout, BQ!vars
  <1> QED
    BY <1>2, <1>3

\* A send from an interrupt.
LEMMA IsrSendStep ==
    ASSUME QInv, NEW o \in Sends, NEW m \in Msg, xQueueGenericSendFromISR(o, m)
    PROVE  QInv' /\ BQ!IsrSend(o, m)
  <1>1. o = "overwrite" => uxLength = 1 /\ ~Semaphore
    BY QueueAssumption DEF xQueueGenericSendFromISR
  <1>2. StorageType' /\ RingPart' /\ Items' = BQ!Put(o, m)
    BY <1>1, PutItem DEF QInv, xQueueGenericSendFromISR
  <1>3. UNCHANGED <<sched, pc, caller, timeout>>
    BY DEF xQueueGenericSendFromISR
  <1>4. CallType' /\ CallPart' /\ UNCHANGED Found
    BY <1>3 DEF QInv, CallType, CallPart, CallOK, Found, sched, caller, timeout
  <1>5. BQ!Room(o)
    BY ItemsType DEF QInv, xQueueGenericSendFromISR, HasRoom, BQ!Room
  <1> QED
    BY <1>2, <1>3, <1>4, <1>5 DEF QInv, BQ!IsrSend, caller

\* A receive from an interrupt.
LEMMA IsrReceiveStep ==
    ASSUME QInv, xQueueReceiveFromISR
    PROVE  QInv' /\ BQ!IsrReceive
  <1>1. StorageType' /\ RingPart' /\ Items' = Tail(Items)
    BY TakeFirst DEF QInv, xQueueReceiveFromISR
  <1>2. UNCHANGED <<sched, pc, caller, timeout>>
    BY DEF xQueueReceiveFromISR
  <1>3. CallType' /\ CallPart' /\ UNCHANGED Found
    BY <1>2 DEF QInv, CallType, CallPart, CallOK, Found, sched, caller, timeout
  <1>4. Items # << >>
    BY ItemsType DEF QInv, StorageType, xQueueReceiveFromISR
  <1> QED
    BY <1>1, <1>2, <1>3, <1>4 DEF QInv, BQ!IsrReceive, caller

-----------------------------------------------------------------------------
(* The refinement.                                                         *)

\* Initial states map to initial states.
LEMMA InitMaps == Init => QInv /\ BQ!Init
  <1> SUFFICES ASSUME Init PROVE QInv /\ BQ!Init
    OBVIOUS
  <1>2. StorageType
    BY LengthType DEF Init, StorageType
  <1>3. RingPart
    BY LengthType DEF Init, RingPart, Position, Following
  <1>4. CallType
    BY DelayType DEF Init, CallType, PC
  <1>5. CallPart
    BY DelayType DEF Init, CallPart, CallOK
  <1>6. Found = [t \in Task |-> FALSE]
    BY DEF Init, Found, Sends
  <1>7. Items \in Seq(Msg) /\ Len(Items) <= uxLength
    BY <1>2, ItemsType, LengthType DEF StorageType
  <1> QED
    BY <1>2, <1>3, <1>4, <1>5, <1>6, <1>7 DEF QInv, Init, BQ!Init

\* Every step of a call maps to a step or to none.
LEMMA StepMaps ==
    ASSUME QInv, NEW t \in Task, Step(t)
    PROVE  QInv' /\ [BQ!Next]_BQ!vars
  <1>1. CASE EnterSend(t)
    BY <1>1, EnterSendStep DEF BQ!Next
  <1>2. CASE EnterReceive(t)
    BY <1>2, EnterReceiveStep DEF BQ!Next
  <1>3. CASE EnterFail(t)
    BY <1>3, EnterFailStep DEF BQ!Next
  <1>4. CASE EnterWait(t)
    BY <1>4, EnterWaitStep DEF BQ!Next
  <1>5. CASE vTaskSuspendAll(t)
    BY <1>5, vTaskSuspendAllStep
  <1>6. CASE LockQueue(t)
    BY <1>6, LockQueueStep
  <1>7. CASE TestQueue(t)
    BY <1>7, TestQueueStep
  <1>8. CASE vTaskPlaceOnEventList(t)
    BY <1>8, vTaskPlaceOnEventListStep
  <1>9. CASE UnlockTx(t)
    BY <1>9, UnlockTxStep
  <1>10. CASE UnlockRx(t)
    BY <1>10, UnlockRxStep
  <1>11. CASE xTaskResumeAll(t)
    BY <1>11, xTaskResumeAllStep DEF BQ!Next
  <1>12. CASE ExpiredFail(t)
    BY <1>12, ExpiredFailStep DEF BQ!Next
  <1>13. CASE ExpiredRetry(t)
    BY <1>13, ExpiredRetryStep
  <1> QED
    BY <1>1, <1>2, <1>3, <1>4, <1>5, <1>6, <1>7, <1>8, <1>9, <1>10, <1>11, <1>12, <1>13 DEF Step

\* So does every step of the system.
LEMMA NextMaps == QInv /\ [Next]_vars => QInv' /\ [BQ!Next]_BQ!vars
  <1> SUFFICES ASSUME QInv, [Next]_vars PROVE QInv' /\ [BQ!Next]_BQ!vars
    OBVIOUS
  <1>2. ASSUME NEW t \in Task, NEW o \in Sends, NEW w \in 0..MaxDelay, NEW m \in Msg, Call(t, o, w, m)
        PROVE  QInv' /\ [BQ!Next]_BQ!vars
    <2>1. QInv' /\ BQ!Call(t, o, w, m)
      BY <1>2, CallStep
    <2> QED
      BY <2>1 DEF BQ!Next, BQ!Sends, Sends
  <1>3. ASSUME NEW t \in Task, NEW w \in 0..MaxDelay, Call(t, "receive", w, item[t])
        PROVE  QInv' /\ [BQ!Next]_BQ!vars
    <2>1. item[t] \in Msg
      BY DEF QInv, CallType
    <2>2. QInv' /\ BQ!Call(t, "receive", w, item[t])
      BY <1>3, <2>1, CallStep
    <2> QED
      BY <2>1, <2>2 DEF BQ!Next
  <1>4. ASSUME NEW t \in Task, Step(t)
        PROVE  QInv' /\ [BQ!Next]_BQ!vars
    BY <1>4, StepMaps
  <1>5. ASSUME NEW o \in Sends, NEW m \in Msg, xQueueGenericSendFromISR(o, m)
        PROVE  QInv' /\ [BQ!Next]_BQ!vars
    BY <1>5, IsrSendStep DEF BQ!Next, BQ!Sends, Sends
  <1>6. CASE xQueueReceiveFromISR
    BY <1>6, IsrReceiveStep DEF BQ!Next
  <1>7. CASE Tick
    BY <1>7, TickStep DEF BQ!Next
  <1>8. CASE UNCHANGED vars
    <2>1. StorageType' /\ RingPart' /\ Items' = Items
      BY <1>8, SameStorage DEF QInv, vars
    <2> QED
      BY <1>8, <2>1
      DEF vars, sched, caller, timeout, QInv, CallType, CallPart, CallOK, Found, BQ!vars
  <1> QED
    BY <1>2, <1>3, <1>4, <1>5, <1>6, <1>7, <1>8 DEF Next

\* The kernel queue is a bounded FIFO queue with block times: whatever tasks,
\* interrupt handlers and ticks do in between, every call of queue.c takes
\* effect in one step and fails only as BoundedQueue allows.
THEOREM QueueRefines == Spec => Refines
  <1>1. Init => QInv /\ BQ!Init
    BY InitMaps
  <1>2. QInv /\ [Next]_vars => QInv' /\ [BQ!Next]_BQ!vars
    BY NextMaps
  <1> QED
    BY <1>1, <1>2, PTL DEF Spec, Refines, BQ!Spec

-----------------------------------------------------------------------------
(* The queue's locks.                                                      *)

\* The locks, with the types their steps depend on.
LockPart ==
    /\ pc \in [Task -> PC] /\ owner \in Task \cup {NoTask}
    /\ cTxLock \in -1..NumberOfTasks /\ cRxLock \in -1..NumberOfTasks
    /\ LockInv

\* No task is NoTask.
LEMMA NoTaskIsNone == NoTask \notin Task
  BY QueueAssumption

\* The steps of a call that do not touch the locks.
LEMMA UnlockedStep ==
    ASSUME LockPart, NEW t \in Task, UNCHANGED <<locks, owner>>,
           NEW l \in PC, pc' = [pc EXCEPT ![t] = l],
           l \in Owned <=> pc[t] \in Owned,
           l \in {"test", "place", "unlock_tx"} => pc[t] \in {"test", "place", "unlock_tx"},
           l \notin {"unlock_rx", "resume"}
    PROVE  LockPart'
  BY DEF LockPart, LockInv, locks, PC, Owned

\* A call keeps the queue unlocked but where its caller owns the scheduler.
LEMMA StepLocks ==
    ASSUME LockPart, NEW t \in Task, Step(t)
    PROVE  LockPart'
  <1>1. CASE EnterSend(t) \/ EnterReceive(t)
    BY <1>1, UnlockedStep
    DEF EnterSend, EnterReceive, UnblockReceiver, UnblockSender, Return, At, sched, PC, Owned
  <1>2. CASE EnterFail(t) \/ ExpiredFail(t)
    BY <1>2, UnlockedStep DEF EnterFail, ExpiredFail, Return, At, sched, PC, Owned
  <1>3. CASE EnterWait(t) \/ ExpiredRetry(t)
    BY <1>3, UnlockedStep DEF EnterWait, ExpiredRetry, At, Goto, sched, PC, Owned
  <1>4. CASE TestQueue(t)
    BY <1>4, UnlockedStep DEF TestQueue, At, Goto, sched, PC, Owned
  <1>5. CASE vTaskPlaceOnEventList(t)
    BY <1>5, UnlockedStep DEF vTaskPlaceOnEventList, At, Goto, sched, PC, Owned
  <1>6. CASE vTaskSuspendAll(t)
    BY <1>6, NoTaskIsNone, QueueAssumption DEF LockPart, LockInv, vTaskSuspendAll, At, Runs, Goto, locks, PC, Owned
  <1>7. CASE LockQueue(t)
    BY <1>7, NoTaskIsNone, QueueAssumption DEF LockPart, LockInv, LockQueue, At, Goto, sched, PC, Owned
  <1>8. CASE UnlockTx(t)
    BY <1>8, NoTaskIsNone, QueueAssumption DEF LockPart, LockInv, UnlockTx, At, Goto, sched, PC, Owned
  <1>9. CASE UnlockRx(t)
    BY <1>9, NoTaskIsNone, QueueAssumption DEF LockPart, LockInv, UnlockRx, At, Goto, sched, PC, Owned
  <1>10. CASE xTaskResumeAll(t)
    BY <1>10, NoTaskIsNone, QueueAssumption DEF LockPart, LockInv, xTaskResumeAll, At, Goto, locks, PC, Owned
  <1> QED
    BY <1>1, <1>2, <1>3, <1>4, <1>5, <1>6, <1>7, <1>8, <1>9, <1>10 DEF Step

\* So does every step of the system.
LEMMA NextLocks == LockPart /\ [Next]_vars => LockPart'
  <1> SUFFICES ASSUME LockPart, [Next]_vars PROVE LockPart'
    OBVIOUS
  <1>1. ASSUME NEW t \in Task, NEW o, NEW w, NEW m, Call(t, o, w, m)
        PROVE  LockPart'
    BY <1>1, UnlockedStep DEF Call, sched, PC, Owned
  <1>2. ASSUME NEW t \in Task, Step(t)
        PROVE  LockPart'
    BY <1>2, StepLocks
  <1>3. ASSUME NEW o, NEW m, xQueueGenericSendFromISR(o, m)
        PROVE  LockPart'
    BY <1>3, QueueAssumption DEF LockPart, LockInv, Counted, xQueueGenericSendFromISR, UnblockReceiver,
       locks, lists, sched
  <1>4. CASE xQueueReceiveFromISR
    BY <1>4, QueueAssumption DEF LockPart, LockInv, Counted, xQueueReceiveFromISR, UnblockSender,
       locks, lists, sched
  <1>5. CASE Tick
    BY <1>5 DEF LockPart, LockInv, Tick, locks, sched
  <1>6. CASE UNCHANGED vars
    BY <1>6 DEF LockPart, LockInv, vars, locks, sched
  <1> QED
    BY <1>1, <1>2, <1>3, <1>4, <1>5, <1>6 DEF Next

\* No task ever finds the queue locked when it may change the event lists: the
\* lock counts are back at queueUNLOCKED whenever the scheduler runs.
THEOREM LockedOnlySuspended == Spec => []UnlockedForTasks
  <1>1. Init => LockPart
    BY NoTaskIsNone, QueueAssumption DEF Init, LockPart, LockInv, PC, Owned
  <1>2. LockPart /\ [Next]_vars => LockPart'
    BY NextLocks
  <1>3. LockPart => UnlockedForTasks
    BY DEF LockPart, LockInv, UnlockedForTasks
  <1> QED
    BY <1>1, <1>2, <1>3, PTL DEF Spec

=============================================================================
