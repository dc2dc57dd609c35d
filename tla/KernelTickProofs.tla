-------------------------- MODULE KernelTickProofs --------------------------
(***************************************************************************)
(* Proofs about KernelTick: for every width of the tick count, delays and  *)
(* block times end neither early nor late, and an event reaches the task   *)
(* that waits for it.                                                      *)
(***************************************************************************)
EXTENDS KernelTick, WellFoundedInduction, TLAPS

-----------------------------------------------------------------------------
(* Arithmetic.                                                             *)

\* A value below the modulus stays as it is.
LEMMA ModSmall == ASSUME NEW w \in Nat, w > 0, NEW x \in Int, 0 <= x, x < w PROVE x % w = x
  OBVIOUS

\* A value that has overflowed once.
LEMMA ModOver == ASSUME NEW w \in Nat, w > 0, NEW x \in Int, w <= x, x < 2 * w PROVE x % w = x - w
  OBVIOUS

\* A difference that has underflowed once.
LEMMA ModUnder == ASSUME NEW w \in Nat, w > 0, NEW x \in Int, -w <= x, x < 0 PROVE x % w = x + w
  OBVIOUS

\* The range of a remainder.
LEMMA ModRange == ASSUME NEW w \in Nat, w > 0, NEW x \in Int PROVE x % w \in 0..w - 1
  OBVIOUS

\* A division undoes a multiplication.
LEMMA DivMul == ASSUME NEW w \in Nat, w > 0, NEW x \in Nat PROVE (x * w) \div w = x
  OBVIOUS

\* Every set of naturals that is not empty has a least element.
LEMMA LeastNatural == ASSUME NEW T, T \subseteq Nat, T # {} PROVE \E x \in T : \A y \in T : x <= y
  <1> DEFINE R == {r \in Nat \X Nat : r[1] < r[2]}
  <1>1. IsWellFoundedOn(R, Nat)
    <2>1. R = OpToRel(<, Nat)
      BY DEF OpToRel
    <2> QED BY <2>1, NatLessThanWellFounded
  <1>2. PICK x \in T : \A y \in T : ~(<<y, x>> \in R)
    BY <1>1, WFMin, Zenon
  <1>3. ASSUME NEW y \in T PROVE x <= y
    <2>1. ~(<<y, x>> \in R) BY <1>2
    <2>2. x \in Nat /\ y \in Nat OBVIOUS
    <2>3. y < x => <<y, x>> \in R BY <2>2
    <2> HIDE DEF R
    <2> QED BY <2>1, <2>2, <2>3
  <1> QED BY <1>3

\* The head of a delayed list: no task in the list wakes before it.
LEMMA HeadWakesFirst ==
  ASSUME TypeOK, NEW list, list \subseteq Task
  PROVE  /\ prvResetNextTaskUnblockTime(list) \in 0..Wrap - 1
         /\ \A t \in list : prvResetNextTaskUnblockTime(list) <= xTimeToWake[t]
  <1> DEFINE W == {xTimeToWake[t] : t \in list}
  <1>1. CASE list = {}
    BY <1>1, TickAssumption DEF prvResetNextTaskUnblockTime, portMAX_DELAY
  <1>2. CASE list # {}
    <2>1. W \subseteq 0..Wrap - 1 /\ W # {}
      BY <1>2, TickAssumption DEF TypeOK
    <2>2. W \subseteq Nat
      BY <2>1, TickAssumption
    <2>3. PICK x \in W : \A y \in W : x <= y
      BY <2>1, <2>2, LeastNatural
    <2>4. \E w \in W : \A t \in list : w <= xTimeToWake[t]
      BY <2>3
    <2>5. /\ prvResetNextTaskUnblockTime(list) \in W
          /\ \A t \in list : prvResetNextTaskUnblockTime(list) <= xTimeToWake[t]
      BY <1>2, <2>4 DEF prvResetNextTaskUnblockTime
    <2> QED BY <2>1, <2>5
  <1> QED BY <1>1, <1>2

\* The next value of the tick count.
LEMMA NextTick ==
  ASSUME TypeOK
  PROVE  \/ (xTickCount + 1) % Wrap = xTickCount + 1 /\ xTickCount + 1 < Wrap /\ xTickCount + 1 > 0
         \/ (xTickCount + 1) % Wrap = 0 /\ xTickCount = Wrap - 1
  <1>1. xTickCount \in 0..Wrap - 1 /\ Wrap \in Nat /\ Wrap > 1
    BY TickAssumption DEF TypeOK
  <1>2. CASE xTickCount + 1 < Wrap
    BY <1>1, <1>2, ModSmall
  <1>3. CASE xTickCount = Wrap - 1
    BY <1>1, <1>3, ModOver
  <1> QED BY <1>1, <1>2, <1>3

\* An overflow changes the number of overflows.
LEMMA NextOverflow ==
  ASSUME NEW o \in 0..OverflowWrap - 1
  PROVE  (o + 1) % OverflowWrap \in 0..OverflowWrap - 1 /\ (o + 1) % OverflowWrap # o
  <1>1. OverflowWrap \in Nat /\ OverflowWrap > 1
    BY TickAssumption
  <1>2. CASE o + 1 < OverflowWrap
    BY <1>1, <1>2, ModSmall
  <1>3. CASE o = OverflowWrap - 1
    BY <1>1, <1>3, ModOver
  <1> QED BY <1>1, <1>2, <1>3

\* The wake time of a task that blocks for n ticks.
LEMMA WakeTimes ==
  ASSUME TypeOK, NEW n \in 1..Wrap - 1
  PROVE  /\ WakeTime(n) \in 0..Wrap - 1
         /\ Overflows(n) => WakeTime(n) = xTickCount + n - Wrap
         /\ ~Overflows(n) => WakeTime(n) = xTickCount + n
  <1>1. xTickCount \in 0..Wrap - 1 /\ Wrap \in Nat /\ Wrap > 1
    BY TickAssumption DEF TypeOK
  <1>2. CASE xTickCount + n < Wrap
    BY <1>1, <1>2, ModSmall DEF WakeTime, Overflows
  <1>3. CASE xTickCount + n >= Wrap
    BY <1>1, <1>3, ModOver DEF WakeTime, Overflows
  <1> QED BY <1>1, <1>2, <1>3

-----------------------------------------------------------------------------
(* A tick is counted.                                                      *)

\* What CountTick does to the lists, in one formula: exactly the tasks whose wake
\* time has come leave, and the head is still the first to wake.
LEMMA CountTickLists ==
  ASSUME IInv, CountTick
  PROVE  LET tick == xTickCount'
         IN /\ \/ tick = xTickCount + 1 /\ 0 < tick /\ tick < Wrap
                  /\ pxDelayedTaskList' = {t \in pxDelayedTaskList : xTimeToWake[t] > tick}
                  /\ pxOverflowDelayedTaskList' = pxOverflowDelayedTaskList
                  /\ eventList' = eventList \ {t \in pxDelayedTaskList : xTimeToWake[t] <= tick}
                  /\ xNumOfOverflows' = xNumOfOverflows
               \/ tick = 0 /\ xTickCount = Wrap - 1 /\ pxDelayedTaskList = {}
                  /\ pxDelayedTaskList' = {t \in pxOverflowDelayedTaskList : xTimeToWake[t] > tick}
                  /\ pxOverflowDelayedTaskList' = {}
                  /\ eventList' = eventList \ {t \in pxOverflowDelayedTaskList : xTimeToWake[t] <= tick}
                  /\ xNumOfOverflows' = (xNumOfOverflows + 1) % OverflowWrap
            /\ xNextTaskUnblockTime' \in 0..Wrap - 1
            /\ \A t \in pxDelayedTaskList' : xNextTaskUnblockTime' <= xTimeToWake[t]
  <1> DEFINE tick == (xTickCount + 1) % Wrap
             cur == CurrentList(tick)
             left == cur \ Expired(tick)
  <1>0. TypeOK /\ WakePart /\ xTickCount' = tick
    BY DEF IInv, CountTick
  <1>a. /\ Wrap \in Nat /\ Wrap > 1 /\ xTickCount \in 0..Wrap - 1
        /\ xTimeToWake \in [Task -> 0..Wrap - 1] /\ xNextTaskUnblockTime \in 0..Wrap - 1
    BY <1>0, TickAssumption DEF TypeOK
  <1>1. \/ tick = xTickCount + 1 /\ 0 < tick /\ tick < Wrap
        \/ tick = 0 /\ xTickCount = Wrap - 1
    BY <1>0, NextTick
  <1>2. cur \subseteq Task /\ left \subseteq Task
    BY <1>0 DEF CurrentList, TypeOK
  <1>3. UnblockTime(tick) \in 0..Wrap - 1 /\ \A t \in cur : UnblockTime(tick) <= xTimeToWake[t]
    <2>1. CASE tick = 0
      <3>1. UnblockTime(tick) = prvResetNextTaskUnblockTime(cur)
        BY <2>1 DEF UnblockTime
      <3> HIDE DEF tick, cur
      <3> QED BY <1>0, <1>2, <3>1, HeadWakesFirst
    <2>2. CASE tick # 0
      <3>1. UnblockTime(tick) = xNextTaskUnblockTime /\ cur = pxDelayedTaskList
        BY <2>2 DEF UnblockTime, CurrentList
      <3> QED BY <1>0, <3>1 DEF WakePart, TypeOK
    <2> QED BY <2>1, <2>2
  <1>4. Expired(tick) = {t \in cur : xTimeToWake[t] <= tick}
    <2>1. tick \in Int /\ UnblockTime(tick) \in Int /\ \A t \in cur : xTimeToWake[t] \in Int
      BY <1>a, <1>1, <1>2, <1>3
    <2>2. tick < UnblockTime(tick) => \A t \in cur : ~(xTimeToWake[t] <= tick)
      <3> HIDE DEF tick, cur
      <3> QED BY <2>1, <1>3
    <2> HIDE DEF tick
    <2> QED BY <2>1, <2>2 DEF Expired
  <1>5. left = {t \in cur : xTimeToWake[t] > tick}
    <2>1. tick \in Int /\ \A t \in cur : xTimeToWake[t] \in Int
      BY <1>a, <1>1, <1>2
    <2> HIDE DEF tick, cur
    <2> QED BY <1>4, <2>1
  <1>6. tick = 0 => pxDelayedTaskList = {}
    <2>1. SUFFICES ASSUME tick = 0, NEW t \in pxDelayedTaskList PROVE FALSE
      OBVIOUS
    <2>2. xTimeToWake[t] > xTickCount /\ t \in Task
      BY <1>0 DEF WakePart, TypeOK
    <2> HIDE DEF tick
    <2> QED BY <1>1, <1>a, <2>1, <2>2
  <1>7. /\ pxDelayedTaskList' = left
        /\ pxOverflowDelayedTaskList' = OtherList(tick)
        /\ eventList' = eventList \ Expired(tick)
        /\ xNumOfOverflows' = IF tick = 0 THEN (xNumOfOverflows + 1) % OverflowWrap ELSE xNumOfOverflows
        /\ xNextTaskUnblockTime' = IF tick >= UnblockTime(tick)
                                  THEN prvResetNextTaskUnblockTime(left) ELSE UnblockTime(tick)
    BY DEF CountTick, EventListAfter
  <1>8. /\ xNextTaskUnblockTime' \in 0..Wrap - 1
        /\ \A t \in pxDelayedTaskList' : xNextTaskUnblockTime' <= xTimeToWake[t]
    <2>1. /\ prvResetNextTaskUnblockTime(left) \in 0..Wrap - 1
          /\ \A t \in left : prvResetNextTaskUnblockTime(left) <= xTimeToWake[t]
      <3> HIDE DEF left
      <3> QED BY <1>0, <1>2, HeadWakesFirst
    <2>2. \A t \in left : t \in cur
      OBVIOUS
    <2> HIDE DEF left, cur, tick
    <2> QED BY <2>1, <2>2, <1>3, <1>7
  <1>9. CASE tick = 0
    <2>1. cur = pxOverflowDelayedTaskList /\ OtherList(tick) = pxDelayedTaskList
      BY <1>9 DEF CurrentList, OtherList
    <2> HIDE DEF tick, cur, left
    <2> QED BY <1>0, <1>1, <1>4, <1>5, <1>6, <1>7, <1>8, <1>9, <2>1, <1>a
  <1>10. CASE tick # 0
    <2>1. cur = pxDelayedTaskList /\ OtherList(tick) = pxOverflowDelayedTaskList
      BY <1>10 DEF CurrentList, OtherList
    <2> HIDE DEF tick, cur, left
    <2> QED BY <1>0, <1>1, <1>4, <1>5, <1>7, <1>8, <1>10, <2>1, <1>a
  <1> QED BY <1>9, <1>10

\* What counting a tick does to the invariant.  One tick less is left to every
\* task with a time limit; the tick was pended or has just happened.
LEMMA CountTickKeeps ==
  ASSUME IInv, CountTick, suspended = NULL,
         UNCHANGED <<xSuspendedTaskList, xPendingReadyList, xTimeToWake, suspended, pc,
                     xTicksToWait, xTimeOut>>,
         due' \in [Task -> Int], \A t \in Task : due'[t] >= -MaxLag,
         Uncounted \in Nat, Uncounted' \in Nat,
         \A t \in Task : Timed(t) => Left(t)' = Left(t) - 1
  PROVE  ListPart' /\ WakePart' /\ DelayPart' /\ WaitPart' /\ EventReaches'
  <1> DEFINE tick == xTickCount'
             D == pxDelayedTaskList
             O == pxOverflowDelayedTaskList
  <1>0. TypeOK /\ SuspendPart /\ ListPart /\ WakePart /\ DelayPart /\ WaitPart /\ EventReaches
    BY DEF IInv
  <1>a. /\ Wrap \in Nat /\ Wrap > 1 /\ xTickCount \in 0..Wrap - 1 /\ MaxLag \in Nat
        /\ xTimeToWake \in [Task -> 0..Wrap - 1] /\ xTicksToWait \in [Task -> 0..Wrap - 1]
        /\ due \in [Task -> Int]
    BY <1>0, TickAssumption DEF TypeOK
  <1>b. \A t \in Task : Left(t) \in Int /\ Left(t)' \in Int /\ Left(t)' = due'[t] + Uncounted'
    BY <1>a DEF Left
  <1>c. D \subseteq Task /\ O \subseteq Task /\ eventList \subseteq Task /\ xSuspendedTaskList \subseteq Task
    BY <1>0 DEF TypeOK
  <1>1. \/ /\ tick = xTickCount + 1 /\ 0 < tick /\ tick < Wrap
           /\ D' = {t \in D : xTimeToWake[t] > tick} /\ O' = O
           /\ eventList' = eventList \ {t \in D : xTimeToWake[t] <= tick}
           /\ xNumOfOverflows' = xNumOfOverflows
        \/ /\ tick = 0 /\ xTickCount = Wrap - 1 /\ D = {}
           /\ D' = {t \in O : xTimeToWake[t] > tick} /\ O' = {}
           /\ eventList' = eventList \ {t \in O : xTimeToWake[t] <= tick}
           /\ xNumOfOverflows' = (xNumOfOverflows + 1) % OverflowWrap
    BY CountTickLists
  <1>2. \A t \in D' : xNextTaskUnblockTime' <= xTimeToWake[t]
    BY CountTickLists
  <1>3. \A t \in D \cup O : Timed(t)
    BY <1>0, <1>a DEF ListPart, Timed, Delay, Waits
  <1>4. \A t \in D \cup O : t \in D' \cup O' \/ Left(t)' <= 0
    <2> SUFFICES ASSUME NEW t \in D \cup O, t \notin D' \cup O' PROVE Left(t)' <= 0
      OBVIOUS
    <2>1. t \in Task /\ xTimeToWake[t] \in 0..Wrap - 1 /\ Left(t)' = Left(t) - 1
      BY <1>3, <1>a, <1>c
    <2>2. CASE tick = 0
      <3>1. t \in O /\ xTimeToWake[t] <= 0
        BY <1>1, <2>1, <2>2, <1>a
      <3>2. xTimeToWake[t] + Wrap - xTickCount = Left(t) /\ xTickCount = Wrap - 1
        BY <3>1, <1>0, <1>1, <2>2, <1>a DEF WakePart
      <3> QED BY <3>1, <3>2, <2>1, <1>a, <1>b
    <2>3. CASE tick # 0
      <3>1. t \in D /\ xTimeToWake[t] <= tick /\ tick = xTickCount + 1
        BY <1>1, <2>1, <2>3, <1>a
      <3>2. xTimeToWake[t] - xTickCount = Left(t)
        BY <3>1, <1>0 DEF WakePart
      <3> QED BY <3>1, <3>2, <2>1, <1>a, <1>b
    <2> QED BY <2>2, <2>3
  <1>5. D' \cup O' \subseteq D \cup O
    BY <1>1
  <1>6. D' \cap O' = {}
    BY <1>0, <1>1 DEF ListPart
  <1>7. \A t \in Task : Ready(t) => Ready(t)'
    BY <1>5 DEF Ready, Listed
  <1>8. ListPart'
    BY <1>0, <1>1, <1>5, <1>6, <1>7 DEF ListPart, portMAX_DELAY
  <1>9. WakePart'
    <2>1. ASSUME NEW t \in D'
          PROVE  xTimeToWake'[t] > tick /\ xTimeToWake'[t] - tick = Left(t)'
      <3>1. t \in Task /\ xTimeToWake'[t] = xTimeToWake[t] /\ xTimeToWake[t] > tick
        BY <1>1, <1>c
      <3>2. Left(t)' = Left(t) - 1
        BY <1>3, <1>5, <3>1
      <3>3. \/ tick = xTickCount + 1 /\ xTimeToWake[t] - xTickCount = Left(t)
            \/ tick = 0 /\ xTickCount = Wrap - 1 /\ xTimeToWake[t] + Wrap - xTickCount = Left(t)
        BY <1>0, <1>1 DEF WakePart
      <3> QED BY <3>1, <3>2, <3>3, <1>a, <1>b
    <2>2. ASSUME NEW t \in O'
          PROVE  xTimeToWake'[t] < tick /\ xTimeToWake'[t] + Wrap - tick = Left(t)'
      <3>1. t \in O /\ t \in Task /\ tick = xTickCount + 1 /\ xTimeToWake'[t] = xTimeToWake[t]
        BY <1>1, <1>c
      <3>2. Left(t)' = Left(t) - 1
        BY <1>3, <3>1
      <3>3. xTimeToWake[t] < xTickCount /\ xTimeToWake[t] + Wrap - xTickCount = Left(t)
        BY <3>1, <1>0 DEF WakePart
      <3> QED BY <3>1, <3>2, <3>3, <1>a, <1>b
    <2>3. \A t \in D' : xTimeToWake'[t] = xTimeToWake[t]
      OBVIOUS
    <2> QED BY <1>2, <2>1, <2>2, <2>3 DEF WakePart
  <1>10. \A t \in Task : Timed(t) /\ Left(t) <= 0 => Left(t)' <= 0
    BY <1>b
  <1>11. DelayPart'
    <2>1. \A t \in Task : pc[t] # "add" /\ pc[t] # "resume"
      BY <1>0, TickAssumption DEF SuspendPart, Suspends
    <2>2. ASSUME NEW t \in Task, pc[t] = "woken", Ready(t)' PROVE Left(t)' <= 0
      <3>1. Timed(t)
        BY <2>2 DEF Timed, Delay
      <3>2. CASE Ready(t)
        BY <3>1, <3>2, <2>2, <1>0, <1>10 DEF DelayPart
      <3>3. CASE ~Ready(t)
        <4>1. t \in D \cup O
          BY <3>3, <2>2 DEF Ready, Listed
        <4> QED BY <4>1, <1>4, <2>2 DEF Ready, Listed
      <3> QED BY <3>2, <3>3
    <2> QED BY <2>1, <2>2 DEF DelayPart
  <1>12. WaitPart'
    <2>1. ASSUME NEW t \in Task, Measured(t), xTicksToWait[t] \notin {0, portMAX_DELAY},
                 pc[t] \in {"check", "test", "place", "resume_place", "retry"}
          PROVE  Measured(t)'
      <3>1. Left(t)' = Left(t) - 1
        BY <2>1 DEF Timed, Waits
      <3>2. Counted(t)' = Counted(t) + 1 /\ Counted(t) \in Int
        BY <3>1, <1>a, <1>b DEF Counted
      <3>3. Counted(t)' <= Wrap
        <4>1. Left(t)' >= -MaxLag
          BY <1>b, <1>a
        <4>2. Counted(t)' = xTicksToWait[t] - Left(t)' /\ xTicksToWait[t] + MaxLag <= Wrap
          BY <2>1 DEF Counted, Measured
        <4> QED BY <4>1, <4>2, <1>a, <1>b
      <3>4. /\ xTimeOut[t].xTimeOnEntering \in 0..Wrap - 1
            /\ xTimeOut[t].xOverflowCount \in 0..OverflowWrap - 1
            /\ xNumOfOverflows \in 0..OverflowWrap - 1
        BY <1>0 DEF TypeOK
      <3>5. (xNumOfOverflows + 1) % OverflowWrap # xNumOfOverflows
        BY <3>4, NextOverflow
      <3>6. \/ /\ xNumOfOverflows' = xTimeOut[t].xOverflowCount
               /\ tick = xTimeOut[t].xTimeOnEntering + Counted(t)'
            \/ /\ xNumOfOverflows' # xTimeOut[t].xOverflowCount
               /\ tick = xTimeOut[t].xTimeOnEntering + Counted(t)' - Wrap
        <4>1. \/ /\ xNumOfOverflows = xTimeOut[t].xOverflowCount
                 /\ xTickCount = xTimeOut[t].xTimeOnEntering + Counted(t)
              \/ /\ xNumOfOverflows # xTimeOut[t].xOverflowCount
                 /\ xTickCount = xTimeOut[t].xTimeOnEntering + Counted(t) - Wrap
          BY <2>1 DEF Measured
        <4>2. \/ tick = xTickCount + 1 /\ xNumOfOverflows' = xNumOfOverflows
              \/ /\ tick = 0 /\ xTickCount = Wrap - 1
                 /\ xNumOfOverflows' = (xNumOfOverflows + 1) % OverflowWrap
          BY <1>1
        <4> HIDE DEF tick
        <4> QED BY <3>2, <3>3, <3>4, <3>5, <4>1, <4>2, <1>a
      <3> QED BY <2>1, <3>2, <3>6, <1>a DEF Measured
    <2>2. \A t \in Task : pc[t] # "place" /\ pc[t] # "resume_expired"
      BY <1>0, TickAssumption DEF SuspendPart, Suspends
    <2>3. \A t \in Task : pc[t] \in Waits /\ xTicksToWait[t] = 0 => Left(t)' <= 0
      <3>1. \A t \in Task : pc[t] \in Waits /\ xTicksToWait[t] = 0 => Timed(t)
        BY TickAssumption DEF Timed, portMAX_DELAY
      <3> QED BY <3>1, <1>0, <1>10 DEF WaitPart
    <2> QED BY <2>1, <2>2, <2>3, <1>0 DEF WaitPart, portMAX_DELAY
  <1>13. EventReaches'
    <2>1. xPendingReadyList = {}
      BY <1>0 DEF SuspendPart
    <2>2. ASSUME NEW t \in eventList' PROVE ~Ready(t)'
      <3>1. t \in eventList /\ ~Ready(t)
        BY <1>0, <1>1 DEF EventReaches
      <3>2. xTimeToWake[t] \in Int
        BY <3>1, <1>a, <1>c
      <3> QED BY <3>1, <3>2, <2>2, <1>1, <1>a DEF Ready, Listed
    <2>3. ASSUME NEW t \in Task, pc[t] \in {"resume_place", "retry"}, ~Ready(t)'
          PROVE  t \in eventList'
      <3>1. t \in eventList
        BY <1>0, <1>7, <2>1, <2>3 DEF EventReaches
      <3>2. xTimeToWake[t] \in Int
        BY <1>a
      <3>3. t \notin xSuspendedTaskList \/ t \notin D \cup O
        BY <1>0 DEF ListPart
      <3>4. CASE t \in xSuspendedTaskList
        BY <3>1, <3>3, <3>4, <1>1
      <3>5. CASE t \in D' \cup O'
        <4>1. D \cap O = {} /\ tick \in Int
          BY <1>0, <1>1, <1>a DEF ListPart
        <4> QED BY <3>1, <3>2, <3>5, <4>1, <1>1
      <3> QED BY <3>4, <3>5, <2>3 DEF Ready, Listed
    <2> QED BY <2>1, <2>2, <2>3 DEF EventReaches
  <1> QED BY <1>8, <1>9, <1>11, <1>12, <1>13

-----------------------------------------------------------------------------
(* A task blocks for n ticks that are all left to it.                      *)

\* prvAddCurrentTaskToDelayedList keeps the invariant of all other tasks and
\* gives the caller a wake time that agrees with the ticks it has left.
LEMMA AddKeeps ==
  ASSUME IInv, NEW k \in Task, NEW n \in 1..Wrap - 1, NEW b \in BOOLEAN,
         prvAddCurrentTaskToDelayedList(k, n, b), Limited(n, b) => Left(k) = n, Ready(k),
         UNCHANGED <<clock, pend, due>>
  PROVE  /\ xNextTaskUnblockTime' \in 0..Wrap - 1 /\ xTimeToWake' \in [Task -> 0..Wrap - 1]
         /\ pxDelayedTaskList' \subseteq Task /\ pxOverflowDelayedTaskList' \subseteq Task
         /\ xSuspendedTaskList' \subseteq Task
         /\ WakePart'
  <1>0. TypeOK /\ WakePart
    BY DEF IInv
  <1>a. /\ Wrap \in Nat /\ Wrap > 1 /\ xTickCount \in 0..Wrap - 1
        /\ xTimeToWake \in [Task -> 0..Wrap - 1] /\ xNextTaskUnblockTime \in 0..Wrap - 1
        /\ pxDelayedTaskList \subseteq Task /\ pxOverflowDelayedTaskList \subseteq Task
        /\ xSuspendedTaskList \subseteq Task
    BY <1>0, TickAssumption DEF TypeOK
  <1>b. \A t \in Task : Left(t)' = Left(t)
    BY DEF Left, Uncounted, pend
  <1>c. xTickCount' = xTickCount
    BY DEF clock
  <1>d. k \notin pxDelayedTaskList /\ k \notin pxOverflowDelayedTaskList
    BY DEF Ready, Listed
  <1>1. CASE ~Limited(n, b)
    <2>1. /\ xSuspendedTaskList' = xSuspendedTaskList \cup {k}
          /\ UNCHANGED <<pxDelayedTaskList, pxOverflowDelayedTaskList, xTimeToWake, xNextTaskUnblockTime>>
      BY <1>1 DEF prvAddCurrentTaskToDelayedList
    <2> QED BY <2>1, <1>0, <1>a, <1>b, <1>c DEF WakePart
  <1>2. CASE Limited(n, b) /\ Overflows(n)
    <2>1. /\ xTimeToWake' = [xTimeToWake EXCEPT ![k] = WakeTime(n)]
          /\ pxOverflowDelayedTaskList' = pxOverflowDelayedTaskList \cup {k}
          /\ UNCHANGED <<pxDelayedTaskList, xSuspendedTaskList, xNextTaskUnblockTime>>
      BY <1>2 DEF prvAddCurrentTaskToDelayedList
    <2>2. WakeTime(n) \in 0..Wrap - 1 /\ WakeTime(n) = xTickCount + n - Wrap
      BY <1>0, <1>2, WakeTimes
    <2>3. Left(k) = n
      BY <1>2
    <2> QED BY <2>1, <2>2, <2>3, <1>0, <1>a, <1>b, <1>c, <1>d DEF WakePart
  <1>3. CASE Limited(n, b) /\ ~Overflows(n)
    <2>1. /\ xTimeToWake' = [xTimeToWake EXCEPT ![k] = WakeTime(n)]
          /\ pxDelayedTaskList' = pxDelayedTaskList \cup {k}
          /\ xNextTaskUnblockTime' = IF WakeTime(n) < xNextTaskUnblockTime THEN WakeTime(n)
                                     ELSE xNextTaskUnblockTime
          /\ UNCHANGED <<pxOverflowDelayedTaskList, xSuspendedTaskList>>
      BY <1>3 DEF prvAddCurrentTaskToDelayedList
    <2>2. WakeTime(n) \in 0..Wrap - 1 /\ WakeTime(n) = xTickCount + n
      BY <1>0, <1>3, WakeTimes
    <2>3. Left(k) = n
      BY <1>3
    <2>4. /\ xNextTaskUnblockTime' \in 0..Wrap - 1 /\ xNextTaskUnblockTime' <= xNextTaskUnblockTime
          /\ xNextTaskUnblockTime' <= WakeTime(n)
      BY <2>1, <2>2, <1>a
    <2>5. ASSUME NEW t \in pxDelayedTaskList'
          PROVE  /\ xTimeToWake'[t] > xTickCount' /\ xTimeToWake'[t] - xTickCount' = Left(t)'
                 /\ xNextTaskUnblockTime' <= xTimeToWake'[t]
      <3>1. CASE t = k
        BY <3>1, <2>1, <2>2, <2>3, <2>4, <1>a, <1>b, <1>c
      <3>2. CASE t # k
        <4>1. t \in pxDelayedTaskList /\ t \in Task /\ xTimeToWake'[t] = xTimeToWake[t]
          BY <3>2, <2>1, <1>a
        <4>2. /\ xTimeToWake[t] > xTickCount /\ xTimeToWake[t] - xTickCount = Left(t)
              /\ xNextTaskUnblockTime <= xTimeToWake[t] /\ xTimeToWake[t] \in 0..Wrap - 1
          BY <4>1, <1>0, <1>a DEF WakePart
        <4> QED BY <4>1, <4>2, <2>4, <1>a, <1>b, <1>c
      <3> QED BY <3>1, <3>2
    <2>6. \A t \in pxOverflowDelayedTaskList' :
             xTimeToWake'[t] < xTickCount' /\ xTimeToWake'[t] + Wrap - xTickCount' = Left(t)'
      BY <2>1, <1>0, <1>a, <1>b, <1>c, <1>d DEF WakePart
    <2> QED BY <2>1, <2>2, <2>4, <2>5, <2>6, <1>a DEF WakePart
  <1> QED BY <1>1, <1>2, <1>3

-----------------------------------------------------------------------------
(* One lemma for each action.                                              *)

\* A delayed task enters a delayed list.
LEMMA DelayAddStep ==
  ASSUME IInv, NEW k \in Task, DelayAdd(k) PROVE IInv'
  <1>0. TypeOK /\ SuspendPart /\ ListPart /\ WakePart /\ DelayPart /\ WaitPart /\ EventReaches
    BY DEF IInv
  <1>t. /\ Wrap \in Nat /\ Wrap > 1 /\ xTickCount \in 0..Wrap - 1
        /\ xTicksToWait \in [Task -> 0..Wrap - 1] /\ pc \in [Task -> PC]
    BY <1>0, TickAssumption DEF TypeOK
  <1>a. /\ pc[k] = "add" /\ suspended = k /\ Ready(k)
        /\ prvAddCurrentTaskToDelayedList(k, xTicksToWait[k], FALSE)
        /\ UNCHANGED <<clock, pend, due>>
    BY <1>0 DEF DelayAdd, Holds, ListPart, Runs
  <1>b. xTicksToWait[k] \in 1..Wrap - 1
    BY <1>0, <1>a, <1>t DEF DelayPart, WaitPart
  <1>c. Left(k) = xTicksToWait[k]
    BY <1>0, <1>a DEF DelayPart
  <1>d. /\ xNextTaskUnblockTime' \in 0..Wrap - 1 /\ xTimeToWake' \in [Task -> 0..Wrap - 1]
        /\ pxDelayedTaskList' \subseteq Task /\ pxOverflowDelayedTaskList' \subseteq Task
        /\ xSuspendedTaskList' \subseteq Task /\ WakePart'
    BY <1>a, <1>b, <1>c, AddKeeps
  <1>1. TypeOK'
    BY <1>0, <1>d DEF TypeOK, PC, Delay, DelayAdd, Goto, clock, pend
  <1>2. SuspendPart'
    BY <1>0, TickAssumption DEF SuspendPart, Suspends, DelayAdd, Holds, Goto, pend
  <1>3. ListPart'
    BY <1>0, TickAssumption DEF ListPart, Runs, Ready, Listed, DelayAdd,
       prvAddCurrentTaskToDelayedList, Limited, Holds, Goto, TypeOK
  <1>4. WakePart'
    BY <1>d
  <1>5. DelayPart'
    BY <1>0, TickAssumption DEF DelayPart, Left, Uncounted, Ready, Listed, DelayAdd,
       prvAddCurrentTaskToDelayedList, Limited, Goto, pend
  <1>6. WaitPart'
    BY <1>0, TickAssumption DEF WaitPart, Measured, Counted, Left, Uncounted, Waits, DelayAdd,
       Goto, clock, pend
  <1>7. EventReaches'
    BY <1>0, TickAssumption DEF EventReaches, Ready, Listed, DelayAdd,
       prvAddCurrentTaskToDelayedList, Limited, Holds, Goto
  <1> QED BY <1>1, <1>2, <1>3, <1>4, <1>5, <1>6, <1>7 DEF IInv

\* A waiting task suspends the scheduler.
LEMMA vTaskSuspendAllStep ==
  ASSUME IInv, NEW k \in Task, vTaskSuspendAll(k) PROVE IInv'
  <1>0. TypeOK /\ SuspendPart /\ ListPart /\ WakePart /\ DelayPart /\ WaitPart /\ EventReaches
    BY DEF IInv
  <1>1. TypeOK'
    BY <1>0, TickAssumption DEF TypeOK, PC, Waits, vTaskSuspendAll, Goto, clock, lists, items
  <1>2. SuspendPart'
    BY <1>0, TickAssumption DEF SuspendPart, Suspends, vTaskSuspendAll, At, Goto, Masked, TypeOK
  <1>3. ListPart'
    BY <1>0, TickAssumption DEF ListPart, Ready, Listed, vTaskSuspendAll, At, Goto, lists, items
  <1>4. WakePart'
    BY <1>0, TickAssumption DEF WakePart, Left, Uncounted, vTaskSuspendAll, At, clock, lists,
       items, Masked, TypeOK, SuspendPart
  <1>5. DelayPart'
    BY <1>0, TickAssumption DEF DelayPart, Left, Uncounted, Ready, Listed, vTaskSuspendAll, At,
       Goto, lists, Masked, TypeOK, SuspendPart
  <1>6. WaitPart'
    BY <1>0, TickAssumption DEF WaitPart, Measured, Counted, Left, Uncounted, vTaskSuspendAll,
       At, Goto, clock, Masked, TypeOK, SuspendPart
  <1>7. EventReaches'
    BY <1>0, TickAssumption DEF EventReaches, Ready, Listed, vTaskSuspendAll, Goto, lists, items
  <1> QED BY <1>1, <1>2, <1>3, <1>4, <1>5, <1>6, <1>7 DEF IInv

\* A waiting task finds out what is left of its block time: exactly the ticks that are left to it.
LEMMA xTaskCheckForTimeOutStep ==
  ASSUME IInv, NEW k \in Task, xTaskCheckForTimeOut(k) PROVE IInv'
  <1>0. TypeOK /\ SuspendPart /\ ListPart /\ WakePart /\ DelayPart /\ WaitPart /\ EventReaches
    BY DEF IInv
  <1>t. /\ Wrap \in Nat /\ Wrap > 1 /\ xTickCount \in 0..Wrap - 1 /\ MaxLag \in Nat
        /\ xTicksToWait \in [Task -> 0..Wrap - 1] /\ pc \in [Task -> PC]
        /\ xTimeOut[k].xTimeOnEntering \in 0..Wrap - 1 /\ xNumOfOverflows \in 0..OverflowWrap - 1
        /\ due \in [Task -> Int] /\ Uncounted \in Int
    BY <1>0, TickAssumption DEF TypeOK, Uncounted
  <1>a. /\ pc[k] = "test" /\ suspended = k /\ xTicksToWait[k] > 0
        /\ UNCHANGED <<clock, xNextTaskUnblockTime, lists, xPendingReadyList, items, pend, due>>
    BY <1>0 DEF xTaskCheckForTimeOut, Holds, WaitPart
  <1>b. \A t \in Task : Left(t) \in Int /\ Left(t)' = Left(t)
    BY <1>a, <1>t DEF Left, Uncounted, pend
  <1>c. ASSUME xTicksToWait[k] # portMAX_DELAY
        PROVE  /\ Counted(k) \in Int /\ Counted(k) = xTicksToWait[k] - Left(k)
               /\ xTicksToWait[k] + MaxLag <= Wrap
               /\ Elapsed(k) \in 0..Wrap - 1
               /\ Elapsed(k) <= Counted(k) /\ (WrappedPast(k) => Counted(k) >= Wrap)
               /\ (~WrappedPast(k) => Elapsed(k) = Counted(k))
    <2>1. Measured(k) /\ Counted(k) \in Int /\ Counted(k) = xTicksToWait[k] - Left(k)
      BY <1>0, <1>a, <1>b, <1>c, <1>t DEF WaitPart, Counted
    <2>2. Left(k) >= -MaxLag
      <3>1. Uncounted >= 0 /\ due[k] >= -MaxLag
        BY <1>0, TickAssumption DEF TypeOK, Uncounted, DelayPart
      <3> QED BY <3>1, <1>t DEF Left
    <2>3. Counted(k) <= Wrap /\ Counted(k) >= 0 /\ xTicksToWait[k] + MaxLag <= Wrap
      BY <2>1, <2>2, <1>b, <1>t DEF Measured
    <2> DEFINE d == xTickCount - xTimeOut[k].xTimeOnEntering
    <2>4. d \in Int /\ Elapsed(k) = d % Wrap
      BY <1>t DEF Elapsed
    <2>5. CASE xNumOfOverflows = xTimeOut[k].xOverflowCount
      <3>1. d = Counted(k) /\ 0 <= d /\ d < Wrap
        BY <2>1, <2>3, <2>5, <1>t DEF Measured
      <3>2. Elapsed(k) = d
        BY <3>1, <2>4, <1>t, ModSmall
      <3>3. ~WrappedPast(k)
        BY <2>5 DEF WrappedPast
      <3> QED BY <3>1, <3>2, <3>3, <2>1, <2>3, <1>t
    <2>6. CASE xNumOfOverflows # xTimeOut[k].xOverflowCount
      <3>1. d = Counted(k) - Wrap /\ -Wrap <= d /\ d <= 0
        BY <2>1, <2>3, <2>6, <1>t DEF Measured
      <3>2. WrappedPast(k) <=> d >= 0
        BY <2>6, <1>t DEF WrappedPast
      <3>3. CASE d < 0
        <4>1. Elapsed(k) = d + Wrap
          BY <3>1, <3>3, <2>4, <1>t, ModUnder
        <4>2. ~WrappedPast(k)
          BY <3>2, <3>3, <2>4
        <4>3. Elapsed(k) = Counted(k) /\ Counted(k) < Wrap
          BY <4>1, <3>1, <3>3, <2>1, <2>4, <1>t
        <4> QED BY <4>2, <4>3, <2>1, <2>3, <1>t
      <3>4. CASE d = 0
        <4>1. Elapsed(k) = 0
          BY <3>4, <2>4, <1>t, ModSmall
        <4>2. Counted(k) = Wrap
          BY <3>1, <3>4, <2>1, <1>t
        <4>3. WrappedPast(k)
          BY <3>2, <3>4
        <4> QED BY <4>1, <4>2, <4>3, <2>1, <2>3, <1>t
      <3> QED BY <3>1, <3>3, <3>4, <2>4
    <2> QED BY <2>5, <2>6
  <1>d. \/ /\ xTicksToWait[k] = portMAX_DELAY /\ pc' = [pc EXCEPT ![k] = "place"]
           /\ UNCHANGED <<xTicksToWait, xTimeOut>>
        \/ /\ xTicksToWait[k] # portMAX_DELAY /\ Left(k) <= 0
           /\ pc' = [pc EXCEPT ![k] = "resume_expired"]
           /\ xTicksToWait' = [xTicksToWait EXCEPT ![k] = 0] /\ xTimeOut' = xTimeOut
        \/ /\ xTicksToWait[k] # portMAX_DELAY /\ Left(k) > 0 /\ Left(k) <= xTicksToWait[k]
           /\ xTicksToWait[k] + MaxLag <= Wrap
           /\ pc' = [pc EXCEPT ![k] = "place"]
           /\ xTicksToWait' = [xTicksToWait EXCEPT ![k] = Left(k)]
           /\ xTimeOut' = [xTimeOut EXCEPT ![k] = Now]
    <2>1. CASE xTicksToWait[k] = portMAX_DELAY
      BY <2>1 DEF xTaskCheckForTimeOut, Goto
    <2>2. CASE xTicksToWait[k] # portMAX_DELAY /\ (WrappedPast(k) \/ Elapsed(k) >= xTicksToWait[k])
      <3>1. Left(k) <= 0
        BY <2>2, <1>b, <1>c, <1>t
      <3>2. ~(~WrappedPast(k) /\ Elapsed(k) < xTicksToWait[k])
        BY <2>2, <1>c, <1>t
      <3> QED BY <2>2, <3>1, <3>2 DEF xTaskCheckForTimeOut, Goto
    <2>3. CASE /\ xTicksToWait[k] # portMAX_DELAY /\ ~WrappedPast(k)
               /\ ~(Elapsed(k) >= xTicksToWait[k])
      <3>1. /\ Left(k) > 0 /\ Left(k) <= xTicksToWait[k] /\ xTicksToWait[k] - Elapsed(k) = Left(k)
            /\ xTicksToWait[k] + MaxLag <= Wrap
        BY <2>3, <1>b, <1>c, <1>t
      <3>2. /\ pc' = [pc EXCEPT ![k] = "place"]
            /\ xTicksToWait' = [xTicksToWait EXCEPT ![k] = xTicksToWait[k] - Elapsed(k)]
            /\ xTimeOut' = [xTimeOut EXCEPT ![k] = Now]
        BY <2>3 DEF xTaskCheckForTimeOut, Goto
      <3> QED BY <2>3, <3>1, <3>2
    <2> QED BY <2>1, <2>2, <2>3
  <1>1. TypeOK'
    <2>1. xTicksToWait' \in [Task -> 0..Wrap - 1]
      BY <1>b, <1>d, <1>t
    <2>2. Now \in [xOverflowCount : 0..OverflowWrap - 1, xTimeOnEntering : 0..Wrap - 1]
      BY <1>t DEF Now
    <2>3. pc' \in [Task -> PC]
      BY <1>d, <1>t DEF PC, Waits
    <2>4. xTimeOut' \in [Task -> [xOverflowCount : 0..OverflowWrap - 1, xTimeOnEntering : 0..Wrap - 1]]
      BY <1>0, <1>d, <2>2 DEF TypeOK
    <2> QED BY <1>0, <1>a, <2>1, <2>3, <2>4 DEF TypeOK, clock, lists, items, pend
  <1>2. SuspendPart'
    BY <1>0, TickAssumption DEF SuspendPart, Suspends, xTaskCheckForTimeOut, Holds, Goto, pend,
       TypeOK
  <1>3. ListPart'
    BY <1>0, TickAssumption DEF ListPart, Ready, Listed, xTaskCheckForTimeOut, Holds, Goto,
       lists, items, TypeOK
  <1>4. WakePart'
    BY <1>0, TickAssumption DEF WakePart, Left, Uncounted, xTaskCheckForTimeOut, clock, lists,
       items, pend
  <1>5. DelayPart'
    BY <1>0, TickAssumption DEF DelayPart, Left, Uncounted, Ready, Listed, xTaskCheckForTimeOut,
       Goto, lists, pend, TypeOK
  <1>6. WaitPart'
    <2>1. /\ \A t \in Task : t # k => /\ pc'[t] = pc[t] /\ xTicksToWait'[t] = xTicksToWait[t]
                                      /\ xTimeOut'[t] = xTimeOut[t]
          /\ pc'[k] \in {"place", "resume_expired"}
      BY <1>0, <1>d DEF TypeOK
    <2>2. \A t \in Task : t # k => Measured(t)' = Measured(t) /\ Counted(t)' = Counted(t)
      BY <2>1, <1>a, <1>b DEF Measured, Counted, clock
    <2>3. pc'[k] = "place" /\ xTicksToWait'[k] # portMAX_DELAY => Measured(k)' /\ Counted(k)' = 0
      <3> SUFFICES ASSUME pc'[k] = "place", xTicksToWait'[k] # portMAX_DELAY
                   PROVE  Measured(k)' /\ Counted(k)' = 0
        OBVIOUS
      <3>1. /\ xTicksToWait'[k] = Left(k) /\ Left(k) <= xTicksToWait[k]
            /\ xTicksToWait[k] + MaxLag <= Wrap /\ xTimeOut'[k] = Now
        BY <1>0, <1>d, <1>t DEF TypeOK
      <3>2. Counted(k)' = 0
        BY <3>1, <1>b DEF Counted
      <3>3. /\ xTimeOut'[k].xOverflowCount = xNumOfOverflows'
            /\ xTimeOut'[k].xTimeOnEntering = xTickCount'
        BY <3>1, <1>a DEF Now, clock
      <3>4. xTicksToWait'[k] + MaxLag <= Wrap
        BY <3>1, <1>b, <1>t
      <3> QED BY <3>2, <3>3, <3>4, <1>a, <1>t DEF Measured, clock
    <2>4. /\ pc'[k] = "place" => xTicksToWait'[k] > 0
          /\ pc'[k] = "resume_expired" => xTicksToWait'[k] = 0 /\ Left(k)' <= 0
          /\ pc'[k] = "place" => xTicksToWait'[k] # 0
      BY <1>a, <1>b, <1>d, <1>t
    <2>5. \A t \in Task : pc'[t] \in {"check", "test", "place", "resume_place", "retry"}
             /\ xTicksToWait'[t] \notin {0, portMAX_DELAY} => Measured(t)'
      BY <1>0, <2>1, <2>2, <2>3 DEF WaitPart
    <2>6. \A t \in Task : pc'[t] \in {"check", "test", "place", "resume_place"} => xTicksToWait'[t] > 0
      BY <1>0, <2>1, <2>4 DEF WaitPart
    <2>7. \A t \in Task : pc'[t] = "place" /\ xTicksToWait'[t] # portMAX_DELAY => Counted(t)' = 0
      BY <1>0, <2>1, <2>2, <2>3 DEF WaitPart
    <2>8. \A t \in Task : pc'[t] \in {"resume_expired", "expired"} => xTicksToWait'[t] = 0
      BY <1>0, <2>1, <2>4 DEF WaitPart
    <2>9. \A t \in Task : pc'[t] \in Waits /\ xTicksToWait'[t] = 0 => Left(t)' <= 0
      BY <1>0, <1>b, <2>1, <2>4 DEF WaitPart
    <2> QED BY <2>5, <2>6, <2>7, <2>8, <2>9 DEF WaitPart, portMAX_DELAY
  <1>7. EventReaches'
    BY <1>0, TickAssumption DEF EventReaches, Ready, Listed, xTaskCheckForTimeOut, Goto, lists,
       items, TypeOK
  <1> QED BY <1>1, <1>2, <1>3, <1>4, <1>5, <1>6, <1>7 DEF IInv

\* A waiting task enters an event list.
LEMMA vTaskPlaceOnEventListStep ==
  ASSUME IInv, NEW k \in Task, vTaskPlaceOnEventList(k) PROVE IInv'
  <1>0. TypeOK /\ SuspendPart /\ ListPart /\ WakePart /\ DelayPart /\ WaitPart /\ EventReaches
    BY DEF IInv
  <1>t. /\ Wrap \in Nat /\ Wrap > 1 /\ xTickCount \in 0..Wrap - 1
        /\ xTicksToWait \in [Task -> 0..Wrap - 1] /\ pc \in [Task -> PC]
    BY <1>0, TickAssumption DEF TypeOK
  <1>a. /\ pc[k] = "place" /\ suspended = k /\ Ready(k)
        /\ prvAddCurrentTaskToDelayedList(k, xTicksToWait[k], TRUE)
        /\ UNCHANGED <<clock, pend, due>>
    BY <1>0 DEF vTaskPlaceOnEventList, Holds, ListPart, Runs
  <1>b. xTicksToWait[k] \in 1..Wrap - 1
    BY <1>0, <1>a, <1>t DEF DelayPart, WaitPart
  <1>c. Limited(xTicksToWait[k], TRUE) => Left(k) = xTicksToWait[k]
    <2>1. Limited(xTicksToWait[k], TRUE) => Counted(k) = 0
      BY <1>0, <1>a DEF WaitPart, Limited
    <2>2. Left(k) \in Int
      BY <1>0, TickAssumption DEF TypeOK, Left, Uncounted
    <2> QED BY <2>1, <2>2, <1>t DEF Counted
  <1>d. /\ xNextTaskUnblockTime' \in 0..Wrap - 1 /\ xTimeToWake' \in [Task -> 0..Wrap - 1]
        /\ pxDelayedTaskList' \subseteq Task /\ pxOverflowDelayedTaskList' \subseteq Task
        /\ xSuspendedTaskList' \subseteq Task /\ WakePart'
    BY <1>a, <1>b, <1>c, AddKeeps
  <1>1. TypeOK'
    BY <1>0, <1>d DEF TypeOK, PC, Waits, vTaskPlaceOnEventList, Goto, clock, pend
  <1>2. SuspendPart'
    BY <1>0, TickAssumption DEF SuspendPart, Suspends, vTaskPlaceOnEventList, Holds, Goto, pend
  <1>3. ListPart'
    <2>1. /\ pc' = [pc EXCEPT ![k] = "resume_place"] /\ xTicksToWait' = xTicksToWait
          /\ xPendingReadyList' = xPendingReadyList /\ eventList' = eventList \cup {k}
      BY DEF vTaskPlaceOnEventList, Goto
    <2>2. /\ k \notin pxDelayedTaskList /\ k \notin pxOverflowDelayedTaskList
          /\ pxDelayedTaskList \cap pxOverflowDelayedTaskList = {}
      BY <1>0, <1>a DEF ListPart, Ready, Listed
    <2>3. /\ pxDelayedTaskList' \cap pxOverflowDelayedTaskList' = {}
          /\ \A t \in Task : t # k => Ready(t)' = Ready(t)
          /\ pxDelayedTaskList' \cup pxOverflowDelayedTaskList' \subseteq
                 pxDelayedTaskList \cup pxOverflowDelayedTaskList \cup {k}
          /\ xSuspendedTaskList' \subseteq xSuspendedTaskList \cup {k}
      BY <1>a, <2>2 DEF prvAddCurrentTaskToDelayedList, Ready, Listed
    <2>4. /\ k \in xSuspendedTaskList' => xTicksToWait[k] = portMAX_DELAY
          /\ k \in pxDelayedTaskList' \cup pxOverflowDelayedTaskList' => xTicksToWait[k] # portMAX_DELAY
      BY <1>a, <2>2 DEF prvAddCurrentTaskToDelayedList, Limited, Ready, Listed
    <2>5. \A t \in Task : pc'[t] \in Runs => Ready(t)'
      <3>1. \A t \in Task : pc'[t] \in Runs => t # k /\ pc[t] \in Runs
        BY <2>1, <1>t DEF Runs
      <3> QED BY <3>1, <2>3, <1>0 DEF ListPart
    <2>6. \A t \in xSuspendedTaskList' :
             pc'[t] \in {"resume_place", "retry"} /\ xTicksToWait'[t] = portMAX_DELAY
      BY <1>0, <1>t, <1>d, <2>1, <2>3, <2>4 DEF ListPart
    <2>7. \A t \in pxDelayedTaskList' \cup pxOverflowDelayedTaskList' :
             \/ pc'[t] \in {"resume", "woken"}
             \/ pc'[t] \in {"resume_place", "retry"} /\ xTicksToWait'[t] \notin {0, portMAX_DELAY}
      BY <1>0, <1>b, <1>t, <1>d, <2>1, <2>3, <2>4 DEF ListPart
    <2>8. \A t \in eventList' \cup xPendingReadyList' : pc'[t] \in {"resume_place", "retry"}
      BY <1>0, <1>t, <2>1 DEF ListPart, TypeOK
    <2> QED BY <2>3, <2>5, <2>6, <2>7, <2>8 DEF ListPart, portMAX_DELAY
  <1>4. WakePart'
    BY <1>d
  <1>5. DelayPart'
    BY <1>0, TickAssumption DEF DelayPart, Left, Uncounted, Ready, Listed, vTaskPlaceOnEventList,
       prvAddCurrentTaskToDelayedList, Limited, Goto, pend
  <1>6. WaitPart'
    BY <1>0, TickAssumption DEF WaitPart, Measured, Counted, Left, Uncounted,
       vTaskPlaceOnEventList, Holds, Goto, clock, pend
  <1>7. EventReaches'
    BY <1>0, TickAssumption DEF EventReaches, Ready, Listed, vTaskPlaceOnEventList,
       prvAddCurrentTaskToDelayedList, Limited, Holds, Goto, ListPart
  <1> QED BY <1>1, <1>2, <1>3, <1>4, <1>5, <1>6, <1>7 DEF IInv

\* A waiting task does not block in this round.
LEMMA PlaceSkippedStep ==
  ASSUME IInv, NEW k \in Task, PlaceSkipped(k) PROVE IInv'
  <1>0. TypeOK /\ SuspendPart /\ ListPart /\ WakePart /\ DelayPart /\ WaitPart /\ EventReaches
    BY DEF IInv
  <1>1. TypeOK'
    BY <1>0, TickAssumption DEF TypeOK, PC, Waits, PlaceSkipped, Goto, clock, lists, items, pend
  <1>2. SuspendPart'
    BY <1>0, TickAssumption DEF SuspendPart, Suspends, PlaceSkipped, Holds, Goto, pend
  <1>3. ListPart'
    BY <1>0, TickAssumption DEF ListPart, Ready, Listed, PlaceSkipped, Holds, Goto, lists, items
  <1>4. WakePart'
    BY <1>0, TickAssumption DEF WakePart, Left, Uncounted, PlaceSkipped, clock, lists, items, pend
  <1>5. DelayPart'
    BY <1>0, TickAssumption DEF DelayPart, Left, Uncounted, Ready, Listed, PlaceSkipped, Goto,
       lists, pend
  <1>6. WaitPart'
    BY <1>0, TickAssumption DEF WaitPart, Measured, Counted, Left, Uncounted, PlaceSkipped,
       Holds, Goto, clock, pend
  <1>7. EventReaches'
    BY <1>0, TickAssumption DEF EventReaches, Ready, Listed, PlaceSkipped, Holds, Goto, lists,
       items, ListPart
  <1> QED BY <1>1, <1>2, <1>3, <1>4, <1>5, <1>6, <1>7 DEF IInv

\* A waiting task goes round again.
LEMMA RetryStep ==
  ASSUME IInv, NEW k \in Task, Retry(k) PROVE IInv'
  <1>0. TypeOK /\ SuspendPart /\ ListPart /\ WakePart /\ DelayPart /\ WaitPart /\ EventReaches
    BY DEF IInv
  <1>a. /\ Ready(k) /\ pc' \in {[pc EXCEPT ![k] = "check"], [pc EXCEPT ![k] = "retry"]}
        /\ pc[k] \in {"retry", "expired"}
        /\ UNCHANGED <<clock, xNextTaskUnblockTime, lists, xPendingReadyList, items, pend,
                       xTicksToWait, xTimeOut, due>>
    BY DEF Retry, At, Goto
  <1>b. k \notin pxDelayedTaskList \cup pxOverflowDelayedTaskList \cup xSuspendedTaskList
    BY <1>a DEF Ready, Listed
  <1>c. k \notin eventList \cup xPendingReadyList
    BY <1>0, <1>a DEF EventReaches
  <1>1. TypeOK'
    BY <1>0, TickAssumption DEF TypeOK, PC, Waits, Retry, Goto, clock, lists, items, pend
  <1>2. SuspendPart'
    BY <1>0, TickAssumption DEF SuspendPart, Suspends, Retry, At, Goto, pend, TypeOK
  <1>3. ListPart'
    <2>1. \A t \in Task : Ready(t)' = Ready(t)
      BY <1>a DEF Ready, Listed, lists
    <2>2. \A t \in Task : t # k => pc'[t] = pc[t]
      BY <1>0, <1>a DEF TypeOK
    <2>3. \A t \in Task : pc'[t] \in Runs => Ready(t)'
      BY <1>0, <1>a, <2>1, <2>2 DEF ListPart
    <2> QED BY <1>0, <1>a, <1>b, <1>c, <2>2, <2>3 DEF ListPart, TypeOK, lists, items, portMAX_DELAY
  <1>4. WakePart'
    BY <1>0, TickAssumption DEF WakePart, Left, Uncounted, Retry, clock, lists, items, pend
  <1>5. DelayPart'
    BY <1>0, TickAssumption DEF DelayPart, Left, Uncounted, Ready, Listed, Retry, Goto, lists,
       pend, TypeOK
  <1>6. WaitPart'
    BY <1>0, TickAssumption DEF WaitPart, Measured, Counted, Left, Uncounted, Waits, Retry, At,
       Goto, clock, pend, TypeOK
  <1>7. EventReaches'
    BY <1>0, TickAssumption DEF EventReaches, Ready, Listed, Retry, At, Goto, lists, items, TypeOK
  <1> QED BY <1>1, <1>2, <1>3, <1>4, <1>5, <1>6, <1>7 DEF IInv

\* A call returns.
LEMMA ReturnStep ==
  ASSUME IInv, NEW k \in Task, Return(k) PROVE IInv'
  <1>0. TypeOK /\ SuspendPart /\ ListPart /\ WakePart /\ DelayPart /\ WaitPart /\ EventReaches
    BY DEF IInv
  <1>a. /\ Ready(k) /\ pc' = [pc EXCEPT ![k] = "run"] /\ xTicksToWait' = [xTicksToWait EXCEPT ![k] = 0]
        /\ xTimeToWake' = [xTimeToWake EXCEPT ![k] = 0] /\ due' = [due EXCEPT ![k] = 0]
        /\ UNCHANGED <<clock, xNextTaskUnblockTime, lists, xPendingReadyList, eventList, pend>>
    BY DEF Return, At, Goto
  <1>b. k \notin pxDelayedTaskList \cup pxOverflowDelayedTaskList \cup xSuspendedTaskList
    BY <1>a DEF Ready, Listed
  <1>c. k \notin eventList \cup xPendingReadyList
    BY <1>0, <1>a DEF EventReaches
  <1>1. TypeOK'
    BY <1>0, TickAssumption DEF TypeOK, PC, Return, Goto, NoTimeOut, clock, lists, pend
  <1>2. SuspendPart'
    BY <1>0, TickAssumption DEF SuspendPart, Suspends, Return, At, Goto, pend
  <1>3. ListPart'
    <2>1. \A t \in Task : Ready(t)' = Ready(t)
      BY <1>a DEF Ready, Listed, lists
    <2>2. \A t \in Task : t # k => pc'[t] = pc[t] /\ xTicksToWait'[t] = xTicksToWait[t]
      BY <1>0, <1>a DEF TypeOK
    <2>3. \A t \in Task : pc'[t] \in Runs => Ready(t)'
      BY <1>0, <1>a, <2>1, <2>2 DEF ListPart
    <2> QED BY <1>0, <1>a, <1>b, <1>c, <2>2, <2>3 DEF ListPart, TypeOK, lists, portMAX_DELAY
  <1>4. WakePart'
    <2>1. \A t \in Task : t # k => xTimeToWake'[t] = xTimeToWake[t] /\ Left(t)' = Left(t)
      BY <1>0, <1>a DEF TypeOK, Left, Uncounted, pend
    <2> QED BY <1>0, <1>a, <1>b, <2>1 DEF WakePart, TypeOK, lists, clock
  <1>5. DelayPart'
    BY <1>0, TickAssumption DEF DelayPart, Left, Uncounted, Ready, Listed, Return, Goto, lists,
       pend, TypeOK
  <1>6. WaitPart'
    BY <1>0, TickAssumption DEF WaitPart, Measured, Counted, Left, Uncounted, Waits, Return,
       Goto, clock, pend, TypeOK
  <1>7. EventReaches'
    BY <1>0, TickAssumption DEF EventReaches, Ready, Listed, Return, Goto, lists
  <1> QED BY <1>1, <1>2, <1>3, <1>4, <1>5, <1>6, <1>7 DEF IInv

\* The scheduler is resumed.
LEMMA xTaskResumeAllStep ==
  ASSUME IInv, NEW k \in Task, xTaskResumeAll(k) PROVE IInv'
  <1>0. TypeOK /\ SuspendPart /\ ListPart /\ WakePart /\ DelayPart /\ WaitPart /\ EventReaches
    BY DEF IInv
  <1>a. /\ pxDelayedTaskList' \subseteq pxDelayedTaskList
        /\ pxOverflowDelayedTaskList' \subseteq pxOverflowDelayedTaskList
        /\ xTimeToWake' = xTimeToWake /\ xTickCount' = xTickCount /\ due' = due
    BY DEF xTaskResumeAll, items, clock
  <1>b. /\ prvResetNextTaskUnblockTime(pxDelayedTaskList') \in 0..Wrap - 1
        /\ \A t \in pxDelayedTaskList' : prvResetNextTaskUnblockTime(pxDelayedTaskList') <= xTimeToWake[t]
    <2>1. pxDelayedTaskList' \subseteq Task
      BY <1>0, <1>a DEF TypeOK
    <2> QED BY <1>0, <2>1, HeadWakesFirst
  <1>c. \/ xNextTaskUnblockTime' = prvResetNextTaskUnblockTime(pxDelayedTaskList')
        \/ xNextTaskUnblockTime' = xNextTaskUnblockTime
    BY DEF xTaskResumeAll
  <1>d. Uncounted' = Uncounted
    BY <1>0, TickAssumption DEF xTaskResumeAll, Uncounted, SuspendPart
  <1>1. TypeOK'
    <2>1. xNextTaskUnblockTime' \in 0..Wrap - 1
      BY <1>0, <1>b, <1>c DEF TypeOK
    <2>2. pc' \in [Task -> PC]
      BY <1>0 DEF TypeOK, xTaskResumeAll, Goto, After, PC, Delay, Waits
    <2>3. xPendedCounts' \in 0..xPendedTicks' /\ xPendedTicks' \in 0..MaxPended
      BY <1>0, TickAssumption DEF TypeOK, xTaskResumeAll
    <2> QED BY <1>0, <1>a, <2>1, <2>2, <2>3 DEF TypeOK, xTaskResumeAll, clock, items
  <1>2. SuspendPart'
    BY <1>0, TickAssumption DEF SuspendPart, Suspends, xTaskResumeAll, After, Goto, TypeOK
  <1>3. ListPart'
    BY <1>0, TickAssumption DEF ListPart, Runs, Ready, Listed, xTaskResumeAll, After, Goto, items
  <1>4. WakePart'
    <2>1. \A t \in Task : Left(t)' = Left(t)
      BY <1>a, <1>d DEF Left
    <2>2. \A t \in pxDelayedTaskList' : xNextTaskUnblockTime' <= xTimeToWake[t]
      BY <1>0, <1>a, <1>b, <1>c DEF WakePart
    <2> QED BY <1>0, <1>a, <2>1, <2>2 DEF WakePart, TypeOK
  <1>5. DelayPart'
    BY <1>0, TickAssumption DEF DelayPart, Left, Uncounted, Ready, Listed, xTaskResumeAll, After,
       Goto, ListPart
  <1>6. WaitPart'
    BY <1>0, TickAssumption DEF WaitPart, Measured, Counted, Left, Uncounted, Waits,
       xTaskResumeAll, After, Goto, clock
  <1>7. EventReaches'
    BY <1>0, TickAssumption DEF EventReaches, Ready, Listed, xTaskResumeAll, After, Goto, items
  <1> QED BY <1>1, <1>2, <1>3, <1>4, <1>5, <1>6, <1>7 DEF IInv

\* An event arrives.
LEMMA xTaskRemoveFromEventListStep ==
  ASSUME IInv, NEW k \in Task, xTaskRemoveFromEventList(k) PROVE IInv'
  <1>0. TypeOK /\ SuspendPart /\ ListPart /\ WakePart /\ DelayPart /\ WaitPart /\ EventReaches
    BY DEF IInv
  <1>1. TypeOK'
    BY <1>0, TickAssumption DEF TypeOK, xTaskRemoveFromEventList, clock, lists, pend
  <1>2. SuspendPart'
    BY <1>0, TickAssumption DEF SuspendPart, xTaskRemoveFromEventList, pend
  <1>3. ListPart'
    BY <1>0, TickAssumption DEF ListPart, Ready, Listed, xTaskRemoveFromEventList, lists
  <1>4. WakePart'
    BY <1>0, TickAssumption DEF WakePart, Left, Uncounted, xTaskRemoveFromEventList, clock,
       lists, pend
  <1>5. DelayPart'
    BY <1>0, TickAssumption DEF DelayPart, Left, Uncounted, Ready, Listed,
       xTaskRemoveFromEventList, lists, pend, ListPart
  <1>6. WaitPart'
    BY <1>0, TickAssumption DEF WaitPart, Measured, Counted, Left, Uncounted,
       xTaskRemoveFromEventList, clock, pend
  <1>7. EventReaches'
    BY <1>0, TickAssumption DEF EventReaches, Ready, Listed, xTaskRemoveFromEventList, lists
  <1> QED BY <1>1, <1>2, <1>3, <1>4, <1>5, <1>6, <1>7 DEF IInv

\* A call of sleep or usleep with a delay of n ticks, all of them left to it.
LEMMA DelayStep ==
  ASSUME IInv, NEW k \in Task, NEW n \in 0..Wrap - 1, vTaskDelay(k, n, n) PROVE IInv'
  <1>0. TypeOK /\ SuspendPart /\ ListPart /\ WakePart /\ DelayPart /\ WaitPart /\ EventReaches
    BY DEF IInv
  <1>t. /\ Wrap \in Nat /\ Wrap > 1 /\ MaxLag \in Nat /\ NULL \notin Task
        /\ pc \in [Task -> PC] /\ due \in [Task -> Int] /\ xTicksToWait \in [Task -> 0..Wrap - 1]
        /\ xPendedTicks \in Nat /\ xPendedCounts \in Nat
    BY <1>0, TickAssumption DEF TypeOK
  <1>a. /\ pc[k] = "run" /\ Ready(k) /\ suspended = NULL /\ xPendedCounts = 0 /\ xPendedTicks = 0
        /\ \/ n > 0 /\ suspended' = k /\ pc' = [pc EXCEPT ![k] = "add"]
           \/ n = 0 /\ suspended' = suspended /\ pc' = [pc EXCEPT ![k] = "woken"]
        /\ xTicksToWait' = [xTicksToWait EXCEPT ![k] = n] /\ due' = [due EXCEPT ![k] = n]
        /\ UNCHANGED <<clock, xNextTaskUnblockTime, lists, xPendingReadyList, items,
                       xPendedTicks, xPendedCounts, xTimeOut>>
    BY <1>0, <1>t DEF vTaskDelay, At, Goto, Masked, SuspendPart
  <1>b. /\ Uncounted = 0 /\ Uncounted' = 0
        /\ \A t \in Task : t # k => /\ pc'[t] = pc[t] /\ Left(t)' = Left(t)
                                    /\ xTicksToWait'[t] = xTicksToWait[t]
        /\ Left(k)' = n /\ xTicksToWait'[k] = n /\ pc'[k] \in {"add", "woken"}
        /\ \A t \in Task : Ready(t)' = Ready(t)
    BY <1>a, <1>t DEF Uncounted, Left, Ready, Listed, lists
  <1>c. /\ k \notin pxDelayedTaskList \cup pxOverflowDelayedTaskList \cup xSuspendedTaskList
        /\ k \notin eventList \cup xPendingReadyList
    BY <1>0, <1>a DEF EventReaches, Ready, Listed
  <1>1. TypeOK'
    BY <1>0, <1>a, <1>t DEF TypeOK, PC, Delay, clock, lists, items
  <1>2. SuspendPart'
    BY <1>0, <1>a, <1>t DEF SuspendPart, Suspends
  <1>3. ListPart'
    <2>1. \A t \in Task : pc'[t] \in Runs => Ready(t)'
      BY <1>0, <1>a, <1>b DEF ListPart
    <2> QED BY <1>0, <1>a, <1>b, <1>c, <2>1 DEF ListPart, TypeOK, lists, items, portMAX_DELAY
  <1>4. WakePart'
    BY <1>0, <1>a, <1>b, <1>c DEF WakePart, TypeOK, lists, items, clock
  <1>5. DelayPart'
    BY <1>0, <1>a, <1>b, <1>t DEF DelayPart
  <1>6. WaitPart'
    <2>1. \A t \in Task : t # k => Measured(t)' = Measured(t) /\ Counted(t)' = Counted(t)
      BY <1>a, <1>b DEF Measured, Counted, clock
    <2> QED BY <1>0, <1>b, <2>1 DEF WaitPart, Waits, portMAX_DELAY
  <1>7. EventReaches'
    BY <1>0, <1>a, <1>b DEF EventReaches, TypeOK, items
  <1> QED BY <1>1, <1>2, <1>3, <1>4, <1>5, <1>6, <1>7 DEF IInv

\* sleep, for arguments that do not overflow.
LEMMA SleepStep ==
  ASSUME SecondsFit, IInv, NEW k \in Task, NEW s \in Seconds, sleep(k, s) PROVE IInv'
  <1>1. /\ s \in Nat /\ Thousand \in Nat /\ Thousand > 0 /\ configTICK_RATE_HZ = Thousand
        /\ Wrap \in Nat /\ Wrap > 0 /\ s * Thousand < Wrap
    BY TickAssumption DEF SecondsFit
  <1> DEFINE n == s * Thousand
  <1>2. n \in Nat /\ n < Wrap
    BY <1>1
  <1>3. n % Wrap = n
    <2> HIDE DEF n
    <2> QED BY <1>1, <1>2, ModSmall
  <1>4. pdMS_TO_TICKS(n) = n
    <2>1. (n * Thousand) \div Thousand = n
      <3> HIDE DEF n
      <3> QED BY <1>1, <1>2, DivMul
    <2> HIDE DEF n
    <2> QED BY <1>1, <1>3, <2>1 DEF pdMS_TO_TICKS
  <1>5. vTaskDelay(k, n, n)
    <2>1. vTaskDelay(k, pdMS_TO_TICKS(n % Wrap), s * configTICK_RATE_HZ)
      BY DEF sleep
    <2>2. s * configTICK_RATE_HZ = n
      BY <1>1
    <2> HIDE DEF n
    <2> QED BY <1>3, <1>4, <2>1, <2>2
  <1>6. n \in 0..Wrap - 1
    <2> HIDE DEF n
    <2> QED BY <1>1, <1>2
  <1> HIDE DEF n
  <1> QED BY <1>5, <1>6, DelayStep

\* usleep, for every argument.
LEMMA UsleepStep ==
  ASSUME IInv, NEW k \in Task, NEW u \in Microseconds, usleep(k, u) PROVE IInv'
  <1>1. /\ u \in Nat /\ Thousand \in Nat /\ Thousand > 0 /\ configTICK_RATE_HZ = Thousand
        /\ Wrap \in Nat /\ Wrap > 1
    BY TickAssumption
  <1> DEFINE ms == u \div Thousand
             n == pdMS_TO_TICKS(ms)
             ticks == IF n = 0 /\ u > 0 THEN 1 ELSE n
  <1>2. ms \in Int
    BY <1>1
  <1>3. n \in 0..Wrap - 1
    <2>1. (ms * Thousand) \div Thousand \in Int
      <3> HIDE DEF ms
      <3>1. ms * Thousand \in Int
        BY <1>1, <1>2
      <3> QED BY <1>1, <3>1
    <2> HIDE DEF ms
    <2> QED BY <1>1, <2>1, ModRange DEF pdMS_TO_TICKS
  <1>4. vTaskDelay(k, ticks, ticks)
    BY DEF usleep
  <1>5. ticks \in 0..Wrap - 1
    <2> HIDE DEF n
    <2> QED BY <1>1, <1>3
  <1> HIDE DEF ticks
  <1> QED BY <1>4, <1>5, DelayStep

\* A wait begins.
LEMMA WaitStep ==
  ASSUME IInv, NEW k \in Task, NEW n \in BlockTimes, Wait(k, n) PROVE IInv'
  <1>0. TypeOK /\ SuspendPart /\ ListPart /\ WakePart /\ DelayPart /\ WaitPart /\ EventReaches
    BY DEF IInv
  <1>t. /\ Wrap \in Nat /\ Wrap > 1 /\ MaxLag \in Nat /\ NULL \notin Task /\ n \in 1..Wrap - 1
        /\ pc \in [Task -> PC] /\ due \in [Task -> Int] /\ xTicksToWait \in [Task -> 0..Wrap - 1]
        /\ xTimeOut \in [Task -> [xOverflowCount : 0..OverflowWrap - 1, xTimeOnEntering : 0..Wrap - 1]]
        /\ xTickCount \in 0..Wrap - 1 /\ xNumOfOverflows \in 0..OverflowWrap - 1
        /\ xPendedTicks \in Nat /\ xPendedCounts \in Nat
    BY <1>0, TickAssumption DEF TypeOK, portMAX_DELAY
  <1>a. /\ pc[k] = "run" /\ Ready(k) /\ suspended = NULL /\ xPendedCounts = 0 /\ xPendedTicks = 0
        /\ pc' = [pc EXCEPT ![k] = "check"]
        /\ xTicksToWait' = [xTicksToWait EXCEPT ![k] = n] /\ xTimeOut' = [xTimeOut EXCEPT ![k] = Now]
        /\ due' = [due EXCEPT ![k] = IF n = portMAX_DELAY THEN 0 ELSE n]
        /\ UNCHANGED <<clock, xNextTaskUnblockTime, lists, xPendingReadyList, items, pend>>
    BY <1>0, <1>t DEF Wait, At, Goto, Masked, SuspendPart
  <1>b. /\ Uncounted = 0 /\ Uncounted' = 0
        /\ \A t \in Task : t # k => /\ pc'[t] = pc[t] /\ Left(t)' = Left(t)
                                    /\ xTicksToWait'[t] = xTicksToWait[t] /\ xTimeOut'[t] = xTimeOut[t]
        /\ pc'[k] = "check" /\ xTicksToWait'[k] = n /\ xTimeOut'[k] = Now
        /\ n # portMAX_DELAY => Left(k)' = n
        /\ \A t \in Task : Ready(t)' = Ready(t)
    BY <1>a, <1>t DEF Uncounted, Left, Ready, Listed, lists, pend
  <1>c. /\ k \notin pxDelayedTaskList \cup pxOverflowDelayedTaskList \cup xSuspendedTaskList
        /\ k \notin eventList \cup xPendingReadyList
    BY <1>0, <1>a DEF EventReaches, Ready, Listed
  <1>1. TypeOK'
    <2>1. /\ due' \in [Task -> Int] /\ pc' \in [Task -> PC]
          /\ xTicksToWait' \in [Task -> 0..Wrap - 1]
      BY <1>a, <1>t DEF PC, Waits
    <2>2. Now \in [xOverflowCount : 0..OverflowWrap - 1, xTimeOnEntering : 0..Wrap - 1]
      BY <1>t DEF Now
    <2>3. xTimeOut' \in [Task -> [xOverflowCount : 0..OverflowWrap - 1, xTimeOnEntering : 0..Wrap - 1]]
      BY <1>a, <1>t, <2>2
    <2> QED BY <1>0, <1>a, <2>1, <2>3 DEF TypeOK, clock, lists, items, pend
  <1>2. SuspendPart'
    BY <1>0, <1>a, <1>b, <1>t DEF SuspendPart, Suspends, pend
  <1>3. ListPart'
    <2>1. \A t \in Task : pc'[t] \in Runs => Ready(t)'
      BY <1>0, <1>a, <1>b DEF ListPart
    <2> QED BY <1>0, <1>a, <1>b, <1>c, <2>1 DEF ListPart, TypeOK, lists, items, portMAX_DELAY
  <1>4. WakePart'
    BY <1>0, <1>a, <1>b, <1>c DEF WakePart, TypeOK, lists, items, clock
  <1>5. DelayPart'
    <2>1. \A t \in Task : due'[t] >= -MaxLag
      BY <1>0, <1>a, <1>t DEF DelayPart
    <2> QED BY <1>0, <1>b, <2>1 DEF DelayPart
  <1>6. WaitPart'
    <2>1. \A t \in Task : t # k => Measured(t)' = Measured(t) /\ Counted(t)' = Counted(t)
      BY <1>a, <1>b DEF Measured, Counted, clock
    <2>2. n # portMAX_DELAY => Measured(k)'
      <3> SUFFICES ASSUME n # portMAX_DELAY PROVE Measured(k)'
        OBVIOUS
      <3>1. n + MaxLag <= Wrap
        BY LagAssumption
      <3>2. Counted(k)' = 0
        BY <1>b, <1>t DEF Counted
      <3>3. xTimeOut'[k].xOverflowCount = xNumOfOverflows' /\ xTimeOut'[k].xTimeOnEntering = xTickCount'
        BY <1>a, <1>b DEF Now, clock
      <3>4. xTickCount' \in Int
        BY <1>a, <1>t DEF clock
      <3> QED BY <3>1, <3>2, <3>3, <3>4, <1>b DEF Measured
    <2> QED BY <1>0, <1>b, <1>t, <2>1, <2>2 DEF WaitPart, Waits, portMAX_DELAY
  <1>7. EventReaches'
    BY <1>0, <1>a, <1>b DEF EventReaches, TypeOK, items
  <1> QED BY <1>1, <1>2, <1>3, <1>4, <1>5, <1>6, <1>7 DEF IInv

\* A tick while the scheduler is suspended: it is left to be counted.
LEMMA PendedTick ==
  ASSUME IInv, Tick, suspended # NULL PROVE IInv'
  <1>0. TypeOK /\ SuspendPart /\ ListPart /\ WakePart /\ DelayPart /\ WaitPart /\ EventReaches
    BY DEF IInv
  <1>t. /\ Wrap \in Nat /\ Wrap > 1 /\ MaxLag \in Nat /\ MaxPended \in Nat
        /\ due \in [Task -> Int] /\ xTicksToWait \in [Task -> 0..Wrap - 1]
        /\ xPendedTicks \in Nat /\ xPendedCounts \in Nat
    BY <1>0, TickAssumption DEF TypeOK
  <1>a. /\ xPendedCounts = 0 /\ xPendedTicks < MaxPended /\ xPendedTicks' = xPendedTicks + 1
        /\ \A t \in Task : due[t] > -MaxLag
        /\ due' = [t \in Task |-> IF Timed(t) THEN due[t] - 1 ELSE due[t]]
        /\ UNCHANGED <<clock, xNextTaskUnblockTime, lists, xPendingReadyList, items, suspended,
                       xPendedCounts, pc, xTicksToWait, xTimeOut>>
    BY <1>t DEF Tick, Masked, lists, items
  <1>b. \A t \in Task : Timed(t) => Left(t)' = Left(t)
    BY <1>a, <1>t DEF Left, Uncounted
  <1>c. \A t \in pxDelayedTaskList \cup pxOverflowDelayedTaskList : t \in Task /\ Timed(t)
    BY <1>0, <1>t DEF ListPart, Timed, Delay, Waits, TypeOK
  <1>d. \A t \in Task : Ready(t)' = Ready(t)
    BY <1>a DEF Ready, Listed, lists
  <1>1. TypeOK'
    BY <1>0, <1>a, <1>t DEF TypeOK, clock, lists, items
  <1>2. SuspendPart'
    BY <1>0, <1>a DEF SuspendPart
  <1>3. ListPart'
    BY <1>0, <1>a, <1>d DEF ListPart, lists, items, portMAX_DELAY
  <1>4. WakePart'
    BY <1>0, <1>a, <1>b, <1>c DEF WakePart, lists, items, clock
  <1>5. DelayPart'
    <2>1. \A t \in Task : due'[t] >= -MaxLag
      BY <1>a, <1>t
    <2>2. \A t \in Task : pc[t] \in {"add", "woken"} => Left(t)' = Left(t)
      BY <1>b DEF Timed, Delay
    <2> QED BY <1>0, <1>a, <1>d, <2>1, <2>2 DEF DelayPart
  <1>6. WaitPart'
    <2>1. \A t \in Task : pc[t] \in Waits /\ xTicksToWait[t] # portMAX_DELAY
             => Left(t)' = Left(t) /\ Counted(t)' = Counted(t)
      BY <1>a, <1>b DEF Timed, Counted
    <2>2. \A t \in Task : pc[t] \in Waits /\ xTicksToWait[t] # portMAX_DELAY /\ Measured(t) => Measured(t)'
      BY <1>a, <2>1 DEF Measured, clock
    <2>3. 0 # portMAX_DELAY
      BY <1>t DEF portMAX_DELAY
    <2> QED BY <1>0, <1>a, <2>1, <2>2, <2>3 DEF WaitPart, Waits, portMAX_DELAY
  <1>7. EventReaches'
    BY <1>0, <1>a, <1>d DEF EventReaches, items, TypeOK
  <1> QED BY <1>1, <1>2, <1>3, <1>4, <1>5, <1>6, <1>7 DEF IInv

\* A tick while the scheduler runs, and a tick that xTaskResumeAll catches up with.
LEMMA CountedTick ==
  ASSUME IInv, (Tick /\ suspended = NULL) \/ CatchUp PROVE IInv'
  <1>0. TypeOK /\ SuspendPart /\ ListPart /\ WakePart /\ DelayPart /\ WaitPart /\ EventReaches
    BY DEF IInv
  <1>t. /\ Wrap \in Nat /\ Wrap > 1 /\ MaxLag \in Nat /\ MaxPended \in Nat
        /\ due \in [Task -> Int] /\ xPendedTicks \in 0..MaxPended /\ xPendedCounts \in 0..xPendedTicks
        /\ xNumOfOverflows \in 0..OverflowWrap - 1
    BY <1>0, TickAssumption DEF TypeOK
  <1>a. /\ CountTick /\ suspended = NULL
        /\ UNCHANGED <<xSuspendedTaskList, xPendingReadyList, xTimeToWake, suspended, pc,
                       xTicksToWait, xTimeOut>>
    <2>1. CASE CatchUp
      BY <1>0, <2>1 DEF CatchUp, Masked, SuspendPart
    <2>2. CASE Tick /\ suspended = NULL
      BY <2>2 DEF Tick
    <2> QED BY <2>1, <2>2
  <1>b. \/ /\ xPendedCounts = 0 /\ xPendedTicks = 0 /\ xPendedCounts' = 0 /\ xPendedTicks' = 0
           /\ \A t \in Task : due[t] > -MaxLag
           /\ due' = [t \in Task |-> IF Timed(t) THEN due[t] - 1 ELSE due[t]]
        \/ /\ xPendedCounts > 0 /\ xPendedCounts' = xPendedCounts - 1 /\ due' = due
           /\ xPendedTicks' = IF xPendedCounts = 1 THEN 0 ELSE xPendedTicks
    <2>1. CASE CatchUp
      BY <2>1 DEF CatchUp, Masked
    <2>2. CASE Tick /\ suspended = NULL
      BY <2>2, <1>0, <1>t DEF Tick, Masked, SuspendPart
    <2> QED BY <2>1, <2>2
  <1>c. Uncounted = xPendedCounts /\ Uncounted' = xPendedCounts'
    BY <1>a DEF Uncounted
  <1>d. /\ due' \in [Task -> Int] /\ \A t \in Task : due'[t] >= -MaxLag
        /\ Uncounted \in Nat /\ Uncounted' \in Nat
    BY <1>0, <1>b, <1>c, <1>t DEF DelayPart
  <1>e. \A t \in Task : Timed(t) => Left(t)' = Left(t) - 1
    BY <1>b, <1>c, <1>t DEF Left
  <1>1. ListPart' /\ WakePart' /\ DelayPart' /\ WaitPart' /\ EventReaches'
    BY <1>a, <1>d, <1>e, CountTickKeeps
  <1>2. TypeOK'
    <2>1. (xNumOfOverflows + 1) % OverflowWrap \in 0..OverflowWrap - 1
      BY <1>t, NextOverflow
    <2>2. /\ xTickCount' \in 0..Wrap - 1 /\ xNumOfOverflows' \in 0..OverflowWrap - 1
          /\ xNextTaskUnblockTime' \in 0..Wrap - 1
          /\ pxDelayedTaskList' \subseteq Task /\ pxOverflowDelayedTaskList' \subseteq Task
          /\ eventList' \subseteq Task
      BY <1>0, <1>a, <1>t, <2>1, CountTickLists DEF TypeOK
    <2>3. xPendedTicks' \in 0..MaxPended /\ xPendedCounts' \in 0..xPendedTicks'
      BY <1>b, <1>t
    <2> QED BY <1>0, <1>a, <1>d, <2>2, <2>3 DEF TypeOK
  <1>3. SuspendPart'
    BY <1>0, <1>a, <1>b, <1>t DEF SuspendPart
  <1> QED BY <1>1, <1>2, <1>3 DEF IInv

-----------------------------------------------------------------------------
(* The theorems.                                                           *)

\* The kernel starts with empty lists and no task in a call.
LEMMA InitIInv == Init => IInv
  <1> SUFFICES ASSUME Init PROVE IInv
    OBVIOUS
  <1>1. TypeOK
    BY TickAssumption DEF Init, TypeOK, PC, NoTimeOut, portMAX_DELAY
  <1>2. SuspendPart /\ ListPart /\ EventReaches
    BY TickAssumption DEF Init, SuspendPart, Suspends, ListPart, EventReaches, Ready, Listed
  <1>3. WakePart /\ DelayPart /\ WaitPart
    BY TickAssumption DEF Init, WakePart, DelayPart, WaitPart, Waits
  <1> QED BY <1>1, <1>2, <1>3 DEF IInv

\* Every step of a task, a tick or an event keeps the invariant.
LEMMA StepIInv ==
  ASSUME SecondsFit, IInv, [Next]_vars PROVE IInv'
  <1>1. CASE Tick \/ CatchUp
    BY <1>1, PendedTick, CountedTick
  <1>2. ASSUME NEW k \in Task, Call(k) PROVE IInv'
    BY <1>2, SleepStep, UsleepStep, WaitStep DEF Call
  <1>3. ASSUME NEW k \in Task, Step(k) PROVE IInv'
    BY <1>3, DelayAddStep, vTaskSuspendAllStep, xTaskCheckForTimeOutStep, vTaskPlaceOnEventListStep,
       PlaceSkippedStep, RetryStep, ReturnStep, xTaskResumeAllStep DEF Step
  <1>4. ASSUME NEW k \in Task, xTaskRemoveFromEventList(k) PROVE IInv'
    BY <1>4, xTaskRemoveFromEventListStep
  <1>5. CASE UNCHANGED vars
    <2>1. /\ UNCHANGED <<xTickCount, xNumOfOverflows, xNextTaskUnblockTime, pxDelayedTaskList,
                         pxOverflowDelayedTaskList, xSuspendedTaskList, xPendingReadyList,
                         eventList, xTimeToWake>>
          /\ UNCHANGED <<suspended, xPendedTicks, xPendedCounts, pc, xTicksToWait, xTimeOut, due>>
      BY <1>5 DEF vars, clock, lists, items, pend
    <2>2. /\ Uncounted' = Uncounted /\ \A t : Left(t)' = Left(t) /\ Ready(t)' = Ready(t)
      BY <2>1 DEF Uncounted, Left, Ready, Listed
    <2>3. TypeOK' /\ SuspendPart' /\ EventReaches'
      BY <2>1, <2>2 DEF IInv, TypeOK, SuspendPart, EventReaches
    <2>4. ListPart' /\ WakePart' /\ DelayPart'
      BY <2>1, <2>2 DEF IInv, ListPart, WakePart, DelayPart, portMAX_DELAY
    <2>5. WaitPart'
      BY <2>1, <2>2 DEF IInv, WaitPart, Measured, Counted, portMAX_DELAY
    <2> QED BY <2>3, <2>4, <2>5 DEF IInv
  <1> QED BY <1>1, <1>2, <1>3, <1>4, <1>5 DEF Next

\* The inductive invariant holds for every width of the tick count and of the
\* number of overflows, all tasks, delays and block times.
THEOREM TickInvariant == ASSUME SecondsFit PROVE Spec => []IInv
  <1>1. IInv /\ [Next]_vars => IInv'
    BY StepIInv
  <1> QED BY <1>1, InitIInv, PTL DEF Spec

\* No task is kept in a delayed list after its time, whatever overflows and
\* however many ticks the suspended scheduler has missed.
THEOREM SleepsNoLonger == ASSUME SecondsFit PROVE Spec => []OnTime
  <1>1. IInv => OnTime
    <2> SUFFICES ASSUME IInv, NEW t \in pxDelayedTaskList \cup pxOverflowDelayedTaskList
                 PROVE  due[t] + Uncounted > 0
      BY DEF OnTime
    <2>1. /\ Wrap \in Nat /\ xTickCount \in 0..Wrap - 1 /\ xTimeToWake[t] \in 0..Wrap - 1
          /\ due[t] \in Int /\ Uncounted \in Int
      BY TickAssumption DEF IInv, TypeOK, Uncounted
    <2> QED BY <2>1 DEF IInv, WakePart, Left
  <1> QED BY <1>1, TickInvariant, PTL

\* No delay and no wait with a time limit ends before its time.
THEOREM TimesOutNoEarlier == ASSUME SecondsFit PROVE Spec => []NeverEarly
  <1>1. IInv => NeverEarly
    <2> SUFFICES ASSUME IInv, NEW t \in Task,
                        pc[t] = "expired" \/ (pc[t] = "woken" /\ Ready(t))
                 PROVE  due[t] <= 0
      BY DEF NeverEarly
    <2>1. due[t] \in Int /\ Uncounted \in Int /\ Uncounted >= 0
      BY TickAssumption DEF IInv, TypeOK, Uncounted
    <2>2. Left(t) <= 0
      BY DEF IInv, DelayPart, WaitPart, Waits
    <2> QED BY <2>1, <2>2 DEF Left
  <1> QED BY <1>1, TickInvariant, PTL

\* The assertion of taskSWITCH_DELAYED_LISTS never fails.
THEOREM OverflowFindsListEmpty == ASSUME SecondsFit PROVE Spec => []SwitchesEmpty
  <1>1. IInv => SwitchesEmpty
    <2> SUFFICES ASSUME IInv, xTickCount = portMAX_DELAY, NEW t \in pxDelayedTaskList PROVE FALSE
      BY DEF SwitchesEmpty
    <2>1. Wrap \in Nat /\ xTimeToWake[t] \in 0..Wrap - 1 /\ xTimeToWake[t] > xTickCount
      BY TickAssumption DEF IInv, TypeOK, WakePart
    <2> QED BY <2>1 DEF portMAX_DELAY
  <1> QED BY <1>1, TickInvariant, PTL

\* No event is lost between the event lists, the pending list and the tick.
THEOREM EventsReachWaiters == ASSUME SecondsFit PROVE Spec => []EventReaches
  <1>1. IInv => EventReaches
    BY DEF IInv
  <1> QED BY <1>1, TickInvariant, PTL

\* The tick count, the overflow count, the wake times and the block times stay
\* within their widths, and no more tick counts pend than ticks.
THEOREM TickTypes == ASSUME SecondsFit PROVE Spec => []TypeOK
  <1>1. IInv => TypeOK
    BY DEF IInv
  <1> QED BY <1>1, TickInvariant, PTL
=============================================================================
