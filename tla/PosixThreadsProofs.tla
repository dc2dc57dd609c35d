------------------------- MODULE PosixThreadsProofs -------------------------
(***************************************************************************)
(* Proofs about the thread half of posix_shim.c, for any number of         *)
(* threads, descriptors and task control blocks.                           *)
(***************************************************************************)
EXTENDS PosixThreadsInv, TLAPS

-----------------------------------------------------------------------------
(* The registry as a list without duplicates.                              *)

\* add_thread: the new node is the head and every other node moves back by one.
LEMMA PrependFacts ==
    ASSUME NEW s \in Seq(Desc), NEW d \in Desc
    PROVE  LET u == <<d>> \o s
           IN  /\ u \in Seq(Desc) /\ Len(u) = Len(s) + 1 /\ u[1] = d
               /\ \A i \in 1..Len(s) : u[i + 1] = s[i]
               /\ \A i \in 2..Len(u) : u[i] = s[i - 1] /\ i - 1 \in 1..Len(s)
  OBVIOUS

\* r is the list s without d: the others are all there, in their order.
Removed(s, r, d) ==
    /\ r \in Seq(Desc)
    /\ \A i \in 1..Len(r) : r[i] # d
    /\ \A i \in 1..Len(s) : s[i] # d => \E j \in 1..Len(r) : r[j] = s[i]
    /\ \A i \in 1..Len(r) : \E j \in 1..Len(s) : r[i] = s[j]
    /\ \A i, j \in 1..Len(r) : r[i] = r[j] => i = j
    /\ \A i, j \in 1..Len(r) : \A m, n \in 1..Len(s) :
          r[i] = s[m] /\ r[j] = s[n] /\ m <= n => i <= j

\* remove_thread on a list without duplicates: the node is gone, the others
\* are all there and keep their order.
LEMMA UnlinkFacts ==
    ASSUME NEW s \in Seq(Desc), NEW d \in Desc,
           \A i, j \in 1..Len(s) : s[i] = s[j] => i = j
    PROVE  Removed(s, Unlink(s, d), d)
<1> DEFINE first == CHOOSE i \in 1..Len(s) : s[i] = d /\ \A j \in 1..(i - 1) : s[j] # d
<1>1. CASE \E i \in 1..Len(s) : s[i] = d
  <2> PICK p \in 1..Len(s) : s[p] = d
      BY <1>1
  <2>1. first = p
      <3>1. \A j \in 1..(p - 1) : s[j] # d
          OBVIOUS
      <3>2. first \in 1..Len(s) /\ s[first] = d
          BY <3>1
      <3> QED BY <3>2
  <2> HIDE DEF first
  <2> DEFINE u == [j \in 1..(Len(s) - 1) |-> IF j < p THEN s[j] ELSE s[j + 1]]
  <2>2. Unlink(s, d) = u
      BY <1>1, <2>1 DEF Unlink, first
  <2>3. u \in Seq(Desc) /\ Len(u) = Len(s) - 1
      OBVIOUS
  <2>4. \A j \in 1..Len(u) : u[j] = IF j < p THEN s[j] ELSE s[j + 1]
      BY <2>3
  <2> HIDE DEF u
  <2>5. \A i \in 1..Len(s) : s[i] # d => \E j \in 1..Len(u) : u[j] = s[i]
      <3> SUFFICES ASSUME NEW i \in 1..Len(s), s[i] # d
                   PROVE  \E j \in 1..Len(u) : u[j] = s[i]
          OBVIOUS
      <3>1. CASE i < p
          BY <3>1, <2>3, <2>4
      <3>2. CASE i > p
          <4>1. i - 1 \in 1..Len(u) /\ u[i - 1] = s[i]
              BY <3>2, <2>3, <2>4
          <4> QED BY <4>1
      <3> QED BY <3>1, <3>2
  <2>6. \A i \in 1..Len(u) : u[i] # d /\ \E j \in 1..Len(s) : u[i] = s[j]
      <3> SUFFICES ASSUME NEW i \in 1..Len(u)
                   PROVE  u[i] # d /\ \E j \in 1..Len(s) : u[i] = s[j]
          OBVIOUS
      <3>1. i \in 1..Len(s) /\ i + 1 \in 1..Len(s)
          BY <2>3
      <3> QED BY <3>1, <2>4
  <2>7. \A i, j \in 1..Len(u) : u[i] = u[j] => i = j
      BY <2>3, <2>4
  <2>8. \A i, j \in 1..Len(u) : \A m, n \in 1..Len(s) :
           u[i] = s[m] /\ u[j] = s[n] /\ m <= n => i <= j
      <3> SUFFICES ASSUME NEW i \in 1..Len(u), NEW j \in 1..Len(u),
                          NEW m \in 1..Len(s), NEW n \in 1..Len(s),
                          u[i] = s[m], u[j] = s[n], m <= n
                   PROVE  i <= j
          OBVIOUS
      <3>1. m = IF i < p THEN i ELSE i + 1
          BY <2>3, <2>4
      <3>2. n = IF j < p THEN j ELSE j + 1
          BY <2>3, <2>4
      <3> QED BY <3>1, <3>2
  <2> QED BY <2>2, <2>3, <2>5, <2>6, <2>7, <2>8 DEF Removed
<1>2. CASE ~\E i \in 1..Len(s) : s[i] = d
  <2>1. Unlink(s, d) = s
      BY <1>2 DEF Unlink
  <2> QED BY <1>2, <2>1 DEF Removed
<1> QED BY <1>1, <1>2

\* find_thread returns the first descriptor of the task.
LEMMA FindFacts ==
    ASSUME TypeOK, NEW k \in Tcb, NEW j \in 1..Len(g_thread_list),
           xTask[g_thread_list[j]] = k,
           \A i \in 1..Len(g_thread_list) : xTask[g_thread_list[i]] = k => j <= i
    PROVE  find_thread(k) = g_thread_list[j]
<1> DEFINE first == CHOOSE i \in 1..Len(g_thread_list) :
              /\ xTask[g_thread_list[i]] = k
              /\ \A l \in 1..(i - 1) : ~(xTask[g_thread_list[l]] = k)
<1>1. \A l \in 1..(j - 1) : ~(xTask[g_thread_list[l]] = k)
    <2> Len(g_thread_list) \in Nat
        BY DEF TypeOK
    <2> QED OBVIOUS
<1>2. first \in 1..Len(g_thread_list) /\ xTask[g_thread_list[first]] = k
      /\ \A l \in 1..(first - 1) : ~(xTask[g_thread_list[l]] = k)
    BY <1>1
<1>3. first = j
    <2> Len(g_thread_list) \in Nat
        BY DEF TypeOK
    <2> HIDE DEF first
    <2> QED BY <1>2
<1> QED BY <1>3 DEF find_thread

USE DEF CreatePC, JoinPC, ExitPC, Live, InList, Detacher, Goto, At, Running, dvars, tvars

\* remove_thread(d) as the invariant sees it.
LEMMA RemoveFacts ==
    ASSUME TypeOK, RegistryAllocated, NEW d \in Desc, remove_thread(d)
    PROVE  /\ g_thread_list' \in Seq(Desc)
           /\ \A e \in Desc : InList(e)' <=> InList(e) /\ e # d
           /\ \A i \in 1..Len(g_thread_list') : g_thread_list'[i] \in heap
           /\ \A i, j \in 1..Len(g_thread_list') : g_thread_list'[i] = g_thread_list'[j] => i = j
           /\ \A i, j \in 1..Len(g_thread_list') : \E m, n \in 1..Len(g_thread_list) :
                 /\ g_thread_list'[i] = g_thread_list[m] /\ g_thread_list'[j] = g_thread_list[n]
                 /\ m <= n => i <= j
<1> DEFINE s == g_thread_list
           u == g_thread_list'
<1>1. s \in Seq(Desc) /\ (\A i, j \in 1..Len(s) : s[i] = s[j] => i = j)
    BY DEF TypeOK, RegistryAllocated
<1>2. u = Unlink(s, d)
    BY DEF remove_thread
<1>3. Removed(s, u, d)
    BY <1>1, <1>2, UnlinkFacts
<1> USE DEF Removed
<1>4. \A e \in Desc : InList(e)' <=> InList(e) /\ e # d
  <2>1. ASSUME NEW e \in Desc, NEW i \in 1..Len(u), u[i] = e
        PROVE  (\E j \in 1..Len(s) : s[j] = e) /\ e # d
      BY <1>3, <2>1
  <2>2. ASSUME NEW e \in Desc, NEW i \in 1..Len(s), s[i] = e, e # d
        PROVE  \E j \in 1..Len(u) : u[j] = e
      BY <1>3, <2>2
  <2> QED BY <2>1, <2>2
<1>5. \A i \in 1..Len(u) : u[i] \in heap
    BY <1>3 DEF RegistryAllocated
<1>6. \A i, j \in 1..Len(u) : \E m, n \in 1..Len(s) :
         u[i] = s[m] /\ u[j] = s[n] /\ (m <= n => i <= j)
    BY <1>3
<1> QED BY <1>3, <1>4, <1>5, <1>6

\* A registered thread that looks itself up finds its own descriptor.
LEMMA FindSelf ==
    ASSUME IInv, NEW k \in Tcb, Live(k), InList(param[k])
    PROVE  find_thread(k) = param[k]
<1>1. PICK j \in 1..Len(g_thread_list) : g_thread_list[j] = param[k]
    OBVIOUS
<1>2. xTask[g_thread_list[j]] = k
    BY <1>1 DEF IInv, LivePart
<1>3. \A i \in 1..Len(g_thread_list) : xTask[g_thread_list[i]] = k => j <= i
    BY <1>1 DEF IInv, OrderPart
<1> QED BY <1>1, <1>2, <1>3, FindFacts DEF IInv

-----------------------------------------------------------------------------
(* The initial state and one lemma per action.  Each has a step for every  *)
(* part of the invariant, which names the other parts it rests on.         *)

\* The state main_blinky leaves when it starts the scheduler.
LEMMA InitIInv == Init => IInv
<1> SUFFICES ASSUME Init PROVE IInv
    OBVIOUS
<1> USE NullAssumption, MainAssumption DEF Init
<1>1. Len(g_thread_list) = 1 /\ g_thread_list[1] = MainDesc /\ g_thread_list \in Seq(Desc)
    OBVIOUS
<1>2. \A d \in Desc : InList(d) <=> d = MainDesc
  <2> HIDE DEF Init
  <2>1. 1..Len(g_thread_list) = {1}
      BY <1>1
  <2> QED BY <1>1, <2>1
<1>3. TypeOK  BY <1>1 DEF TypeOK, PC
<1>4. IdlePart  BY DEF IdlePart
<1>5. SuspendPart  BY DEF SuspendPart
<1>6. FreePart  BY <1>2 DEF FreePart
<1>7. CreatePart  BY DEF CreatePart
<1>8. LivePart  BY <1>2 DEF LivePart
<1>9. OrderPart  BY <1>1 DEF OrderPart
<1>10. JoinPart  BY DEF JoinPart
<1>11. GivenPart  BY DEF GivenPart
<1>12. DetachPart  BY DEF DetachPart
<1>13. ValuePart  BY DEF ValuePart
<1>14. RegistryAllocated  BY <1>1 DEF RegistryAllocated
<1>15. RegistryComplete  BY <1>2 DEF RegistryComplete
<1>16. JoinedValue  BY DEF JoinedValue
<1> QED
    BY <1>3, <1>4, <1>5, <1>6, <1>7, <1>8, <1>9, <1>10, <1>11, <1>12, <1>13, <1>14, <1>15, <1>16
    DEF IInv

\* posix_thread_wrapper enters the user's function.
LEMMA WrapperStartKeeps ==
    ASSUME IInv, NEW k \in Tcb, WrapperStart(k)
    PROVE  IInv'
<1>1. TypeOK'  BY NullAssumption DEF IInv, TypeOK, PC, WrapperStart
<1>2. IdlePart'  BY NullAssumption DEF IInv, TypeOK, IdlePart, WrapperStart
<1>3. SuspendPart'  BY NullAssumption DEF IInv, TypeOK, IdlePart, SuspendPart, WrapperStart
<1>4. FreePart'  BY NullAssumption DEF IInv, TypeOK, IdlePart, FreePart, WrapperStart
<1>5. CreatePart'
    BY NullAssumption DEF IInv, TypeOK, IdlePart, SuspendPart, CreatePart, WrapperStart
<1>6. LivePart'  BY NullAssumption DEF IInv, TypeOK, IdlePart, SuspendPart, LivePart, WrapperStart
<1>7. OrderPart'  BY NullAssumption DEF IInv, TypeOK, IdlePart, OrderPart, WrapperStart
<1>8. JoinPart'  BY NullAssumption DEF IInv, TypeOK, IdlePart, JoinPart, WrapperStart
<1>9. GivenPart'  BY NullAssumption DEF IInv, TypeOK, IdlePart, GivenPart, WrapperStart
<1>10. DetachPart'  BY NullAssumption DEF IInv, TypeOK, IdlePart, DetachPart, WrapperStart
<1>11. ValuePart'  BY NullAssumption DEF IInv, TypeOK, IdlePart, ValuePart, WrapperStart
<1>12. RegistryAllocated'
    BY NullAssumption DEF IInv, TypeOK, IdlePart, RegistryAllocated, WrapperStart
<1>13. RegistryComplete'
  <2>1. \A l \in Tcb : pc[l] \in {"join_semdel", "join_free", "exit_semdel", "exit_free"} => pc'[l] = pc[l]
      BY DEF IInv, TypeOK, WrapperStart
  <2>2. heap' = heap /\ claim' = claim /\ t' = t /\ g_thread_list' = g_thread_list
      BY DEF WrapperStart
  <2> QED BY <2>1, <2>2 DEF IInv, RegistryComplete
<1>14. JoinedValue'  BY NullAssumption DEF IInv, TypeOK, IdlePart, JoinedValue, WrapperStart
<1> QED BY <1>1, <1>2, <1>3, <1>4, <1>5, <1>6, <1>7, <1>8, <1>9, <1>10, <1>11, <1>12, <1>13, <1>14 DEF IInv

\* pvPortMalloc returns a block that nothing refers to.
LEMMA CreateAllocKeeps ==
    ASSUME IInv, NEW k \in Tcb, NEW d \in Desc, CreateAlloc(k, d)
    PROVE  IInv'
<1>1. TypeOK'  BY NullAssumption DEF IInv, TypeOK, PC, CreateAlloc
<1>2. IdlePart'  BY NullAssumption DEF IInv, TypeOK, IdlePart, CreateAlloc
<1>3. SuspendPart'  BY NullAssumption DEF IInv, TypeOK, IdlePart, SuspendPart, CreateAlloc
<1>4. FreePart'  BY NullAssumption DEF IInv, TypeOK, IdlePart, FreePart, CreateAlloc
<1>5. CreatePart'
    BY NullAssumption DEF IInv, TypeOK, IdlePart, FreePart, LivePart, CreatePart, CreateAlloc
<1>6. LivePart'  BY NullAssumption DEF IInv, TypeOK, IdlePart, SuspendPart, LivePart, CreateAlloc
<1>7. OrderPart'  BY NullAssumption DEF IInv, TypeOK, IdlePart, OrderPart, CreateAlloc
<1>8. JoinPart'  BY NullAssumption DEF IInv, TypeOK, IdlePart, JoinPart, CreateAlloc
<1>9. GivenPart'  BY NullAssumption DEF IInv, TypeOK, IdlePart, GivenPart, CreateAlloc
<1>10. DetachPart'  BY NullAssumption DEF IInv, TypeOK, IdlePart, DetachPart, CreateAlloc
<1>11. ValuePart'  BY NullAssumption DEF IInv, TypeOK, IdlePart, ValuePart, CreateAlloc
<1>12. RegistryAllocated'
    BY NullAssumption DEF IInv, TypeOK, IdlePart, RegistryAllocated, CreateAlloc
<1>13. RegistryComplete'
    BY NullAssumption, SMTT(60) DEF IInv, TypeOK, IdlePart, FreePart, RegistryComplete, CreateAlloc
<1>14. JoinedValue'  BY NullAssumption DEF IInv, TypeOK, IdlePart, JoinedValue, CreateAlloc
<1> QED BY <1>1, <1>2, <1>3, <1>4, <1>5, <1>6, <1>7, <1>8, <1>9, <1>10, <1>11, <1>12, <1>13, <1>14 DEF IInv

\* xSemaphoreCreateBinary for a descriptor under construction.
LEMMA CreateSemKeeps ==
    ASSUME IInv, NEW k \in Tcb, CreateSem(k)
    PROVE  IInv'
<1>1. TypeOK'  BY NullAssumption DEF IInv, TypeOK, PC, CreateSem
<1>2. IdlePart'  BY NullAssumption DEF IInv, TypeOK, IdlePart, CreateSem
<1>3. SuspendPart'  BY NullAssumption DEF IInv, TypeOK, IdlePart, SuspendPart, CreateSem
<1>4. FreePart'  BY NullAssumption DEF IInv, TypeOK, IdlePart, CreatePart, FreePart, CreateSem
<1>5. CreatePart'  BY NullAssumption DEF IInv, TypeOK, IdlePart, CreatePart, CreateSem
<1>6. LivePart'  BY NullAssumption DEF IInv, TypeOK, IdlePart, CreatePart, LivePart, CreateSem
<1>7. OrderPart'  BY NullAssumption DEF IInv, TypeOK, IdlePart, OrderPart, CreateSem
<1>8. JoinPart'  BY NullAssumption DEF IInv, TypeOK, IdlePart, CreatePart, JoinPart, CreateSem
<1>9. GivenPart'  BY NullAssumption DEF IInv, TypeOK, IdlePart, CreatePart, GivenPart, CreateSem
<1>10. DetachPart'  BY NullAssumption DEF IInv, TypeOK, IdlePart, DetachPart, CreateSem
<1>11. ValuePart'  BY NullAssumption DEF IInv, TypeOK, IdlePart, CreatePart, ValuePart, CreateSem
<1>12. RegistryAllocated'
    BY NullAssumption DEF IInv, TypeOK, IdlePart, RegistryAllocated, CreateSem
<1>13. RegistryComplete'  BY NullAssumption, SMTT(60) DEF IInv, TypeOK, IdlePart, RegistryComplete, CreateSem
<1>14. JoinedValue'  BY NullAssumption DEF IInv, TypeOK, IdlePart, JoinedValue, CreateSem
<1> QED BY <1>1, <1>2, <1>3, <1>4, <1>5, <1>6, <1>7, <1>8, <1>9, <1>10, <1>11, <1>12, <1>13, <1>14 DEF IInv

\* vTaskSuspendAll in pthread_create.
LEMMA CreateSuspendKeeps ==
    ASSUME IInv, NEW k \in Tcb, CreateSuspend(k)
    PROVE  IInv'
<1>1. TypeOK'  BY NullAssumption DEF IInv, TypeOK, PC, CreateSuspend
<1>2. IdlePart'  BY NullAssumption DEF IInv, TypeOK, IdlePart, CreateSuspend
<1>3. SuspendPart'  BY NullAssumption DEF IInv, TypeOK, IdlePart, SuspendPart, CreateSuspend
<1>4. FreePart'  BY NullAssumption DEF IInv, TypeOK, IdlePart, FreePart, CreateSuspend
<1>5. CreatePart'  BY NullAssumption DEF IInv, TypeOK, IdlePart, CreatePart, CreateSuspend
<1>6. LivePart'  BY NullAssumption DEF IInv, TypeOK, IdlePart, LivePart, CreateSuspend
<1>7. OrderPart'  BY NullAssumption DEF IInv, TypeOK, IdlePart, OrderPart, CreateSuspend
<1>8. JoinPart'  BY NullAssumption DEF IInv, TypeOK, IdlePart, JoinPart, CreateSuspend
<1>9. GivenPart'  BY NullAssumption DEF IInv, TypeOK, IdlePart, GivenPart, CreateSuspend
<1>10. DetachPart'  BY NullAssumption DEF IInv, TypeOK, IdlePart, DetachPart, CreateSuspend
<1>11. ValuePart'  BY NullAssumption DEF IInv, TypeOK, IdlePart, ValuePart, CreateSuspend
<1>12. RegistryAllocated'
    BY NullAssumption DEF IInv, TypeOK, IdlePart, RegistryAllocated, CreateSuspend
<1>13. RegistryComplete'
    BY NullAssumption, SMTT(60) DEF IInv, TypeOK, IdlePart, RegistryComplete, CreateSuspend
<1>14. JoinedValue'  BY NullAssumption DEF IInv, TypeOK, IdlePart, JoinedValue, CreateSuspend
<1> QED BY <1>1, <1>2, <1>3, <1>4, <1>5, <1>6, <1>7, <1>8, <1>9, <1>10, <1>11, <1>12, <1>13, <1>14 DEF IInv

\* xTaskCreate, with the scheduler suspended, at an address no task has.
LEMMA CreateTaskKeeps ==
    ASSUME IInv, NEW k \in Tcb, NEW c \in Tcb, CreateTask(k, c)
    PROVE  IInv'
<1>a. k # c /\ pc[c] = "start" /\ param[c] = NoDesc /\ pc[k] = "create_task"
    BY DEF IInv, IdlePart, CreateTask
<1>b. pc' = [pc EXCEPT ![k] = "create_add"]
    BY <1>a DEF IInv, TypeOK, CreateTask
<1>c. t[k] \in heap /\ claim[t[k]] = "private" /\ t[k] \in Desc /\ ~InList(t[k])
      /\ join_sem[t[k]] = "empty" /\ suspended = k
      /\ \A l \in Tcb : Live(l) => param[l] # t[k]
    BY <1>a DEF IInv, TypeOK, CreatePart, SuspendPart
<1> DEFINE Change ==
        /\ param' = [param EXCEPT ![c] = t[k]] /\ xTask' = [xTask EXCEPT ![t[k]] = c]
        /\ status' = [status EXCEPT ![c] = "ready"] /\ status[k] = "ready"
        /\ UNCHANGED <<heap, retval, join_sem, detached, g_thread_list, t, val, suspended, claim, passed>>
<1>d. Change /\ halted' = halted
    BY DEF CreateTask
<1>1. TypeOK'  BY <1>b, <1>c, <1>d DEF IInv, TypeOK, PC
<1>2. IdlePart'  BY <1>a, <1>b, <1>c, <1>d, NullAssumption DEF IInv, TypeOK, IdlePart
<1>3. SuspendPart'  BY <1>a, <1>b, <1>d DEF IInv, TypeOK, SuspendPart
<1>4. FreePart'  BY <1>d DEF IInv, TypeOK, FreePart
<1>5. CreatePart'
  <2>1. ASSUME NEW l \in Tcb, pc[l] \in CreatePC, l # k
        PROVE  t[l] # t[k] /\ pc[l] \notin {"create_task", "create_add", "create_resume"}
      BY <1>a, <1>c, <2>1 DEF IInv, CreatePart, SuspendPart
  <2> QED BY <1>a, <1>b, <1>c, <1>d, <2>1, NullAssumption DEF IInv, TypeOK, CreatePart
<1>6. LivePart'
    BY <1>a, <1>b, <1>c, <1>d, NullAssumption DEF IInv, TypeOK, LivePart
<1>7. OrderPart'
    BY <1>a, <1>b, <1>c, <1>d, NullAssumption, SMTT(60) DEF IInv, TypeOK, OrderPart
<1>8. JoinPart'
    BY <1>a, <1>b, <1>c, <1>d, NullAssumption DEF IInv, TypeOK, JoinPart
<1>9. GivenPart'
    BY <1>a, <1>b, <1>c, <1>d, NullAssumption DEF IInv, TypeOK, GivenPart
<1>10. DetachPart'
    BY <1>a, <1>b, <1>c, <1>d, NullAssumption DEF IInv, TypeOK, DetachPart
<1>11. ValuePart'
    BY <1>a, <1>b, <1>c, <1>d, NullAssumption DEF IInv, TypeOK, ValuePart
<1>12. RegistryAllocated'  BY <1>d DEF IInv, TypeOK, RegistryAllocated
<1>13. RegistryComplete'
  <2>1. \A l \in Tcb : pc[l] \in {"join_semdel", "join_free", "exit_semdel", "exit_free"} => pc'[l] = pc[l]
      BY <1>a, <1>b, <1>c, <1>d DEF IInv, TypeOK, IdlePart
  <2>2. heap' = heap /\ claim' = claim /\ t' = t /\ g_thread_list' = g_thread_list
      BY <1>d
  <2> QED BY <2>1, <2>2 DEF IInv, RegistryComplete
<1>14. JoinedValue'  BY <1>a, <1>b, <1>d DEF IInv, TypeOK, JoinedValue
<1> QED BY <1>1, <1>2, <1>3, <1>4, <1>5, <1>6, <1>7, <1>8, <1>9, <1>10, <1>11, <1>12, <1>13, <1>14 DEF IInv

\* add_thread: the new descriptor becomes the head, before any older
\* descriptor that names the same task.
LEMMA CreateAddKeeps ==
    ASSUME IInv, NEW k \in Tcb, CreateAdd(k)
    PROVE  IInv'
<1> DEFINE d == t[k]
           s == g_thread_list
           u == g_thread_list'
<1>a. d \in heap /\ d \in Desc /\ ~InList(d) /\ claim[d] = "private" /\ suspended = k
      /\ pc[k] = "create_add" /\ s \in Seq(Desc) /\ xTask[d] \in Tcb /\ param[xTask[d]] = d
    BY DEF IInv, TypeOK, CreatePart, SuspendPart, CreateAdd
<1>b. u = <<d>> \o s
    BY DEF CreateAdd, add_thread
<1>c. u \in Seq(Desc) /\ Len(u) = Len(s) + 1 /\ u[1] = d /\ Len(s) \in Nat
      /\ (\A i \in 1..Len(s) : u[i + 1] = s[i])
      /\ (\A i \in 2..Len(u) : u[i] = s[i - 1] /\ i - 1 \in 1..Len(s))
    BY <1>a, <1>b, PrependFacts
<1>d. \A e \in Desc : InList(e)' <=> InList(e) \/ e = d
  <2> SUFFICES ASSUME NEW e \in Desc
               PROVE  (\E i \in 1..Len(u) : u[i] = e) <=> (\E i \in 1..Len(s) : s[i] = e) \/ e = d
      OBVIOUS
  <2>1. ASSUME NEW i \in 1..Len(s), s[i] = e  PROVE \E j \in 1..Len(u) : u[j] = e
      <3>1. i + 1 \in 1..Len(u) /\ u[i + 1] = e
          BY <1>c, <2>1
      <3> QED BY <3>1
  <2>2. ASSUME NEW i \in 1..Len(u), u[i] = e  PROVE (\E j \in 1..Len(s) : s[j] = e) \/ e = d
      <3>1. i = 1 \/ i \in 2..Len(u)
          BY <1>c
      <3> QED BY <1>c, <2>2, <3>1
  <2>3. \E j \in 1..Len(u) : u[j] = d
      BY <1>c
  <2> QED BY <2>1, <2>2, <2>3
<1>e. pc' = [pc EXCEPT ![k] = "create_resume"]
      /\ UNCHANGED <<dvars, tvars, t, val, suspended, halted, claim, passed>>
    BY DEF CreateAdd
<1>1. TypeOK'  BY <1>c, <1>e DEF IInv, TypeOK, PC
<1>2. IdlePart'  BY <1>e, <1>a DEF IInv, TypeOK, IdlePart
<1>3. SuspendPart'  BY <1>a, <1>e DEF IInv, TypeOK, SuspendPart
<1>4. FreePart'  BY <1>a, <1>d, <1>e DEF IInv, TypeOK, FreePart
<1>5. CreatePart'
  <2>1. ASSUME NEW l \in Tcb, pc[l] \in CreatePC, l # k
        PROVE  t[l] # d /\ pc[l] \notin {"create_task", "create_add", "create_resume"}
      BY <1>a, <2>1 DEF IInv, CreatePart, SuspendPart
  <2>2. \A l \in Tcb : pc[l] \in CreatePC => t[l] \in Desc
      BY DEF IInv, TypeOK, CreatePart
  <2>3. \A l \in Tcb : pc[l] \in CreatePC /\ l # k => ~InList(t[l])'
      BY <1>d, <1>e, <2>1, <2>2 DEF IInv, CreatePart
  <2>4. InList(t[k])'
      BY <1>a, <1>d, <1>e
  <2> HIDE DEF InList
  <2> QED BY <1>a, <1>e, <2>1, <2>3, <2>4 DEF IInv, TypeOK, CreatePart
<1>6. LivePart'
    BY <1>a, <1>d, <1>e, NullAssumption DEF IInv, TypeOK, LivePart
<1>7. OrderPart'
  <2> SUFFICES ASSUME NEW l \in Tcb, NEW i \in 1..Len(u), NEW j \in 1..Len(u),
                      Live(l)', u[j] = param'[l], xTask'[u[i]] = l
               PROVE  j <= i
      BY DEF OrderPart
  <2>1. Live(l) /\ u[j] = param[l] /\ xTask[u[i]] = l
      BY <1>a, <1>e DEF IInv, TypeOK
  <2>2. CASE j = 1
      BY <2>2, <1>c
  <2>3. CASE j # 1 /\ i # 1
      BY <2>1, <2>3, <1>c DEF IInv, OrderPart
  <2>4. CASE j # 1 /\ i = 1
      <3>1. param[l] = d
          BY <2>1, <2>4, <1>a, <1>c
      <3>2. j - 1 \in 1..Len(s) /\ s[j - 1] = d
          BY <2>1, <2>4, <1>c, <3>1
      <3> QED BY <3>2, <1>a
  <2> QED BY <2>2, <2>3, <2>4
<1>8. JoinPart'
  <2>1. \A l \in Tcb : pc[l] \in JoinPC => t[l] \in Desc /\ t[l] # d
      BY <1>a DEF IInv, TypeOK, JoinPart
  <2>2. \A l \in Tcb : pc[l] \in {"join_semdel", "join_free"} => ~InList(t[l])'
      BY <1>d, <1>e, <2>1 DEF IInv, JoinPart
  <2> HIDE DEF InList
  <2> QED BY <1>a, <1>e, <2>2 DEF IInv, TypeOK, JoinPart
<1>9. GivenPart'
    BY <1>a, <1>e, NullAssumption DEF IInv, TypeOK, GivenPart
<1>10. DetachPart'
    BY <1>a, <1>e, NullAssumption DEF IInv, TypeOK, DetachPart
<1>11. ValuePart'
    BY <1>a, <1>e, NullAssumption DEF IInv, TypeOK, ValuePart
<1>12. RegistryAllocated'
  <2>1. \A i \in 1..Len(u) : i = 1 \/ i \in 2..Len(u)
      BY <1>c
  <2>2. \A i \in 2..Len(u) : u[i] # d
      BY <1>a, <1>c
  <2>3. \A i \in 1..Len(u) : u[i] \in heap
      BY <1>a, <1>c, <2>1 DEF IInv, RegistryAllocated
  <2>4. ASSUME NEW i \in 1..Len(u), NEW j \in 1..Len(u), u[i] = u[j]  PROVE i = j
      <3>1. CASE i = 1 \/ j = 1
          BY <3>1, <1>c, <2>1, <2>2, <2>4
      <3>2. CASE i \in 2..Len(u) /\ j \in 2..Len(u)
          <4>1. i - 1 = j - 1
              BY <3>2, <1>c, <2>4 DEF IInv, RegistryAllocated
          <4> QED BY <4>1, <3>2
      <3> QED BY <3>1, <3>2, <2>1
  <2> QED BY <1>e, <2>3, <2>4 DEF RegistryAllocated
<1>13. RegistryComplete'
    BY <1>a, <1>d, <1>e, SMTT(60) DEF IInv, TypeOK, RegistryComplete
<1>14. JoinedValue'  BY <1>a, <1>e DEF IInv, TypeOK, JoinedValue
<1> QED BY <1>1, <1>2, <1>3, <1>4, <1>5, <1>6, <1>7, <1>8, <1>9, <1>10, <1>11, <1>12, <1>13, <1>14 DEF IInv

\* *thread = t and xTaskResumeAll: the descriptor is already registered.
LEMMA CreateResumeKeeps ==
    ASSUME IInv, NEW k \in Tcb, CreateResume(k)
    PROVE  IInv'
<1>1. TypeOK'  BY NullAssumption DEF IInv, TypeOK, PC, CreateResume
<1>2. IdlePart'  BY NullAssumption DEF IInv, TypeOK, IdlePart, CreateResume
<1>3. SuspendPart'  BY NullAssumption DEF IInv, TypeOK, IdlePart, SuspendPart, CreateResume
<1>4. FreePart'  BY NullAssumption DEF IInv, TypeOK, IdlePart, CreatePart, FreePart, CreateResume
<1>5. CreatePart'  BY NullAssumption DEF IInv, TypeOK, IdlePart, CreatePart, CreateResume
<1>6. LivePart'  BY NullAssumption DEF IInv, TypeOK, IdlePart, LivePart, CreateResume
<1>7. OrderPart'  BY NullAssumption DEF IInv, TypeOK, IdlePart, OrderPart, CreateResume
<1>8. JoinPart'  BY NullAssumption DEF IInv, TypeOK, IdlePart, CreatePart, JoinPart, CreateResume
<1>9. GivenPart'  BY NullAssumption DEF IInv, TypeOK, IdlePart, CreatePart, GivenPart, CreateResume
<1>10. DetachPart'
    BY NullAssumption DEF IInv, TypeOK, IdlePart, CreatePart, DetachPart, CreateResume
<1>11. ValuePart'  BY NullAssumption DEF IInv, TypeOK, IdlePart, ValuePart, CreateResume
<1>12. RegistryAllocated'
    BY NullAssumption DEF IInv, TypeOK, IdlePart, RegistryAllocated, CreateResume
<1>13. RegistryComplete'
    BY NullAssumption, SMTT(60) DEF IInv, TypeOK, IdlePart, CreatePart, RegistryComplete, CreateResume
<1>14. JoinedValue'  BY NullAssumption DEF IInv, TypeOK, IdlePart, JoinedValue, CreateResume
<1> QED BY <1>1, <1>2, <1>3, <1>4, <1>5, <1>6, <1>7, <1>8, <1>9, <1>10, <1>11, <1>12, <1>13, <1>14 DEF IInv

\* The malloc-failed hook stops the machine where it is.
LEMMA AllocHaltsKeeps ==
    ASSUME IInv, NEW k \in Tcb, AllocHalts(k)
    PROVE  IInv'
<1>1. TypeOK'  BY NullAssumption DEF IInv, TypeOK, PC, AllocHalts
<1>2. IdlePart'  BY NullAssumption DEF IInv, TypeOK, IdlePart, AllocHalts
<1>3. SuspendPart'  BY NullAssumption DEF IInv, TypeOK, IdlePart, SuspendPart, AllocHalts
<1>4. FreePart'  BY NullAssumption DEF IInv, TypeOK, IdlePart, FreePart, AllocHalts
<1>5. CreatePart'  BY NullAssumption DEF IInv, TypeOK, IdlePart, CreatePart, AllocHalts
<1>6. LivePart'  BY NullAssumption DEF IInv, TypeOK, IdlePart, LivePart, AllocHalts
<1>7. OrderPart'  BY NullAssumption DEF IInv, TypeOK, IdlePart, OrderPart, AllocHalts
<1>8. JoinPart'  BY NullAssumption DEF IInv, TypeOK, IdlePart, JoinPart, AllocHalts
<1>9. GivenPart'  BY NullAssumption DEF IInv, TypeOK, IdlePart, GivenPart, AllocHalts
<1>10. DetachPart'  BY NullAssumption DEF IInv, TypeOK, IdlePart, DetachPart, AllocHalts
<1>11. ValuePart'  BY NullAssumption DEF IInv, TypeOK, IdlePart, ValuePart, AllocHalts
<1>12. RegistryAllocated'
    BY NullAssumption DEF IInv, TypeOK, IdlePart, RegistryAllocated, AllocHalts
<1>13. RegistryComplete'  BY NullAssumption, SMTT(60) DEF IInv, TypeOK, IdlePart, RegistryComplete, AllocHalts
<1>14. JoinedValue'  BY NullAssumption DEF IInv, TypeOK, IdlePart, JoinedValue, AllocHalts
<1> QED BY <1>1, <1>2, <1>3, <1>4, <1>5, <1>6, <1>7, <1>8, <1>9, <1>10, <1>11, <1>12, <1>13, <1>14 DEF IInv

\* xSemaphoreCreateBinary fails.
LEMMA CreateSemFailsKeeps ==
    ASSUME IInv, NEW k \in Tcb, CreateSemFails(k)
    PROVE  IInv'
<1>1. TypeOK'  BY NullAssumption DEF IInv, TypeOK, PC, CreateSemFails
<1>2. IdlePart'  BY NullAssumption DEF IInv, TypeOK, IdlePart, CreateSemFails
<1>3. SuspendPart'  BY NullAssumption DEF IInv, TypeOK, IdlePart, SuspendPart, CreateSemFails
<1>4. FreePart'  BY NullAssumption DEF IInv, TypeOK, IdlePart, FreePart, CreateSemFails
<1>5. CreatePart'  BY NullAssumption DEF IInv, TypeOK, IdlePart, CreatePart, CreateSemFails
<1>6. LivePart'  BY NullAssumption DEF IInv, TypeOK, IdlePart, LivePart, CreateSemFails
<1>7. OrderPart'  BY NullAssumption DEF IInv, TypeOK, IdlePart, OrderPart, CreateSemFails
<1>8. JoinPart'  BY NullAssumption DEF IInv, TypeOK, IdlePart, JoinPart, CreateSemFails
<1>9. GivenPart'  BY NullAssumption DEF IInv, TypeOK, IdlePart, GivenPart, CreateSemFails
<1>10. DetachPart'  BY NullAssumption DEF IInv, TypeOK, IdlePart, DetachPart, CreateSemFails
<1>11. ValuePart'  BY NullAssumption DEF IInv, TypeOK, IdlePart, ValuePart, CreateSemFails
<1>12. RegistryAllocated'
    BY NullAssumption DEF IInv, TypeOK, IdlePart, RegistryAllocated, CreateSemFails
<1>13. RegistryComplete'
    BY NullAssumption, SMTT(60) DEF IInv, TypeOK, IdlePart, RegistryComplete, CreateSemFails
<1>14. JoinedValue'  BY NullAssumption DEF IInv, TypeOK, IdlePart, JoinedValue, CreateSemFails
<1> QED BY <1>1, <1>2, <1>3, <1>4, <1>5, <1>6, <1>7, <1>8, <1>9, <1>10, <1>11, <1>12, <1>13, <1>14 DEF IInv

\* xTaskCreate fails: the scheduler resumes before the clean-up.
LEMMA CreateTaskFailsKeeps ==
    ASSUME IInv, NEW k \in Tcb, CreateTaskFails(k)
    PROVE  IInv'
<1>1. TypeOK'  BY NullAssumption DEF IInv, TypeOK, PC, CreateTaskFails
<1>2. IdlePart'  BY NullAssumption DEF IInv, TypeOK, IdlePart, CreateTaskFails
<1>3. SuspendPart'  BY NullAssumption DEF IInv, TypeOK, IdlePart, SuspendPart, CreateTaskFails
<1>4. FreePart'  BY NullAssumption DEF IInv, TypeOK, IdlePart, FreePart, CreateTaskFails
<1>5. CreatePart'  BY NullAssumption DEF IInv, TypeOK, IdlePart, CreatePart, CreateTaskFails
<1>6. LivePart'
    BY NullAssumption DEF IInv, TypeOK, IdlePart, SuspendPart, CreatePart, LivePart,
        CreateTaskFails
<1>7. OrderPart'  BY NullAssumption DEF IInv, TypeOK, IdlePart, OrderPart, CreateTaskFails
<1>8. JoinPart'  BY NullAssumption DEF IInv, TypeOK, IdlePart, JoinPart, CreateTaskFails
<1>9. GivenPart'  BY NullAssumption DEF IInv, TypeOK, IdlePart, GivenPart, CreateTaskFails
<1>10. DetachPart'  BY NullAssumption DEF IInv, TypeOK, IdlePart, DetachPart, CreateTaskFails
<1>11. ValuePart'  BY NullAssumption DEF IInv, TypeOK, IdlePart, ValuePart, CreateTaskFails
<1>12. RegistryAllocated'
    BY NullAssumption DEF IInv, TypeOK, IdlePart, RegistryAllocated, CreateTaskFails
<1>13. RegistryComplete'
    BY NullAssumption, SMTT(60) DEF IInv, TypeOK, IdlePart, RegistryComplete, CreateTaskFails
<1>14. JoinedValue'  BY NullAssumption DEF IInv, TypeOK, IdlePart, JoinedValue, CreateTaskFails
<1> QED BY <1>1, <1>2, <1>3, <1>4, <1>5, <1>6, <1>7, <1>8, <1>9, <1>10, <1>11, <1>12, <1>13, <1>14 DEF IInv

\* The failure path of pthread_create deletes the semaphore.
LEMMA UndoSemKeeps ==
    ASSUME IInv, NEW k \in Tcb, UndoSem(k)
    PROVE  IInv'
<1>1. TypeOK'  BY NullAssumption DEF IInv, TypeOK, PC, UndoSem, vSemaphoreDelete
<1>2. IdlePart'  BY NullAssumption DEF IInv, TypeOK, IdlePart, UndoSem, vSemaphoreDelete
<1>3. SuspendPart'
    BY NullAssumption DEF IInv, TypeOK, IdlePart, SuspendPart, UndoSem, vSemaphoreDelete
<1>4. FreePart'  BY NullAssumption DEF IInv, TypeOK, IdlePart, FreePart, UndoSem, vSemaphoreDelete
<1>5. CreatePart'
    BY NullAssumption DEF IInv, TypeOK, IdlePart, CreatePart, UndoSem, vSemaphoreDelete
<1>6. LivePart'
    BY NullAssumption DEF IInv, TypeOK, IdlePart, CreatePart, LivePart, UndoSem,
        vSemaphoreDelete
<1>7. OrderPart'  BY NullAssumption DEF IInv, TypeOK, IdlePart, OrderPart, UndoSem, vSemaphoreDelete
<1>8. JoinPart'
    BY NullAssumption DEF IInv, TypeOK, IdlePart, CreatePart, JoinPart, UndoSem,
        vSemaphoreDelete
<1>9. GivenPart'
    BY NullAssumption DEF IInv, TypeOK, IdlePart, CreatePart, GivenPart, UndoSem,
        vSemaphoreDelete
<1>10. DetachPart'
    BY NullAssumption DEF IInv, TypeOK, IdlePart, DetachPart, UndoSem, vSemaphoreDelete
<1>11. ValuePart'
    BY NullAssumption DEF IInv, TypeOK, IdlePart, ValuePart, UndoSem, vSemaphoreDelete
<1>12. RegistryAllocated'
    BY NullAssumption DEF IInv, TypeOK, IdlePart, RegistryAllocated, UndoSem, vSemaphoreDelete
<1>13. RegistryComplete'
    BY NullAssumption, SMTT(60) DEF IInv, TypeOK, IdlePart, RegistryComplete, UndoSem, vSemaphoreDelete
<1>14. JoinedValue'
    BY NullAssumption DEF IInv, TypeOK, IdlePart, JoinedValue, UndoSem, vSemaphoreDelete
<1> QED BY <1>1, <1>2, <1>3, <1>4, <1>5, <1>6, <1>7, <1>8, <1>9, <1>10, <1>11, <1>12, <1>13, <1>14 DEF IInv

\* The failure path of pthread_create frees a descriptor nobody else knows.
LEMMA UndoFreeKeeps ==
    ASSUME IInv, NEW k \in Tcb, UndoFree(k)
    PROVE  IInv'
<1>1. TypeOK'  BY NullAssumption DEF IInv, TypeOK, PC, UndoFree, Free
<1>2. IdlePart'  BY NullAssumption DEF IInv, TypeOK, IdlePart, UndoFree, Free
<1>3. SuspendPart'  BY NullAssumption DEF IInv, TypeOK, IdlePart, SuspendPart, UndoFree, Free
<1>4. FreePart'  BY NullAssumption DEF IInv, TypeOK, IdlePart, CreatePart, FreePart, UndoFree, Free
<1>5. CreatePart'  BY NullAssumption DEF IInv, TypeOK, IdlePart, CreatePart, UndoFree, Free
<1>6. LivePart'  BY NullAssumption DEF IInv, TypeOK, IdlePart, CreatePart, LivePart, UndoFree, Free
<1>7. OrderPart'  BY NullAssumption DEF IInv, TypeOK, IdlePart, OrderPart, UndoFree, Free
<1>8. JoinPart'  BY NullAssumption DEF IInv, TypeOK, IdlePart, CreatePart, JoinPart, UndoFree, Free
<1>9. GivenPart'  BY NullAssumption DEF IInv, TypeOK, IdlePart, GivenPart, UndoFree, Free
<1>10. DetachPart'
    BY NullAssumption DEF IInv, TypeOK, IdlePart, CreatePart, DetachPart, UndoFree, Free
<1>11. ValuePart'
  <2>1. \A l \in Tcb : Live(l) => (param[l] # t[k] /\ l # k) \/ pc[l] \notin ExitPC
      BY DEF IInv, CreatePart, UndoFree
  <2>2. \A l \in Tcb : pc[l] = "join_retval" => t[l] # t[k] /\ l # k
      BY DEF IInv, CreatePart, JoinPart, UndoFree
  <2> QED BY <2>1, <2>2, NullAssumption DEF IInv, TypeOK, ValuePart, UndoFree, Free
<1>12. RegistryAllocated'
    BY NullAssumption DEF IInv, TypeOK, IdlePart, CreatePart, RegistryAllocated, UndoFree, Free
<1>13. RegistryComplete'
    BY NullAssumption, SMTT(60) DEF IInv, TypeOK, IdlePart, RegistryComplete, UndoFree, Free
<1>14. JoinedValue'
    BY NullAssumption DEF IInv, TypeOK, IdlePart, CreatePart, JoinPart, JoinedValue, UndoFree,
        Free
<1> QED BY <1>1, <1>2, <1>3, <1>4, <1>5, <1>6, <1>7, <1>8, <1>9, <1>10, <1>11, <1>12, <1>13, <1>14 DEF IInv

\* A first pthread_join of an unclaimed handle.
LEMMA JoinCallKeeps ==
    ASSUME IInv, NEW k \in Tcb, NEW d \in Desc, JoinCall(k, d)
    PROVE  IInv'
<1>1. TypeOK'  BY NullAssumption DEF IInv, TypeOK, PC, JoinCall
<1>2. IdlePart'  BY NullAssumption DEF IInv, TypeOK, IdlePart, JoinCall
<1>3. SuspendPart'  BY NullAssumption DEF IInv, TypeOK, IdlePart, SuspendPart, JoinCall
<1>4. FreePart'  BY NullAssumption DEF IInv, TypeOK, IdlePart, FreePart, JoinCall
<1>5. CreatePart'  BY NullAssumption DEF IInv, TypeOK, IdlePart, CreatePart, JoinCall
<1>6. LivePart'  BY NullAssumption DEF IInv, TypeOK, IdlePart, SuspendPart, LivePart, JoinCall
<1>7. OrderPart'  BY NullAssumption DEF IInv, TypeOK, IdlePart, OrderPart, JoinCall
<1>8. JoinPart'
    BY NullAssumption DEF IInv, TypeOK, IdlePart, FreePart, GivenPart, JoinPart, JoinCall
<1>9. GivenPart'  BY NullAssumption DEF IInv, TypeOK, IdlePart, GivenPart, JoinCall
<1>10. DetachPart'  BY NullAssumption DEF IInv, TypeOK, IdlePart, DetachPart, JoinCall
<1>11. ValuePart'  BY NullAssumption DEF IInv, TypeOK, IdlePart, ValuePart, JoinCall
<1>12. RegistryAllocated'  BY NullAssumption DEF IInv, TypeOK, IdlePart, RegistryAllocated, JoinCall
<1>13. RegistryComplete'  BY NullAssumption, SMTT(60) DEF IInv, TypeOK, IdlePart, RegistryComplete, JoinCall
<1>14. JoinedValue'  BY NullAssumption DEF IInv, TypeOK, IdlePart, JoinedValue, JoinCall
<1> QED BY <1>1, <1>2, <1>3, <1>4, <1>5, <1>6, <1>7, <1>8, <1>9, <1>10, <1>11, <1>12, <1>13, <1>14 DEF IInv

\* xSemaphoreTake succeeds: the thread that gave has finished with its descriptor.
LEMMA JoinTakeKeeps ==
    ASSUME IInv, NEW k \in Tcb, JoinTake(k)
    PROVE  IInv'
<1>1. TypeOK'  BY NullAssumption DEF IInv, TypeOK, PC, JoinTake
<1>2. IdlePart'  BY NullAssumption DEF IInv, TypeOK, IdlePart, JoinTake
<1>3. SuspendPart'  BY NullAssumption DEF IInv, TypeOK, IdlePart, SuspendPart, JoinTake
<1>4. FreePart'  BY NullAssumption DEF IInv, TypeOK, IdlePart, FreePart, JoinTake
<1>5. CreatePart'  BY NullAssumption DEF IInv, TypeOK, IdlePart, CreatePart, JoinTake
<1>6. LivePart'  BY NullAssumption DEF IInv, TypeOK, IdlePart, LivePart, JoinTake
<1>7. OrderPart'  BY NullAssumption DEF IInv, TypeOK, IdlePart, OrderPart, JoinTake
<1>8. JoinPart'  BY NullAssumption DEF IInv, TypeOK, IdlePart, GivenPart, JoinPart, JoinTake
<1>9. GivenPart'  BY NullAssumption DEF IInv, TypeOK, IdlePart, GivenPart, JoinTake
<1>10. DetachPart'  BY NullAssumption DEF IInv, TypeOK, IdlePart, DetachPart, JoinTake
<1>11. ValuePart'  BY NullAssumption DEF IInv, TypeOK, IdlePart, JoinPart, ValuePart, JoinTake
<1>12. RegistryAllocated'  BY NullAssumption DEF IInv, TypeOK, IdlePart, RegistryAllocated, JoinTake
<1>13. RegistryComplete'  BY NullAssumption, SMTT(60) DEF IInv, TypeOK, IdlePart, RegistryComplete, JoinTake
<1>14. JoinedValue'  BY NullAssumption DEF IInv, TypeOK, IdlePart, JoinedValue, JoinTake
<1> QED BY <1>1, <1>2, <1>3, <1>4, <1>5, <1>6, <1>7, <1>8, <1>9, <1>10, <1>11, <1>12, <1>13, <1>14 DEF IInv

\* The joiner reads what pthread_exit stored.
LEMMA JoinRetvalKeeps ==
    ASSUME IInv, NEW k \in Tcb, JoinRetval(k)
    PROVE  IInv'
<1>1. TypeOK'  BY NullAssumption DEF IInv, TypeOK, PC, JoinPart, JoinRetval
<1>2. IdlePart'  BY NullAssumption DEF IInv, TypeOK, IdlePart, JoinRetval
<1>3. SuspendPart'  BY NullAssumption DEF IInv, TypeOK, IdlePart, SuspendPart, JoinRetval
<1>4. FreePart'  BY NullAssumption DEF IInv, TypeOK, IdlePart, FreePart, JoinRetval
<1>5. CreatePart'  BY NullAssumption DEF IInv, TypeOK, IdlePart, CreatePart, JoinRetval
<1>6. LivePart'  BY NullAssumption DEF IInv, TypeOK, IdlePart, LivePart, JoinRetval
<1>7. OrderPart'  BY NullAssumption DEF IInv, TypeOK, IdlePart, OrderPart, JoinRetval
<1>8. JoinPart'  BY NullAssumption DEF IInv, TypeOK, IdlePart, JoinPart, JoinRetval
<1>9. GivenPart'  BY NullAssumption DEF IInv, TypeOK, IdlePart, GivenPart, JoinRetval
<1>10. DetachPart'  BY NullAssumption DEF IInv, TypeOK, IdlePart, DetachPart, JoinRetval
<1>11. ValuePart'  BY NullAssumption DEF IInv, TypeOK, IdlePart, ValuePart, JoinRetval
<1>12. RegistryAllocated'
    BY NullAssumption DEF IInv, TypeOK, IdlePart, RegistryAllocated, JoinRetval
<1>13. RegistryComplete'  BY NullAssumption, SMTT(60) DEF IInv, TypeOK, IdlePart, RegistryComplete, JoinRetval
<1>14. JoinedValue'
    BY NullAssumption DEF IInv, TypeOK, IdlePart, ValuePart, JoinPart, JoinedValue, JoinRetval
<1> QED BY <1>1, <1>2, <1>3, <1>4, <1>5, <1>6, <1>7, <1>8, <1>9, <1>10, <1>11, <1>12, <1>13, <1>14 DEF IInv

\* The joiner unlinks the descriptor of a thread that is gone.
LEMMA JoinRemoveKeeps ==
    ASSUME IInv, NEW k \in Tcb, JoinRemove(k)
    PROVE  IInv'
<1> DEFINE d == t[k]
<1>a. d \in heap /\ d \in Desc /\ pc[k] = "join_remove" /\ remove_thread(d)
      /\ claim[d] = "join" /\ status[k] = "ready"
    BY DEF IInv, TypeOK, IdlePart, JoinPart, JoinRemove
<1>b. /\ g_thread_list' \in Seq(Desc)
      /\ \A e \in Desc : InList(e)' <=> InList(e) /\ e # d
      /\ \A i \in 1..Len(g_thread_list') : g_thread_list'[i] \in heap
      /\ \A i, j \in 1..Len(g_thread_list') : g_thread_list'[i] = g_thread_list'[j] => i = j
    BY <1>a, RemoveFacts DEF IInv
<1>o. \A i, j \in 1..Len(g_thread_list') : \E m, n \in 1..Len(g_thread_list) :
         /\ g_thread_list'[i] = g_thread_list[m] /\ g_thread_list'[j] = g_thread_list[n]
         /\ m <= n => i <= j
    BY <1>a, RemoveFacts DEF IInv
<1>c. pc' = [pc EXCEPT ![k] = "join_semdel"]
      /\ UNCHANGED <<dvars, tvars, t, val, suspended, halted, claim, passed>>
    BY DEF JoinRemove
<1> HIDE DEF d
<1>1. TypeOK'  BY <1>b, <1>c DEF IInv, TypeOK, PC
<1>2. IdlePart'  BY <1>a, <1>c DEF IInv, TypeOK, IdlePart
<1>3. SuspendPart'  BY <1>a, <1>c DEF IInv, TypeOK, SuspendPart
<1>4. FreePart'  BY <1>b, <1>c DEF IInv, TypeOK, FreePart
<1>5. CreatePart'
  <2>1. \A l \in Tcb : pc[l] \in CreatePC => t[l] \in Desc /\ t[l] # d
      BY <1>a DEF IInv, TypeOK, CreatePart
  <2>2. \A l \in Tcb : pc[l] \in CreatePC => (InList(t[l])' <=> InList(t[l]))
      BY <1>b, <1>c, <2>1
  <2> HIDE DEF InList
  <2> QED BY <1>a, <1>c, <2>2, NullAssumption DEF IInv, TypeOK, IdlePart, CreatePart
<1>6. LivePart'
  <2>0. \A l \in Tcb : Live(l) /\ l # k => param[l] \in Desc /\ param[l] # d
      BY <1>a DEF IInv, TypeOK, LivePart, JoinPart, d
  <2>1. \A l \in Tcb : Live(l) /\ l # k => (InList(param[l])' <=> InList(param[l]))
      BY <1>b, <1>c, <2>0
  <2>2. Live(k) => (InList(param[k])' <=> InList(param[k]))
    <3>1. Live(k) => param[k] \in Desc /\ param[k] # d
        BY <1>a DEF IInv, TypeOK, LivePart, JoinPart, d
    <3> QED BY <3>1, <1>b, <1>c
  <2> HIDE DEF InList
  <2> QED BY <1>a, <1>c, <2>1, <2>2, NullAssumption DEF IInv, TypeOK, IdlePart, SuspendPart, LivePart
<1>7. OrderPart'
  <2> SUFFICES ASSUME NEW l \in Tcb, NEW i \in 1..Len(g_thread_list'), NEW j \in 1..Len(g_thread_list'),
                      Live(l)', g_thread_list'[j] = param'[l], xTask'[g_thread_list'[i]] = l
               PROVE  j <= i
      BY DEF OrderPart
  <2>1. Live(l) /\ param'[l] = param[l] /\ xTask' = xTask
      BY <1>a, <1>c DEF IInv, TypeOK
  <2>2. PICK m, n \in 1..Len(g_thread_list) :
           /\ g_thread_list'[j] = g_thread_list[m] /\ g_thread_list'[i] = g_thread_list[n]
           /\ m <= n => j <= i
      BY <1>o, Zenon
  <2> QED BY <2>1, <2>2 DEF IInv, OrderPart
<1>8. JoinPart'
  <2>1. \A l \in Tcb : pc[l] \in JoinPC =>
           t[l] \in Desc /\ (InList(t[l])' => InList(t[l])) /\ (t[l] = d => ~InList(t[l])')
      BY <1>a, <1>b, <1>c DEF IInv, TypeOK, JoinPart
  <2> HIDE DEF InList
  <2> QED BY <1>a, <1>c, <2>1, NullAssumption DEF IInv, TypeOK, IdlePart, JoinPart, d
<1>9. GivenPart'
    BY <1>a, <1>c, NullAssumption DEF IInv, TypeOK, GivenPart
<1>10. DetachPart'
    BY <1>a, <1>c, NullAssumption DEF IInv, TypeOK, DetachPart
<1>11. ValuePart'
    BY <1>a, <1>c, NullAssumption DEF IInv, TypeOK, ValuePart
<1>12. RegistryAllocated'
    BY <1>b, <1>c DEF RegistryAllocated
<1>13. RegistryComplete'
  <2> HIDE DEF InList
  <2> QED BY <1>a, <1>b, <1>c DEF IInv, TypeOK, RegistryComplete, d
<1>14. JoinedValue'
    BY <1>a, <1>c DEF IInv, TypeOK, JoinedValue, ValuePart
<1> QED BY <1>1, <1>2, <1>3, <1>4, <1>5, <1>6, <1>7, <1>8, <1>9, <1>10, <1>11, <1>12, <1>13, <1>14 DEF IInv

\* The joiner deletes the semaphore of a thread that is gone.
LEMMA JoinSemDeleteKeeps ==
    ASSUME IInv, NEW k \in Tcb, JoinSemDelete(k)
    PROVE  IInv'
<1>1. TypeOK'  BY NullAssumption DEF IInv, TypeOK, PC, JoinSemDelete, vSemaphoreDelete
<1>2. IdlePart'  BY NullAssumption DEF IInv, TypeOK, IdlePart, JoinSemDelete, vSemaphoreDelete
<1>3. SuspendPart'
    BY NullAssumption DEF IInv, TypeOK, IdlePart, SuspendPart, JoinSemDelete, vSemaphoreDelete
<1>4. FreePart'
    BY NullAssumption DEF IInv, TypeOK, IdlePart, FreePart, JoinSemDelete, vSemaphoreDelete
<1>5. CreatePart'
    BY NullAssumption DEF IInv, TypeOK, IdlePart, JoinPart, CreatePart, JoinSemDelete,
        vSemaphoreDelete
<1>6. LivePart'
    BY NullAssumption, SMTT(60) DEF IInv, TypeOK, IdlePart, SuspendPart, JoinPart, LivePart,
        JoinSemDelete, vSemaphoreDelete
<1>7. OrderPart'
    BY NullAssumption DEF IInv, TypeOK, IdlePart, OrderPart, JoinSemDelete, vSemaphoreDelete
<1>8. JoinPart'
    BY NullAssumption DEF IInv, TypeOK, IdlePart, JoinPart, JoinSemDelete, vSemaphoreDelete
<1>9. GivenPart'
    BY NullAssumption DEF IInv, TypeOK, IdlePart, JoinPart, GivenPart, JoinSemDelete,
        vSemaphoreDelete
<1>10. DetachPart'
    BY NullAssumption DEF IInv, TypeOK, IdlePart, DetachPart, JoinSemDelete, vSemaphoreDelete
<1>11. ValuePart'
    BY NullAssumption DEF IInv, TypeOK, IdlePart, ValuePart, JoinSemDelete, vSemaphoreDelete
<1>12. RegistryAllocated'
    BY NullAssumption DEF IInv, TypeOK, IdlePart, RegistryAllocated, JoinSemDelete,
        vSemaphoreDelete
<1>13. RegistryComplete'
    BY NullAssumption, SMTT(60) DEF IInv, TypeOK, IdlePart, RegistryComplete, JoinSemDelete,
        vSemaphoreDelete
<1>14. JoinedValue'
    BY NullAssumption DEF IInv, TypeOK, IdlePart, JoinedValue, JoinSemDelete, vSemaphoreDelete
<1> QED BY <1>1, <1>2, <1>3, <1>4, <1>5, <1>6, <1>7, <1>8, <1>9, <1>10, <1>11, <1>12, <1>13, <1>14 DEF IInv

\* The joiner frees the descriptor of a thread that is gone.
LEMMA JoinFreeKeeps ==
    ASSUME IInv, NEW k \in Tcb, JoinFree(k)
    PROVE  IInv'
<1>1. TypeOK'  BY NullAssumption DEF IInv, TypeOK, PC, JoinFree, Free
<1>2. IdlePart'  BY NullAssumption DEF IInv, TypeOK, IdlePart, JoinFree, Free
<1>3. SuspendPart'  BY NullAssumption DEF IInv, TypeOK, IdlePart, SuspendPart, JoinFree, Free
<1>4. FreePart'  BY NullAssumption DEF IInv, TypeOK, IdlePart, JoinPart, FreePart, JoinFree, Free
<1>5. CreatePart'
    BY NullAssumption DEF IInv, TypeOK, IdlePart, JoinPart, CreatePart, JoinFree, Free
<1>6. LivePart'  BY NullAssumption DEF IInv, TypeOK, IdlePart, JoinPart, LivePart, JoinFree, Free
<1>7. OrderPart'  BY NullAssumption DEF IInv, TypeOK, IdlePart, OrderPart, JoinFree, Free
<1>8. JoinPart'  BY NullAssumption DEF IInv, TypeOK, IdlePart, JoinPart, JoinFree, Free
<1>9. GivenPart'  BY NullAssumption DEF IInv, TypeOK, IdlePart, GivenPart, JoinFree, Free
<1>10. DetachPart'
    BY NullAssumption DEF IInv, TypeOK, IdlePart, JoinPart, DetachPart, JoinFree, Free
<1>11. ValuePart'  BY NullAssumption DEF IInv, TypeOK, IdlePart, JoinPart, ValuePart, JoinFree, Free
<1>12. RegistryAllocated'
    BY NullAssumption DEF IInv, TypeOK, IdlePart, JoinPart, RegistryAllocated, JoinFree, Free
<1>13. RegistryComplete'
    BY NullAssumption, SMTT(60) DEF IInv, TypeOK, IdlePart, JoinPart, RegistryComplete, JoinFree, Free
<1>14. JoinedValue'
    BY NullAssumption DEF IInv, TypeOK, IdlePart, JoinPart, JoinedValue, JoinFree, Free
<1> QED BY <1>1, <1>2, <1>3, <1>4, <1>5, <1>6, <1>7, <1>8, <1>9, <1>10, <1>11, <1>12, <1>13, <1>14 DEF IInv

\* A first pthread_detach of an unclaimed handle.
LEMMA DetachCallKeeps ==
    ASSUME IInv, NEW k \in Tcb, NEW d \in Desc, DetachCall(k, d)
    PROVE  IInv'
<1>1. TypeOK'  BY NullAssumption DEF IInv, TypeOK, PC, DetachCall
<1>2. IdlePart'  BY NullAssumption DEF IInv, TypeOK, IdlePart, DetachCall
<1>3. SuspendPart'  BY NullAssumption DEF IInv, TypeOK, IdlePart, SuspendPart, DetachCall
<1>4. FreePart'  BY NullAssumption DEF IInv, TypeOK, IdlePart, FreePart, DetachCall
<1>5. CreatePart'  BY NullAssumption DEF IInv, TypeOK, IdlePart, CreatePart, DetachCall
<1>6. LivePart'  BY NullAssumption DEF IInv, TypeOK, IdlePart, SuspendPart, LivePart, DetachCall
<1>7. OrderPart'  BY NullAssumption DEF IInv, TypeOK, IdlePart, OrderPart, DetachCall
<1>8. JoinPart'  BY NullAssumption DEF IInv, TypeOK, IdlePart, JoinPart, DetachCall
<1>9. GivenPart'  BY NullAssumption DEF IInv, TypeOK, IdlePart, GivenPart, DetachCall
<1>10. DetachPart'  BY NullAssumption DEF IInv, TypeOK, IdlePart, FreePart, DetachPart, DetachCall
<1>11. ValuePart'  BY NullAssumption DEF IInv, TypeOK, IdlePart, ValuePart, DetachCall
<1>12. RegistryAllocated'
    BY NullAssumption DEF IInv, TypeOK, IdlePart, RegistryAllocated, DetachCall
<1>13. RegistryComplete'  BY NullAssumption, SMTT(60) DEF IInv, TypeOK, IdlePart, RegistryComplete, DetachCall
<1>14. JoinedValue'  BY NullAssumption DEF IInv, TypeOK, IdlePart, JoinedValue, DetachCall
<1> QED BY <1>1, <1>2, <1>3, <1>4, <1>5, <1>6, <1>7, <1>8, <1>9, <1>10, <1>11, <1>12, <1>13, <1>14 DEF IInv

\* A thread claims its own handle in order to detach itself.
LEMMA SelfCallKeeps ==
    ASSUME IInv, NEW k \in Tcb, SelfCall(k)
    PROVE  IInv'
<1>1. TypeOK'  BY NullAssumption DEF IInv, TypeOK, PC, SelfCall
<1>2. IdlePart'  BY NullAssumption DEF IInv, TypeOK, IdlePart, SelfCall
<1>3. SuspendPart'  BY NullAssumption DEF IInv, TypeOK, IdlePart, SuspendPart, SelfCall
<1>4. FreePart'  BY NullAssumption DEF IInv, TypeOK, IdlePart, FreePart, SelfCall
<1>5. CreatePart'  BY NullAssumption DEF IInv, TypeOK, IdlePart, CreatePart, SelfCall
<1>6. LivePart'  BY NullAssumption DEF IInv, TypeOK, IdlePart, LivePart, SelfCall
<1>7. OrderPart'  BY NullAssumption DEF IInv, TypeOK, IdlePart, OrderPart, SelfCall
<1>8. JoinPart'  BY NullAssumption DEF IInv, TypeOK, IdlePart, JoinPart, SelfCall
<1>9. GivenPart'  BY NullAssumption DEF IInv, TypeOK, IdlePart, GivenPart, SelfCall
<1>10. DetachPart'  BY NullAssumption DEF IInv, TypeOK, IdlePart, DetachPart, SelfCall
<1>11. ValuePart'  BY NullAssumption DEF IInv, TypeOK, IdlePart, ValuePart, SelfCall
<1>12. RegistryAllocated'  BY NullAssumption, SMTT(60) DEF IInv, TypeOK, IdlePart, RegistryAllocated, SelfCall
<1>13. RegistryComplete'  BY NullAssumption, SMTT(60) DEF IInv, TypeOK, IdlePart, RegistryComplete, SelfCall
<1>14. JoinedValue'  BY NullAssumption DEF IInv, TypeOK, IdlePart, JoinedValue, SelfCall
<1> QED BY <1>1, <1>2, <1>3, <1>4, <1>5, <1>6, <1>7, <1>8, <1>9, <1>10, <1>11, <1>12, <1>13, <1>14 DEF IInv

\* pthread_self, called by a thread that detaches itself.
LEMMA pthread_selfKeeps ==
    ASSUME IInv, NEW k \in Tcb, pthread_self(k)
    PROVE  IInv'
<1>a. Live(k) /\ InList(param[k]) /\ param[k] \in heap /\ param[k] \in Desc
    BY DEF IInv, TypeOK, IdlePart, LivePart, SuspendPart, pthread_self
<1>b. t' = [t EXCEPT ![k] = param[k]]
    BY <1>a, FindSelf DEF pthread_self
<1>c. pc[k] = "self" /\ pc' = [pc EXCEPT ![k] = "detach_set"] /\ status[k] = "ready"
      /\ UNCHANGED <<dvars, g_thread_list, tvars, val, suspended, halted, claim, passed>>
    BY DEF pthread_self
<1>1. TypeOK'  BY <1>a, <1>b, <1>c, NullAssumption DEF IInv, TypeOK, PC
<1>2. IdlePart'  BY <1>a, <1>b, <1>c, NullAssumption DEF IInv, TypeOK, IdlePart
<1>3. SuspendPart'  BY <1>a, <1>b, <1>c, NullAssumption DEF IInv, TypeOK, SuspendPart
<1>4. FreePart'  BY <1>a, <1>b, <1>c, NullAssumption DEF IInv, TypeOK, FreePart
<1>5. CreatePart'  BY <1>a, <1>b, <1>c, NullAssumption DEF IInv, TypeOK, CreatePart
<1>6. LivePart'  BY <1>a, <1>b, <1>c, NullAssumption DEF IInv, TypeOK, SuspendPart, LivePart
<1>7. OrderPart'  BY <1>a, <1>b, <1>c, NullAssumption DEF IInv, TypeOK, OrderPart
<1>8. JoinPart'  BY <1>a, <1>b, <1>c, NullAssumption DEF IInv, TypeOK, JoinPart
<1>9. GivenPart'  BY <1>a, <1>b, <1>c, NullAssumption DEF IInv, TypeOK, GivenPart
<1>10. DetachPart'  BY <1>a, <1>b, <1>c, NullAssumption DEF IInv, TypeOK, DetachPart
<1>11. ValuePart'  BY <1>a, <1>b, <1>c, NullAssumption DEF IInv, TypeOK, ValuePart
<1>12. RegistryAllocated'  BY <1>a, <1>b, <1>c, NullAssumption DEF IInv, TypeOK, RegistryAllocated
<1>13. RegistryComplete'  BY <1>a, <1>b, <1>c, NullAssumption, SMTT(60) DEF IInv, TypeOK, RegistryComplete
<1>14. JoinedValue'  BY <1>a, <1>b, <1>c, NullAssumption DEF IInv, TypeOK, JoinedValue
<1> QED BY <1>1, <1>2, <1>3, <1>4, <1>5, <1>6, <1>7, <1>8, <1>9, <1>10, <1>11, <1>12, <1>13, <1>14 DEF IInv

\* t->detached = 1 on a descriptor that is still allocated.
LEMMA DetachSetKeeps ==
    ASSUME IInv, NEW k \in Tcb, DetachSet(k)
    PROVE  IInv'
<1>1. TypeOK'  BY NullAssumption DEF IInv, TypeOK, PC, DetachSet
<1>2. IdlePart'  BY NullAssumption DEF IInv, TypeOK, IdlePart, DetachSet
<1>3. SuspendPart'  BY NullAssumption DEF IInv, TypeOK, IdlePart, SuspendPart, DetachSet
<1>4. FreePart'  BY NullAssumption DEF IInv, TypeOK, IdlePart, DetachPart, FreePart, DetachSet
<1>5. CreatePart'  BY NullAssumption DEF IInv, TypeOK, IdlePart, DetachPart, CreatePart, DetachSet
<1>6. LivePart'  BY NullAssumption DEF IInv, TypeOK, IdlePart, DetachPart, LivePart, DetachSet
<1>7. OrderPart'  BY NullAssumption DEF IInv, TypeOK, IdlePart, OrderPart, DetachSet
<1>8. JoinPart'  BY NullAssumption DEF IInv, TypeOK, IdlePart, JoinPart, DetachSet
<1>9. GivenPart'  BY NullAssumption DEF IInv, TypeOK, IdlePart, GivenPart, DetachSet
<1>10. DetachPart'  BY NullAssumption DEF IInv, TypeOK, IdlePart, DetachPart, DetachSet
<1>11. ValuePart'  BY NullAssumption DEF IInv, TypeOK, IdlePart, ValuePart, DetachSet
<1>12. RegistryAllocated'
    BY NullAssumption DEF IInv, TypeOK, IdlePart, RegistryAllocated, DetachSet
<1>13. RegistryComplete'  BY NullAssumption, SMTT(60) DEF IInv, TypeOK, IdlePart, RegistryComplete, DetachSet
<1>14. JoinedValue'  BY NullAssumption DEF IInv, TypeOK, IdlePart, JoinedValue, DetachSet
<1> QED BY <1>1, <1>2, <1>3, <1>4, <1>5, <1>6, <1>7, <1>8, <1>9, <1>10, <1>11, <1>12, <1>13, <1>14 DEF IInv

\* pthread_exit records the value it is given.
LEMMA ExitCallKeeps ==
    ASSUME IInv, NEW k \in Tcb, NEW v \in Value, ExitCall(k, v)
    PROVE  IInv'
<1>1. TypeOK'  BY NullAssumption DEF IInv, TypeOK, PC, ExitCall
<1>2. IdlePart'  BY NullAssumption DEF IInv, TypeOK, IdlePart, ExitCall
<1>3. SuspendPart'  BY NullAssumption DEF IInv, TypeOK, IdlePart, SuspendPart, ExitCall
<1>4. FreePart'  BY NullAssumption DEF IInv, TypeOK, IdlePart, FreePart, ExitCall
<1>5. CreatePart'  BY NullAssumption DEF IInv, TypeOK, IdlePart, CreatePart, ExitCall
<1>6. LivePart'  BY NullAssumption DEF IInv, TypeOK, IdlePart, LivePart, ExitCall
<1>7. OrderPart'  BY NullAssumption DEF IInv, TypeOK, IdlePart, OrderPart, ExitCall
<1>8. JoinPart'  BY NullAssumption DEF IInv, TypeOK, IdlePart, JoinPart, ExitCall
<1>9. GivenPart'  BY NullAssumption DEF IInv, TypeOK, IdlePart, GivenPart, ExitCall
<1>10. DetachPart'  BY NullAssumption DEF IInv, TypeOK, IdlePart, DetachPart, ExitCall
<1>11. ValuePart'
    BY NullAssumption DEF IInv, TypeOK, IdlePart, LivePart, JoinPart, GivenPart, ValuePart,
        ExitCall
<1>12. RegistryAllocated'  BY NullAssumption DEF IInv, TypeOK, IdlePart, RegistryAllocated, ExitCall
<1>13. RegistryComplete'  BY NullAssumption, SMTT(60) DEF IInv, TypeOK, IdlePart, RegistryComplete, ExitCall
<1>14. JoinedValue'
    BY NullAssumption DEF IInv, TypeOK, IdlePart, JoinPart, LivePart, JoinedValue, ExitCall
<1> QED BY <1>1, <1>2, <1>3, <1>4, <1>5, <1>6, <1>7, <1>8, <1>9, <1>10, <1>11, <1>12, <1>13, <1>14 DEF IInv

\* pthread_exit finds the descriptor of the thread that called it.
LEMMA ExitFindKeeps ==
    ASSUME IInv, NEW k \in Tcb, ExitFind(k)
    PROVE  IInv'
<1>a. Live(k) /\ InList(param[k]) /\ param[k] \in heap /\ param[k] \in Desc
    BY DEF IInv, TypeOK, IdlePart, LivePart, SuspendPart, ExitFind
<1>b. t' = [t EXCEPT ![k] = param[k]] /\ pc' = [pc EXCEPT ![k] = "exit_retval"]
    BY <1>a, FindSelf, NullAssumption DEF ExitFind
<1>c. pc[k] = "exit_find" /\ status[k] = "ready"
      /\ UNCHANGED <<dvars, g_thread_list, tvars, val, suspended, halted, claim, passed>>
    BY DEF ExitFind
<1>1. TypeOK'  BY <1>a, <1>b, <1>c, NullAssumption DEF IInv, TypeOK, PC
<1>2. IdlePart'  BY <1>a, <1>b, <1>c, NullAssumption DEF IInv, TypeOK, IdlePart
<1>3. SuspendPart'  BY <1>a, <1>b, <1>c, NullAssumption DEF IInv, TypeOK, SuspendPart
<1>4. FreePart'  BY <1>a, <1>b, <1>c, NullAssumption DEF IInv, TypeOK, FreePart
<1>5. CreatePart'  BY <1>a, <1>b, <1>c, NullAssumption DEF IInv, TypeOK, CreatePart
<1>6. LivePart'  BY <1>a, <1>b, <1>c, NullAssumption DEF IInv, TypeOK, SuspendPart, LivePart
<1>7. OrderPart'  BY <1>a, <1>b, <1>c, NullAssumption DEF IInv, TypeOK, OrderPart
<1>8. JoinPart'  BY <1>a, <1>b, <1>c, NullAssumption DEF IInv, TypeOK, JoinPart
<1>9. GivenPart'  BY <1>a, <1>b, <1>c, NullAssumption DEF IInv, TypeOK, GivenPart
<1>10. DetachPart'  BY <1>a, <1>b, <1>c, NullAssumption DEF IInv, TypeOK, DetachPart
<1>11. ValuePart'  BY <1>a, <1>b, <1>c, NullAssumption DEF IInv, TypeOK, ValuePart
<1>12. RegistryAllocated'  BY <1>a, <1>b, <1>c, NullAssumption DEF IInv, TypeOK, RegistryAllocated
<1>13. RegistryComplete'  BY <1>a, <1>b, <1>c, NullAssumption, SMTT(60) DEF IInv, TypeOK, RegistryComplete
<1>14. JoinedValue'  BY <1>a, <1>b, <1>c, NullAssumption DEF IInv, TypeOK, JoinedValue
<1> QED BY <1>1, <1>2, <1>3, <1>4, <1>5, <1>6, <1>7, <1>8, <1>9, <1>10, <1>11, <1>12, <1>13, <1>14 DEF IInv

\* t->retval = retval in the thread's own descriptor.
LEMMA ExitRetvalKeeps ==
    ASSUME IInv, NEW k \in Tcb, ExitRetval(k)
    PROVE  IInv'
<1>1. TypeOK'  BY NullAssumption DEF IInv, TypeOK, PC, ExitRetval
<1>2. IdlePart'  BY NullAssumption DEF IInv, TypeOK, IdlePart, ExitRetval
<1>3. SuspendPart'  BY NullAssumption DEF IInv, TypeOK, IdlePart, SuspendPart, ExitRetval
<1>4. FreePart'  BY NullAssumption DEF IInv, TypeOK, IdlePart, FreePart, ExitRetval
<1>5. CreatePart'  BY NullAssumption DEF IInv, TypeOK, IdlePart, CreatePart, ExitRetval
<1>6. LivePart'  BY NullAssumption DEF IInv, TypeOK, IdlePart, LivePart, ExitRetval
<1>7. OrderPart'  BY NullAssumption DEF IInv, TypeOK, IdlePart, OrderPart, ExitRetval
<1>8. JoinPart'  BY NullAssumption DEF IInv, TypeOK, IdlePart, JoinPart, ExitRetval
<1>9. GivenPart'  BY NullAssumption DEF IInv, TypeOK, IdlePart, GivenPart, ExitRetval
<1>10. DetachPart'  BY NullAssumption DEF IInv, TypeOK, IdlePart, DetachPart, ExitRetval
<1>11. ValuePart'
    BY NullAssumption DEF IInv, TypeOK, IdlePart, LivePart, GivenPart, JoinPart, ValuePart,
        ExitRetval
<1>12. RegistryAllocated'
    BY NullAssumption DEF IInv, TypeOK, IdlePart, RegistryAllocated, ExitRetval
<1>13. RegistryComplete'  BY NullAssumption, SMTT(60) DEF IInv, TypeOK, IdlePart, RegistryComplete, ExitRetval
<1>14. JoinedValue'  BY NullAssumption DEF IInv, TypeOK, IdlePart, JoinedValue, ExitRetval
<1> QED BY <1>1, <1>2, <1>3, <1>4, <1>5, <1>6, <1>7, <1>8, <1>9, <1>10, <1>11, <1>12, <1>13, <1>14 DEF IInv

\* The read of t->detached in pthread_exit.
LEMMA ExitCheckKeeps ==
    ASSUME IInv, NEW k \in Tcb, ExitCheck(k)
    PROVE  IInv'
<1>1. TypeOK'  BY NullAssumption DEF IInv, TypeOK, PC, ExitCheck
<1>2. IdlePart'  BY NullAssumption DEF IInv, TypeOK, IdlePart, ExitCheck
<1>3. SuspendPart'  BY NullAssumption DEF IInv, TypeOK, IdlePart, SuspendPart, ExitCheck
<1>4. FreePart'  BY NullAssumption DEF IInv, TypeOK, IdlePart, FreePart, ExitCheck
<1>5. CreatePart'  BY NullAssumption DEF IInv, TypeOK, IdlePart, CreatePart, ExitCheck
<1>6. LivePart'  BY NullAssumption DEF IInv, TypeOK, IdlePart, LivePart, ExitCheck
<1>7. OrderPart'  BY NullAssumption DEF IInv, TypeOK, IdlePart, OrderPart, ExitCheck
<1>8. JoinPart'  BY NullAssumption DEF IInv, TypeOK, IdlePart, JoinPart, ExitCheck
<1>9. GivenPart'  BY NullAssumption DEF IInv, TypeOK, IdlePart, GivenPart, ExitCheck
<1>10. DetachPart'  BY NullAssumption DEF IInv, TypeOK, IdlePart, DetachPart, ExitCheck
<1>11. ValuePart'  BY NullAssumption DEF IInv, TypeOK, IdlePart, ValuePart, ExitCheck
<1>12. RegistryAllocated'
    BY NullAssumption DEF IInv, TypeOK, IdlePart, RegistryAllocated, ExitCheck
<1>13. RegistryComplete'  BY NullAssumption, SMTT(60) DEF IInv, TypeOK, IdlePart, RegistryComplete, ExitCheck
<1>14. JoinedValue'  BY NullAssumption DEF IInv, TypeOK, IdlePart, JoinedValue, ExitCheck
<1> QED BY <1>1, <1>2, <1>3, <1>4, <1>5, <1>6, <1>7, <1>8, <1>9, <1>10, <1>11, <1>12, <1>13, <1>14 DEF IInv

\* A detached thread unlinks its own descriptor.
LEMMA ExitRemoveKeeps ==
    ASSUME IInv, NEW k \in Tcb, ExitRemove(k)
    PROVE  IInv'
<1> DEFINE d == t[k]
<1>a. d \in heap /\ d \in Desc /\ pc[k] = "exit_remove" /\ remove_thread(d)
      /\ claim[d] = "detach" /\ status[k] = "ready" /\ param[k] = d
    BY DEF IInv, TypeOK, IdlePart, LivePart, DetachPart, ExitRemove
<1>b. /\ g_thread_list' \in Seq(Desc)
      /\ \A e \in Desc : InList(e)' <=> InList(e) /\ e # d
      /\ \A i \in 1..Len(g_thread_list') : g_thread_list'[i] \in heap
      /\ \A i, j \in 1..Len(g_thread_list') : g_thread_list'[i] = g_thread_list'[j] => i = j
    BY <1>a, RemoveFacts DEF IInv
<1>o. \A i, j \in 1..Len(g_thread_list') : \E m, n \in 1..Len(g_thread_list) :
         /\ g_thread_list'[i] = g_thread_list[m] /\ g_thread_list'[j] = g_thread_list[n]
         /\ m <= n => i <= j
    BY <1>a, RemoveFacts DEF IInv
<1>c. pc' = [pc EXCEPT ![k] = "exit_semdel"]
      /\ UNCHANGED <<dvars, tvars, t, val, suspended, halted, claim, passed>>
    BY DEF ExitRemove
<1> HIDE DEF d
<1>1. TypeOK'  BY <1>b, <1>c DEF IInv, TypeOK, PC
<1>2. IdlePart'  BY <1>a, <1>c DEF IInv, TypeOK, IdlePart
<1>3. SuspendPart'  BY <1>a, <1>c DEF IInv, TypeOK, SuspendPart
<1>4. FreePart'  BY <1>b, <1>c DEF IInv, TypeOK, FreePart
<1>5. CreatePart'
  <2>1. \A l \in Tcb : pc[l] \in CreatePC => t[l] \in Desc /\ t[l] # d
      BY <1>a DEF IInv, TypeOK, CreatePart
  <2>2. \A l \in Tcb : pc[l] \in CreatePC => (InList(t[l])' <=> InList(t[l]))
      BY <1>b, <1>c, <2>1
  <2> HIDE DEF InList
  <2> QED BY <1>a, <1>c, <2>2, NullAssumption DEF IInv, TypeOK, IdlePart, CreatePart
<1>6. LivePart'
  <2>0. \A l \in Tcb : Live(l) /\ l # k => param[l] \in Desc /\ param[l] # d
      BY <1>a DEF IInv, TypeOK, LivePart, DetachPart, d
  <2>1. \A l \in Tcb : Live(l) /\ l # k => (InList(param[l])' <=> InList(param[l]))
      BY <1>b, <1>c, <2>0
  <2>2. ~InList(param[k])'
      BY <1>a, <1>b, <1>c
  <2> HIDE DEF InList
  <2> QED BY <1>a, <1>c, <2>1, <2>2, NullAssumption DEF IInv, TypeOK, IdlePart, SuspendPart, LivePart
<1>7. OrderPart'
  <2> SUFFICES ASSUME NEW l \in Tcb, NEW i \in 1..Len(g_thread_list'), NEW j \in 1..Len(g_thread_list'),
                      Live(l)', g_thread_list'[j] = param'[l], xTask'[g_thread_list'[i]] = l
               PROVE  j <= i
      BY DEF OrderPart
  <2>1. Live(l) /\ param'[l] = param[l] /\ xTask' = xTask
      BY <1>a, <1>c DEF IInv, TypeOK
  <2>2. PICK m, n \in 1..Len(g_thread_list) :
           /\ g_thread_list'[j] = g_thread_list[m] /\ g_thread_list'[i] = g_thread_list[n]
           /\ m <= n => j <= i
      BY <1>o, Zenon
  <2> QED BY <2>1, <2>2 DEF IInv, OrderPart
<1>8. JoinPart'
  <2>1. \A l \in Tcb : pc[l] \in JoinPC =>
           t[l] \in Desc /\ (InList(t[l])' => InList(t[l])) /\ (t[l] = d => ~InList(t[l])')
      BY <1>a, <1>b, <1>c DEF IInv, TypeOK, JoinPart
  <2> HIDE DEF InList
  <2> QED BY <1>a, <1>c, <2>1, NullAssumption DEF IInv, TypeOK, IdlePart, JoinPart, d
<1>9. GivenPart'
    BY <1>a, <1>c, NullAssumption DEF IInv, TypeOK, GivenPart
<1>10. DetachPart'
    BY <1>a, <1>c, NullAssumption DEF IInv, TypeOK, DetachPart
<1>11. ValuePart'
    BY <1>a, <1>c, NullAssumption DEF IInv, TypeOK, ValuePart
<1>12. RegistryAllocated'
    BY <1>b, <1>c DEF RegistryAllocated
<1>13. RegistryComplete'
  <2> HIDE DEF InList
  <2> QED BY <1>a, <1>b, <1>c DEF IInv, TypeOK, RegistryComplete, d
<1>14. JoinedValue'
    BY <1>a, <1>c DEF IInv, TypeOK, JoinedValue, ValuePart
<1> QED BY <1>1, <1>2, <1>3, <1>4, <1>5, <1>6, <1>7, <1>8, <1>9, <1>10, <1>11, <1>12, <1>13, <1>14 DEF IInv

\* A detached thread deletes its own semaphore.
LEMMA ExitSemDeleteKeeps ==
    ASSUME IInv, NEW k \in Tcb, ExitSemDelete(k)
    PROVE  IInv'
<1>1. TypeOK'  BY NullAssumption DEF IInv, TypeOK, PC, ExitSemDelete, vSemaphoreDelete
<1>2. IdlePart'  BY NullAssumption DEF IInv, TypeOK, IdlePart, ExitSemDelete, vSemaphoreDelete
<1>3. SuspendPart'
    BY NullAssumption DEF IInv, TypeOK, IdlePart, SuspendPart, ExitSemDelete, vSemaphoreDelete
<1>4. FreePart'
    BY NullAssumption DEF IInv, TypeOK, IdlePart, FreePart, ExitSemDelete, vSemaphoreDelete
<1>5. CreatePart'
    BY NullAssumption DEF IInv, TypeOK, IdlePart, LivePart, CreatePart, ExitSemDelete,
        vSemaphoreDelete
<1>6. LivePart'
    BY NullAssumption DEF IInv, TypeOK, IdlePart, LivePart, ExitSemDelete, vSemaphoreDelete
<1>7. OrderPart'
    BY NullAssumption DEF IInv, TypeOK, IdlePart, OrderPart, ExitSemDelete, vSemaphoreDelete
<1>8. JoinPart'
    BY NullAssumption DEF IInv, TypeOK, IdlePart, LivePart, DetachPart, JoinPart,
        ExitSemDelete, vSemaphoreDelete
<1>9. GivenPart'
    BY NullAssumption DEF IInv, TypeOK, IdlePart, LivePart, DetachPart, GivenPart,
        ExitSemDelete, vSemaphoreDelete
<1>10. DetachPart'
    BY NullAssumption DEF IInv, TypeOK, IdlePart, DetachPart, ExitSemDelete, vSemaphoreDelete
<1>11. ValuePart'
    BY NullAssumption DEF IInv, TypeOK, IdlePart, ValuePart, ExitSemDelete, vSemaphoreDelete
<1>12. RegistryAllocated'
    BY NullAssumption DEF IInv, TypeOK, IdlePart, RegistryAllocated, ExitSemDelete,
        vSemaphoreDelete
<1>13. RegistryComplete'
    BY NullAssumption, SMTT(60) DEF IInv, TypeOK, IdlePart, RegistryComplete, ExitSemDelete,
        vSemaphoreDelete
<1>14. JoinedValue'
    BY NullAssumption DEF IInv, TypeOK, IdlePart, JoinedValue, ExitSemDelete, vSemaphoreDelete
<1> QED BY <1>1, <1>2, <1>3, <1>4, <1>5, <1>6, <1>7, <1>8, <1>9, <1>10, <1>11, <1>12, <1>13, <1>14 DEF IInv

\* A detached thread frees its own descriptor, which nobody else can use.
LEMMA ExitFreeKeeps ==
    ASSUME IInv, NEW k \in Tcb, ExitFree(k)
    PROVE  IInv'
<1>1. TypeOK'  BY NullAssumption DEF IInv, TypeOK, PC, ExitFree, Free
<1>2. IdlePart'  BY NullAssumption DEF IInv, TypeOK, IdlePart, ExitFree, Free
<1>3. SuspendPart'  BY NullAssumption DEF IInv, TypeOK, IdlePart, SuspendPart, ExitFree, Free
<1>4. FreePart'  BY NullAssumption DEF IInv, TypeOK, IdlePart, LivePart, FreePart, ExitFree, Free
<1>5. CreatePart'
  <2>1. \A l \in Tcb : pc[l] \in CreatePC => t[l] # t[k] /\ l # k
      BY NullAssumption DEF IInv, CreatePart, CreatePC, LivePart, DetachPart, Live, IdlePart, ExitPC,
          ExitFree, Goto, At, Running
  <2>2. heap' = heap \ {t[k]} /\ t' = t /\ param' = param /\ suspended' = suspended
      BY DEF ExitFree, Free, tvars
  <2>3. \A l \in Tcb : l # k => pc'[l] = pc[l]
      BY DEF IInv, TypeOK, ExitFree, Goto
  <2> QED BY <2>1, <2>2, <2>3, NullAssumption, SMTT(60)
          DEF IInv, TypeOK, IdlePart, CreatePart, ExitFree, Free
<1>6. LivePart'  BY NullAssumption DEF IInv, TypeOK, IdlePart, LivePart, ExitFree, Free
<1>7. OrderPart'  BY NullAssumption DEF IInv, TypeOK, IdlePart, OrderPart, ExitFree, Free
<1>8. JoinPart'
    BY NullAssumption DEF IInv, TypeOK, IdlePart, LivePart, DetachPart, JoinPart, ExitFree, Free
<1>9. GivenPart'  BY NullAssumption DEF IInv, TypeOK, IdlePart, GivenPart, ExitFree, Free
<1>10. DetachPart'
    BY NullAssumption, SMTT(60) DEF IInv, TypeOK, IdlePart, LivePart, DetachPart, ExitFree, Free
<1>11. ValuePart'
    BY NullAssumption DEF IInv, TypeOK, IdlePart, LivePart, DetachPart, JoinPart, ValuePart,
        ExitFree, Free
<1>12. RegistryAllocated'
    BY NullAssumption DEF IInv, TypeOK, IdlePart, LivePart, RegistryAllocated, ExitFree, Free
<1>13. RegistryComplete'
    BY NullAssumption, SMTT(60) DEF IInv, TypeOK, IdlePart, RegistryComplete, ExitFree, Free
<1>14. JoinedValue'
    BY NullAssumption DEF IInv, TypeOK, IdlePart, LivePart, DetachPart, JoinPart, JoinedValue,
        ExitFree, Free
<1> QED BY <1>1, <1>2, <1>3, <1>4, <1>5, <1>6, <1>7, <1>8, <1>9, <1>10, <1>11, <1>12, <1>13, <1>14 DEF IInv

\* xSemaphoreGive is the thread's last use of its descriptor.
LEMMA ExitGiveKeeps ==
    ASSUME IInv, NEW k \in Tcb, ExitGive(k)
    PROVE  IInv'
<1>1. TypeOK'  BY NullAssumption DEF IInv, TypeOK, PC, ExitGive
<1>2. IdlePart'  BY NullAssumption DEF IInv, TypeOK, IdlePart, ExitGive
<1>3. SuspendPart'  BY NullAssumption DEF IInv, TypeOK, IdlePart, SuspendPart, ExitGive
<1>4. FreePart'  BY NullAssumption DEF IInv, TypeOK, IdlePart, LivePart, FreePart, ExitGive
<1>5. CreatePart'
    BY NullAssumption DEF IInv, TypeOK, IdlePart, LivePart, SuspendPart, CreatePart, ExitGive
<1>6. LivePart'  BY NullAssumption DEF IInv, TypeOK, IdlePart, LivePart, ExitGive
<1>7. OrderPart'  BY NullAssumption DEF IInv, TypeOK, IdlePart, OrderPart, ExitGive
<1>8. JoinPart'  BY NullAssumption DEF IInv, TypeOK, IdlePart, LivePart, JoinPart, ExitGive
<1>9. GivenPart'
    BY NullAssumption DEF IInv, TypeOK, IdlePart, LivePart, DetachPart, GivenPart, ExitGive
<1>10. DetachPart'  BY NullAssumption DEF IInv, TypeOK, IdlePart, DetachPart, ExitGive
<1>11. ValuePart'  BY NullAssumption DEF IInv, TypeOK, IdlePart, LivePart, ValuePart, ExitGive
<1>12. RegistryAllocated'  BY NullAssumption DEF IInv, TypeOK, IdlePart, RegistryAllocated, ExitGive
<1>13. RegistryComplete'  BY NullAssumption, SMTT(60) DEF IInv, TypeOK, IdlePart, RegistryComplete, ExitGive
<1>14. JoinedValue'  BY NullAssumption DEF IInv, TypeOK, IdlePart, JoinedValue, ExitGive
<1> QED BY <1>1, <1>2, <1>3, <1>4, <1>5, <1>6, <1>7, <1>8, <1>9, <1>10, <1>11, <1>12, <1>13, <1>14 DEF IInv

\* vTaskDelete(NULL).
LEMMA ExitDeleteKeeps ==
    ASSUME IInv, NEW k \in Tcb, ExitDelete(k)
    PROVE  IInv'
<1>1. TypeOK'  BY NullAssumption DEF IInv, TypeOK, PC, ExitDelete
<1>2. IdlePart'  BY NullAssumption DEF IInv, TypeOK, IdlePart, ExitDelete
<1>3. SuspendPart'  BY NullAssumption DEF IInv, TypeOK, IdlePart, SuspendPart, ExitDelete
<1>4. FreePart'  BY NullAssumption DEF IInv, TypeOK, IdlePart, FreePart, ExitDelete
<1>5. CreatePart'  BY NullAssumption DEF IInv, TypeOK, IdlePart, CreatePart, ExitDelete
<1>6. LivePart'
    BY NullAssumption DEF IInv, TypeOK, IdlePart, SuspendPart, CreatePart, LivePart, ExitDelete
<1>7. OrderPart'  BY NullAssumption DEF IInv, TypeOK, IdlePart, OrderPart, ExitDelete
<1>8. JoinPart'  BY NullAssumption DEF IInv, TypeOK, IdlePart, JoinPart, ExitDelete
<1>9. GivenPart'  BY NullAssumption DEF IInv, TypeOK, IdlePart, GivenPart, ExitDelete
<1>10. DetachPart'  BY NullAssumption DEF IInv, TypeOK, IdlePart, DetachPart, ExitDelete
<1>11. ValuePart'  BY NullAssumption DEF IInv, TypeOK, IdlePart, ValuePart, ExitDelete
<1>12. RegistryAllocated'
    BY NullAssumption DEF IInv, TypeOK, IdlePart, RegistryAllocated, ExitDelete
<1>13. RegistryComplete'  BY NullAssumption, SMTT(60) DEF IInv, TypeOK, IdlePart, RegistryComplete, ExitDelete
<1>14. JoinedValue'  BY NullAssumption DEF IInv, TypeOK, IdlePart, JoinedValue, ExitDelete
<1> QED BY <1>1, <1>2, <1>3, <1>4, <1>5, <1>6, <1>7, <1>8, <1>9, <1>10, <1>11, <1>12, <1>13, <1>14 DEF IInv

\* The idle task frees a TCB.
LEMMA IdleFreeKeeps ==
    ASSUME IInv, NEW k \in Tcb, IdleFree(k)
    PROVE  IInv'
<1>1. TypeOK'  BY NullAssumption DEF IInv, TypeOK, PC, IdleFree
<1>2. IdlePart'  BY NullAssumption DEF IInv, TypeOK, IdlePart, IdleFree
<1>3. SuspendPart'  BY NullAssumption DEF IInv, TypeOK, IdlePart, SuspendPart, IdleFree
<1>4. FreePart'  BY NullAssumption DEF IInv, TypeOK, IdlePart, FreePart, IdleFree
<1>5. CreatePart'  BY NullAssumption DEF IInv, TypeOK, IdlePart, CreatePart, IdleFree
<1>6. LivePart'  BY NullAssumption DEF IInv, TypeOK, IdlePart, LivePart, IdleFree
<1>7. OrderPart'  BY NullAssumption DEF IInv, TypeOK, IdlePart, OrderPart, IdleFree
<1>8. JoinPart'  BY NullAssumption DEF IInv, TypeOK, IdlePart, JoinPart, IdleFree
<1>9. GivenPart'  BY NullAssumption DEF IInv, TypeOK, IdlePart, GivenPart, IdleFree
<1>10. DetachPart'  BY NullAssumption DEF IInv, TypeOK, IdlePart, DetachPart, IdleFree
<1>11. ValuePart'  BY NullAssumption DEF IInv, TypeOK, IdlePart, ValuePart, IdleFree
<1>12. RegistryAllocated'  BY NullAssumption DEF IInv, TypeOK, IdlePart, RegistryAllocated, IdleFree
<1>13. RegistryComplete'  BY NullAssumption, SMTT(60) DEF IInv, TypeOK, IdlePart, RegistryComplete, IdleFree
<1>14. JoinedValue'  BY NullAssumption DEF IInv, TypeOK, IdlePart, JoinedValue, IdleFree
<1> QED BY <1>1, <1>2, <1>3, <1>4, <1>5, <1>6, <1>7, <1>8, <1>9, <1>10, <1>11, <1>12, <1>13, <1>14 DEF IInv

\* A task that is not a POSIX thread takes a TCB address.
LEMMA NativeTaskCreateKeeps ==
    ASSUME IInv, NEW k \in Tcb, NEW c \in Tcb, NativeTaskCreate(k, c)
    PROVE  IInv'
<1>1. TypeOK'  BY NullAssumption DEF IInv, TypeOK, PC, NativeTaskCreate
<1>2. IdlePart'  BY NullAssumption DEF IInv, TypeOK, IdlePart, NativeTaskCreate
<1>3. SuspendPart'  BY NullAssumption DEF IInv, TypeOK, IdlePart, SuspendPart, NativeTaskCreate
<1>4. FreePart'  BY NullAssumption DEF IInv, TypeOK, IdlePart, FreePart, NativeTaskCreate
<1>5. CreatePart'  BY NullAssumption DEF IInv, TypeOK, IdlePart, CreatePart, NativeTaskCreate
<1>6. LivePart'  BY NullAssumption DEF IInv, TypeOK, IdlePart, LivePart, NativeTaskCreate
<1>7. OrderPart'  BY NullAssumption DEF IInv, TypeOK, IdlePart, OrderPart, NativeTaskCreate
<1>8. JoinPart'  BY NullAssumption DEF IInv, TypeOK, IdlePart, JoinPart, NativeTaskCreate
<1>9. GivenPart'  BY NullAssumption DEF IInv, TypeOK, IdlePart, GivenPart, NativeTaskCreate
<1>10. DetachPart'  BY NullAssumption DEF IInv, TypeOK, IdlePart, DetachPart, NativeTaskCreate
<1>11. ValuePart'  BY NullAssumption DEF IInv, TypeOK, IdlePart, ValuePart, NativeTaskCreate
<1>12. RegistryAllocated'
    BY NullAssumption, SMTT(60) DEF IInv, TypeOK, IdlePart, RegistryAllocated, NativeTaskCreate
<1>13. RegistryComplete'
    BY NullAssumption, SMTT(60) DEF IInv, TypeOK, IdlePart, RegistryComplete, NativeTaskCreate
<1>14. JoinedValue'  BY NullAssumption DEF IInv, TypeOK, IdlePart, JoinedValue, NativeTaskCreate
<1> QED BY <1>1, <1>2, <1>3, <1>4, <1>5, <1>6, <1>7, <1>8, <1>9, <1>10, <1>11, <1>12, <1>13, <1>14 DEF IInv


-----------------------------------------------------------------------------

\* What the invariant says about dereferences.
LEMMA IInvNoUseAfterFree == IInv => NoUseAfterFree
<1> SUFFICES ASSUME IInv, NEW k \in Tcb, status[k] = "ready"
             PROVE  /\ pc[k] \in DerefPC => t[k] \in heap
                    /\ pc[k] = "detach_set" /\ t[k] # NoDesc => t[k] \in heap
                    /\ pc[k] = "start" => param[k] \in heap
                    /\ pc[k] \in SemPC => join_sem[t[k]] # "deleted"
    BY DEF NoUseAfterFree
<1>1. CASE pc[k] \in CreatePC
    BY <1>1 DEF IInv, CreatePart, SemPC
<1>2. CASE pc[k] \in JoinPC
    BY <1>2 DEF IInv, JoinPart, SemPC
<1>3. CASE pc[k] \in ExitPC
    BY <1>3 DEF IInv, IdlePart, LivePart, SemPC, DerefPC
<1>4. CASE pc[k] \in {"start", "run", "self", "detach_set"}
    BY <1>4 DEF IInv, IdlePart, LivePart, DetachPart, SemPC, DerefPC
<1> QED BY <1>1, <1>2, <1>3, <1>4 DEF IInv, TypeOK, PC

\* What the invariant says about look-ups.
LEMMA IInvSelfIdentifies == IInv => SelfIdentifies
<1> SUFFICES ASSUME IInv, NEW k \in Tcb, Running(k), param[k] # NoDesc,
                    pc[k] \notin {"exit_semdel", "exit_free", "exit_delete"}
             PROVE  find_thread(k) = param[k]
    BY DEF SelfIdentifies
<1>1. Live(k)
    OBVIOUS
<1>2. InList(param[k])
    BY <1>1 DEF IInv, LivePart, SuspendPart, TypeOK
<1> QED BY <1>1, <1>2, FindSelf

-----------------------------------------------------------------------------
(* The theorems.                                                           *)

\* Every step of every task keeps the invariant.
LEMMA NextIInv == IInv /\ [Next]_vars => IInv'
<1> SUFFICES ASSUME IInv, [Next]_vars PROVE IInv'
    OBVIOUS
<1>1. CASE UNCHANGED vars
    BY <1>1 DEF vars, IInv, TypeOK, PC, IdlePart, SuspendPart, FreePart, CreatePart, LivePart,
        OrderPart, JoinPart, GivenPart, DetachPart, ValuePart, RegistryAllocated,
        RegistryComplete, JoinedValue
<1>2. ASSUME NEW k \in Tcb, ShimStep(k)  PROVE IInv'
    BY <1>2, CreateSemKeeps, CreateSuspendKeeps, CreateTaskKeeps, CreateAddKeeps,
        CreateResumeKeeps, CreateSemFailsKeeps, CreateTaskFailsKeeps, UndoSemKeeps, UndoFreeKeeps,
        JoinTakeKeeps, JoinRetvalKeeps, JoinRemoveKeeps, JoinSemDeleteKeeps, JoinFreeKeeps,
        pthread_selfKeeps, DetachSetKeeps, WrapperStartKeeps, ExitFindKeeps, ExitRetvalKeeps,
        ExitCheckKeeps, ExitRemoveKeeps, ExitSemDeleteKeeps, ExitFreeKeeps, ExitGiveKeeps,
        ExitDeleteKeeps
    DEF ShimStep
<1>3. ASSUME NEW k \in Tcb, ClientCall(k)  PROVE IInv'
    BY <1>3, CreateAllocKeeps, JoinCallKeeps, DetachCallKeeps, SelfCallKeeps, ExitCallKeeps,
        NativeTaskCreateKeeps
    DEF ClientCall
<1> QED BY <1>1, <1>2, <1>3, AllocHaltsKeeps, IdleFreeKeeps DEF Next

\* The invariant holds in every reachable state.
THEOREM InvariantHolds == Spec => []IInv
BY InitIInv, NextIInv, PTL DEF Spec

\* Every variable of the shim keeps its type, for any number of threads:
\* the registry stays a list of descriptors, and every task is at a statement
\* of the shim.
THEOREM TypeCorrect == Spec => []TypeOK
<1>1. IInv => TypeOK
    BY DEF IInv
<1> QED BY <1>1, InvariantHolds, PTL

\* No task ever dereferences a freed descriptor or a deleted join semaphore,
\* whoever joins, detaches or exits, in whatever order: join_sem is given as
\* the exiting thread's last access, and one party reclaims.
THEOREM MemorySafe == Spec => []NoUseAfterFree
BY InvariantHolds, IInvNoUseAfterFree, PTL

\* find_thread(xTaskGetCurrentTaskHandle()) is the caller's own descriptor,
\* although TCB addresses come back while exited threads are still listed.
THEOREM SelfCorrect == Spec => []SelfIdentifies
BY InvariantHolds, IInvSelfIdentifies, PTL

\* The registry links each of its descriptors once and links none that was freed.
THEOREM RegistrySound == Spec => []RegistryAllocated
<1>1. IInv => RegistryAllocated
    BY DEF IInv
<1> QED BY <1>1, InvariantHolds, PTL

\* The registry misses no descriptor that the client has a handle of.
THEOREM RegistryCorrect == Spec => []RegistryComplete
<1>1. IInv => RegistryComplete
    BY DEF IInv
<1> QED BY <1>1, InvariantHolds, PTL

\* pthread_join delivers the value its thread passed to pthread_exit.
THEOREM JoinCorrect == Spec => []JoinedValue
<1>1. IInv => JoinedValue
    BY DEF IInv
<1> QED BY <1>1, InvariantHolds, PTL

-----------------------------------------------------------------------------
(* Nothing leaks where threads detach only themselves.                     *)

\* The arrays a step changes at its task.
LEMMA LeakTypes ==
    ASSUME IInv
    PROVE  /\ pc \in [Tcb -> PC] /\ t \in [Tcb -> Desc \cup {NoDesc}] /\ param \in [Tcb -> Desc \cup {NoDesc}]
           /\ status \in [Tcb -> {"free", "ready", "terminated"}] /\ heap \subseteq Desc
           /\ claim \in [Desc -> {"private", "open", "join", "detach"}] /\ detached \in [Desc -> BOOLEAN]
  BY DEF IInv, TypeOK

\* No task but k is disturbed.
Alone(k) ==
    \A e \in Tcb : e # k /\ status[e] = "ready" =>
        status'[e] = "ready" /\ pc'[e] = pc[e] /\ t'[e] = t[e] /\ param'[e] = param[e]

\* What is known of a descriptor outside X stays true of it.
KeepsOwners(k, X) ==
    \A d \in heap' \ X : /\ d \in heap /\ claim'[d] = claim[d] /\ (detached[d] => detached'[d])
                         /\ Creates(k, d) => Creates(k, d)'
                         /\ Reclaims(k, d) => Reclaims(k, d)'

\* Descriptors stay owned where a step of k disturbs nobody else.
LEMMA LeakFrame ==
    ASSUME IInv, LeakPart, NEW k \in Tcb, NEW X, Alone(k), KeepsOwners(k, X),
           \A d \in heap' \cap X : \/ claim'[d] \in {"open", "join"}
                                   \/ claim'[d] = "private" /\ Creates(k, d)'
                                   \/ claim'[d] = "detach" /\ Reclaims(k, d)'
    PROVE  LeakPart'
<1> SUFFICES ASSUME NEW d \in heap'
             PROVE  /\ claim'[d] = "private" => \E c \in Tcb : Creates(c, d)'
                    /\ claim'[d] = "detach" => \E c \in Tcb : Reclaims(c, d)'
    BY DEF LeakPart
<1>1. CASE d \in X
    BY <1>1
<1>2. CASE d \notin X
  <2>1. /\ d \in heap /\ claim'[d] = claim[d] /\ (detached[d] => detached'[d])
        /\ Creates(k, d) => Creates(k, d)'
        /\ Reclaims(k, d) => Reclaims(k, d)'
      BY <1>2 DEF KeepsOwners
  <2>2. ASSUME NEW c \in Tcb, Creates(c, d) PROVE Creates(c, d)'
      BY <2>1, <2>2 DEF Alone, Creates
  <2>3. ASSUME NEW c \in Tcb, Reclaims(c, d) PROVE Reclaims(c, d)'
      BY <2>1, <2>3 DEF Alone, Reclaims
  <2> QED BY <2>1, <2>2, <2>3 DEF LeakPart
<1> QED BY <1>1, <1>2

\* A step of k inside a call that neither ends the call nor frees anything.
LEMMA LeakGoesOn ==
    ASSUME IInv, LeakPart, NEW k \in Tcb, Alone(k), UNCHANGED <<heap, claim, detached, t>>,
           status[k] = "ready" => status'[k] = "ready", param'[k] = param[k],
           pc[k] \notin {"self", "detach_set"}, pc'[k] \notin {"exit_give", "exit_delete"},
           pc[k] \in CreatePC => pc'[k] \in CreatePC
    PROVE  LeakPart'
<1>1. KeepsOwners(k, {})
    BY DEF KeepsOwners, Creates, Reclaims
<1> QED BY <1>1, LeakFrame

\* pthread_create goes on with the descriptor it has allocated.
LEMMA CreateGoesOnOwns ==
    ASSUME IInv, LeakPart, NEW k \in Tcb,
           CreateSem(k) \/ CreateSuspend(k) \/ CreateAdd(k) \/ CreateSemFails(k) \/ CreateTaskFails(k) \/ UndoSem(k)
    PROVE  LeakPart'
<1>1. /\ Alone(k) /\ UNCHANGED <<heap, claim, detached, t>> /\ status'[k] = status[k] /\ param'[k] = param[k]
      /\ pc[k] \notin {"self", "detach_set"} /\ pc'[k] \notin {"exit_give", "exit_delete"}
      /\ pc[k] \in CreatePC => pc'[k] \in CreatePC
    <2>1. CASE CreateSem(k)
        BY <2>1, LeakTypes DEF CreateSem, Goto, At, Alone, CreatePC, dvars, tvars
    <2>2. CASE CreateSuspend(k)
        BY <2>2, LeakTypes DEF CreateSuspend, Goto, At, Alone, CreatePC, dvars, tvars
    <2>3. CASE CreateAdd(k)
        BY <2>3, LeakTypes DEF CreateAdd, Goto, At, Alone, CreatePC, dvars, tvars
    <2>4. CASE CreateSemFails(k)
        BY <2>4, LeakTypes DEF CreateSemFails, Goto, At, Alone, CreatePC, dvars, tvars
    <2>5. CASE CreateTaskFails(k)
        BY <2>5, LeakTypes DEF CreateTaskFails, Goto, At, Alone, CreatePC, dvars, tvars
    <2>6. CASE UndoSem(k)
        BY <2>6, LeakTypes DEF UndoSem, Goto, At, Alone, CreatePC, dvars, tvars, vSemaphoreDelete
    <2> QED BY <2>1, <2>2, <2>3, <2>4, <2>5, <2>6
<1> QED BY <1>1, LeakGoesOn

\* pthread_join goes on with the descriptor it has claimed.
LEMMA JoinGoesOnOwns ==
    ASSUME IInv, LeakPart, NEW k \in Tcb,
           JoinTake(k) \/ JoinRetval(k) \/ JoinRemove(k) \/ JoinSemDelete(k)
    PROVE  LeakPart'
<1>1. /\ Alone(k) /\ UNCHANGED <<heap, claim, detached, t>> /\ status'[k] = status[k] /\ param'[k] = param[k]
      /\ pc[k] \notin {"self", "detach_set"} /\ pc'[k] \notin {"exit_give", "exit_delete"}
      /\ pc[k] \in CreatePC => pc'[k] \in CreatePC
    <2>1. CASE JoinTake(k)
        BY <2>1, LeakTypes DEF JoinTake, Goto, At, Alone, CreatePC, dvars, tvars
    <2>2. CASE JoinRetval(k)
        BY <2>2, LeakTypes DEF JoinRetval, Goto, At, Alone, CreatePC, dvars, tvars
    <2>3. CASE JoinRemove(k)
        BY <2>3, LeakTypes DEF JoinRemove, Goto, At, Alone, CreatePC, dvars, tvars
    <2>4. CASE JoinSemDelete(k)
        BY <2>4, LeakTypes DEF JoinSemDelete, Goto, At, Alone, CreatePC, dvars, tvars, vSemaphoreDelete
    <2> QED BY <2>1, <2>2, <2>3, <2>4
<1> QED BY <1>1, LeakGoesOn

\* A thread begins, or goes on with pthread_exit.
LEMMA ExitGoesOnOwns ==
    ASSUME IInv, LeakPart, NEW k \in Tcb,
           WrapperStart(k) \/ ExitRetval(k) \/ ExitRemove(k) \/ ExitSemDelete(k)
    PROVE  LeakPart'
<1>1. /\ Alone(k) /\ UNCHANGED <<heap, claim, detached, t>> /\ status'[k] = status[k] /\ param'[k] = param[k]
      /\ pc[k] \notin {"self", "detach_set"} /\ pc'[k] \notin {"exit_give", "exit_delete"}
      /\ pc[k] \in CreatePC => pc'[k] \in CreatePC
    <2>1. CASE WrapperStart(k)
        BY <2>1, LeakTypes DEF WrapperStart, Goto, At, Alone, CreatePC, dvars, tvars
    <2>2. CASE ExitRetval(k)
        BY <2>2, LeakTypes DEF ExitRetval, Goto, At, Alone, CreatePC, dvars, tvars
    <2>3. CASE ExitRemove(k)
        BY <2>3, LeakTypes DEF ExitRemove, Goto, At, Alone, CreatePC, dvars, tvars
    <2>4. CASE ExitSemDelete(k)
        BY <2>4, LeakTypes DEF ExitSemDelete, Goto, At, Alone, CreatePC, dvars, tvars, vSemaphoreDelete
    <2> QED BY <2>1, <2>2, <2>3, <2>4
<1> QED BY <1>1, LeakGoesOn

\* The descriptor of a new call is owned by its creator.
LEMMA CreateAllocOwns ==
    ASSUME IInv, LeakPart, NEW k \in Tcb, NEW d \in Desc, CreateAlloc(k, d)
    PROVE  LeakPart'
<1>1. Alone(k) /\ pc[k] = "run" /\ pc'[k] = "create_sem" /\ t'[k] = d /\ status[k] = "ready"
    BY LeakTypes DEF CreateAlloc, Goto, At, Running, Alone, tvars
<1>2. heap' = heap \cup {d} /\ UNCHANGED <<claim, detached, status, param>>
    BY DEF CreateAlloc, tvars
<1>3. KeepsOwners(k, {d})
    BY <1>1, <1>2 DEF KeepsOwners, Creates, Reclaims, CreatePC
<1>4. Creates(k, d)'
    BY <1>1, <1>2 DEF Creates, CreatePC
<1>5. claim'[d] = "private"
    BY <1>2 DEF CreateAlloc, IInv, FreePart
<1> QED BY <1>1, <1>3, <1>4, <1>5, LeakFrame

\* xTaskCreate.
LEMMA CreateTaskOwns ==
    ASSUME IInv, LeakPart, NEW k \in Tcb, NEW c \in Tcb, CreateTask(k, c)
    PROVE  LeakPart'
<1>1. /\ Alone(k) /\ UNCHANGED <<heap, claim, detached, t>> /\ status'[k] = status[k] /\ param'[k] = param[k]
      /\ pc[k] \notin {"self", "detach_set"} /\ pc'[k] \notin {"exit_give", "exit_delete"}
      /\ pc[k] \in CreatePC => pc'[k] \in CreatePC
    BY LeakTypes DEF CreateTask, At, Running, Alone, CreatePC
<1> QED BY <1>1, LeakGoesOn

\* The client gets the handle.
LEMMA CreateResumeOwns ==
    ASSUME IInv, LeakPart, NEW k \in Tcb, CreateResume(k)
    PROVE  LeakPart'
<1>1. /\ Alone(k) /\ pc[k] = "create_resume" /\ pc'[k] = "run" /\ t[k] \in Desc
      /\ UNCHANGED <<heap, detached, status, param>> /\ claim' = [claim EXCEPT ![t[k]] = "open"]
    BY LeakTypes DEF CreateResume, Goto, At, Alone, dvars, tvars, IInv, CreatePart, CreatePC
<1>2. PICK d \in Desc : d = t[k]
    BY <1>1
<1>3. KeepsOwners(k, {d})
    BY <1>1, <1>2, LeakTypes DEF KeepsOwners, Creates, Reclaims
<1>4. claim'[d] = "open"
    BY <1>1, <1>2, LeakTypes
<1> QED BY <1>1, <1>3, <1>4, LeakFrame

\* A step of k that frees its descriptor.
LEMMA LeakFree ==
    ASSUME IInv, LeakPart, NEW k \in Tcb, Free(t[k]), Alone(k), UNCHANGED <<status, param>>,
           pc[k] \notin {"self", "detach_set"},
           pc'[k] \in {"exit_give", "exit_delete"} => param[k] = t[k]
    PROVE  LeakPart'
<1>1. heap' = heap \ {t[k]} /\ \A d \in Desc \ {t[k]} : claim'[d] = claim[d] /\ detached'[d] = detached[d]
    BY LeakTypes DEF Free
<1>2. KeepsOwners(k, {})
    BY <1>1, LeakTypes DEF KeepsOwners, Creates, Reclaims
<1> QED BY <1>2, LeakFrame

\* A failed pthread_create frees what it allocated.
LEMMA UndoFreeOwns == ASSUME IInv, LeakPart, NEW k \in Tcb, UndoFree(k) PROVE LeakPart'
<1>1. /\ Alone(k) /\ UNCHANGED <<status, param>> /\ pc[k] = "undo_free" /\ pc'[k] = "run" /\ Free(t[k])
    BY LeakTypes DEF UndoFree, Goto, At, Alone, tvars
<1> QED BY <1>1, LeakFree

\* pthread_join frees the descriptor it has joined.
LEMMA JoinFreeOwns == ASSUME IInv, LeakPart, NEW k \in Tcb, JoinFree(k) PROVE LeakPart'
<1>1. /\ Alone(k) /\ UNCHANGED <<status, param>> /\ pc[k] = "join_free" /\ pc'[k] = "run" /\ Free(t[k])
    BY LeakTypes DEF JoinFree, Goto, At, Alone, tvars
<1> QED BY <1>1, LeakFree

\* A detached thread frees its own descriptor.
LEMMA ExitFreeOwns == ASSUME IInv, LeakPart, NEW k \in Tcb, ExitFree(k) PROVE LeakPart'
<1>1. /\ Alone(k) /\ UNCHANGED <<status, param>> /\ pc[k] = "exit_free" /\ status[k] = "ready" /\ Free(t[k])
    BY LeakTypes DEF ExitFree, Goto, At, Running, Alone, tvars
<1>2. param[k] = t[k]
    BY <1>1 DEF IInv, IdlePart, LivePart, Live, ExitPC
<1> QED BY <1>1, <1>2, LeakFree

\* The client claims a handle for pthread_join.
LEMMA JoinCallOwns ==
    ASSUME IInv, LeakPart, NEW k \in Tcb, NEW d \in Desc, JoinCall(k, d)
    PROVE  LeakPart'
<1>1. /\ Alone(k) /\ pc[k] = "run" /\ pc'[k] = "join_take"
      /\ UNCHANGED <<heap, detached, status, param>> /\ claim' = [claim EXCEPT ![d] = "join"]
    BY LeakTypes DEF JoinCall, Goto, At, Alone, dvars, tvars
<1>2. KeepsOwners(k, {d})
    BY <1>1, LeakTypes DEF KeepsOwners, Creates, Reclaims, CreatePC
<1>3. claim'[d] = "join"
    BY <1>1, LeakTypes
<1> QED BY <1>1, <1>2, <1>3, LeakFrame

\* A thread claims its own handle for pthread_detach.
LEMMA SelfCallOwns ==
    ASSUME IInv, LeakPart, NEW k \in Tcb, SelfCall(k)
    PROVE  LeakPart'
<1>1. /\ Alone(k) /\ pc[k] = "run" /\ pc'[k] = "self" /\ status[k] = "ready" /\ param[k] \in Desc
      /\ UNCHANGED <<heap, detached, status, param, t>> /\ claim' = [claim EXCEPT ![param[k]] = "detach"]
    BY LeakTypes DEF SelfCall, Goto, At, Running, Alone, dvars, tvars
<1>2. PICK d \in Desc : d = param[k]
    BY <1>1
<1>3. KeepsOwners(k, {d})
    BY <1>1, <1>2, LeakTypes DEF KeepsOwners, Creates, Reclaims, CreatePC
<1>4. claim'[d] = "detach" /\ Reclaims(k, d)'
    BY <1>1, <1>2, LeakTypes DEF Reclaims
<1> QED BY <1>1, <1>3, <1>4, LeakFrame

\* pthread_self finds the caller's own descriptor.
LEMMA SelfOwns ==
    ASSUME IInv, LeakPart, NEW k \in Tcb, pthread_self(k)
    PROVE  LeakPart'
<1>1. /\ Alone(k) /\ pc[k] = "self" /\ pc'[k] = "detach_set" /\ status[k] = "ready" /\ Running(k)
      /\ UNCHANGED <<heap, detached, status, param, claim>> /\ t'[k] = find_thread(k)
    BY LeakTypes DEF pthread_self, Goto, At, Running, Alone, dvars, tvars
<1>2. param[k] # NoDesc => find_thread(k) = param[k]
    BY <1>1, IInvSelfIdentifies DEF SelfIdentifies
<1>3. \A d \in heap : d # NoDesc
    BY LeakTypes, NullAssumption
<1>4. KeepsOwners(k, {})
    BY <1>1, <1>2, <1>3 DEF KeepsOwners, Creates, Reclaims, CreatePC
<1> QED BY <1>1, <1>4, LeakFrame

\* t->detached = 1.
LEMMA DetachSetOwns ==
    ASSUME IInv, LeakPart, NEW k \in Tcb, DetachSet(k)
    PROVE  LeakPart'
<1>1. /\ Alone(k) /\ pc[k] = "detach_set" /\ pc'[k] = "run" /\ UNCHANGED <<heap, status, param, claim>>
      /\ detached' = IF t[k] = NoDesc THEN detached ELSE [detached EXCEPT ![t[k]] = TRUE]
    BY LeakTypes DEF DetachSet, Goto, At, Alone, tvars
<1>2. \A d \in heap : (detached[d] => detached'[d]) /\ (t[k] = d => detached'[d])
    BY <1>1, LeakTypes, NullAssumption
<1>3. KeepsOwners(k, {})
    BY <1>1, <1>2 DEF KeepsOwners, Creates, Reclaims, CreatePC
<1> QED BY <1>1, <1>3, LeakFrame

\* pthread_exit begins.
LEMMA ExitCallOwns ==
    ASSUME IInv, LeakPart, NEW k \in Tcb, NEW v, ExitCall(k, v)
    PROVE  LeakPart'
<1>1. /\ Alone(k) /\ UNCHANGED <<heap, claim, detached, t>> /\ status'[k] = status[k] /\ param'[k] = param[k]
      /\ pc[k] \notin {"self", "detach_set"} /\ pc'[k] \notin {"exit_give", "exit_delete"}
      /\ pc[k] \in CreatePC => pc'[k] \in CreatePC
    BY LeakTypes DEF ExitCall, Goto, At, Alone, CreatePC, dvars, tvars
<1> QED BY <1>1, LeakGoesOn

\* pthread_exit finds the caller's own descriptor.
LEMMA ExitFindOwns == ASSUME IInv, LeakPart, NEW k \in Tcb, ExitFind(k) PROVE LeakPart'
<1>1. /\ Alone(k) /\ pc[k] = "exit_find" /\ Running(k) /\ status[k] = "ready"
      /\ UNCHANGED <<heap, detached, status, param, claim>>
      /\ pc'[k] = IF find_thread(k) = NoDesc THEN "exit_delete" ELSE "exit_retval"
    BY LeakTypes DEF ExitFind, At, Running, Alone, dvars, tvars
<1>2. param[k] # NoDesc => find_thread(k) = param[k]
    BY <1>1, IInvSelfIdentifies DEF SelfIdentifies
<1>3. \A d \in heap : d # NoDesc
    BY LeakTypes, NullAssumption
<1>4. KeepsOwners(k, {})
    BY <1>1, <1>2, <1>3 DEF KeepsOwners, Creates, Reclaims, CreatePC
<1> QED BY <1>1, <1>4, LeakFrame

\* The test of t->detached sends a detached thread to free its descriptor.
LEMMA ExitCheckOwns == ASSUME IInv, LeakPart, NEW k \in Tcb, ExitCheck(k) PROVE LeakPart'
<1>1. /\ Alone(k) /\ pc[k] = "exit_check" /\ status[k] = "ready"
      /\ UNCHANGED <<heap, detached, status, param, claim, t>>
      /\ pc'[k] = IF detached[t[k]] THEN "exit_remove" ELSE "exit_give"
    BY LeakTypes DEF ExitCheck, At, Running, Alone, dvars, tvars
<1>2. t[k] = param[k]
    BY <1>1 DEF IInv, IdlePart, LivePart, Live, ExitPC
<1>3. KeepsOwners(k, {})
    BY <1>1, <1>2 DEF KeepsOwners, Creates, Reclaims, CreatePC
<1> QED BY <1>1, <1>3, LeakFrame

\* A thread that its joiner will reclaim ends.
LEMMA ExitEndsOwns ==
    ASSUME IInv, LeakPart, NEW k \in Tcb, ExitGive(k) \/ ExitDelete(k)
    PROVE  LeakPart'
<1>1. Alone(k) /\ pc[k] \in {"exit_give", "exit_delete"} /\ UNCHANGED <<heap, claim, detached>>
    BY LeakTypes DEF ExitGive, ExitDelete, Goto, At, Alone, dvars, tvars
<1>2. KeepsOwners(k, {})
    BY <1>1 DEF KeepsOwners, Creates, Reclaims, CreatePC
<1> QED BY <1>1, <1>2, LeakFrame

\* The heap is full, idle frees a TCB, or another task is created.
LEMMA OtherOwns ==
    ASSUME IInv, LeakPart, NEW k \in Tcb,
           AllocHalts(k) \/ IdleFree(k) \/ (\E c \in Tcb : NativeTaskCreate(k, c))
    PROVE  LeakPart'
<1>1. UNCHANGED <<heap, claim, detached, t, param>>
    BY DEF AllocHalts, IdleFree, NativeTaskCreate, dvars, tvars
<1>2. \A e \in Tcb : status[e] = "ready" => status'[e] = "ready" /\ pc'[e] = pc[e]
    BY LeakTypes DEF AllocHalts, IdleFree, NativeTaskCreate, tvars
<1>3. Alone(k) /\ KeepsOwners(k, {})
    BY <1>1, <1>2 DEF Alone, KeepsOwners, Creates, Reclaims
<1> QED BY <1>3, LeakFrame

\* Every step keeps every descriptor owned.
LEMMA NextOwns ==
    ASSUME DetachBy = "self", IInv, LeakPart, [Next]_vars
    PROVE  LeakPart'
<1>1. CASE UNCHANGED vars
    BY <1>1 DEF vars, dvars, tvars, LeakPart, Creates, Reclaims
<1>2. ASSUME NEW k \in Tcb, ShimStep(k) PROVE LeakPart'
    BY <1>2, CreateGoesOnOwns, CreateTaskOwns, CreateResumeOwns, UndoFreeOwns, JoinGoesOnOwns, JoinFreeOwns,
       SelfOwns, DetachSetOwns, ExitGoesOnOwns, ExitFindOwns, ExitCheckOwns, ExitFreeOwns, ExitEndsOwns
    DEF ShimStep
<1>3. ASSUME NEW k \in Tcb, ClientCall(k) PROVE LeakPart'
    <2>1. \A d \in Desc : ~DetachCall(k, d)
        BY DEF DetachCall
    <2> QED BY <1>3, <2>1, CreateAllocOwns, JoinCallOwns, SelfCallOwns, ExitCallOwns, OtherOwns DEF ClientCall
<1> QED BY <1>1, <1>2, <1>3, OtherOwns DEF Next

\* Where threads detach only themselves, as the application does, no descriptor is
\* ever lost: not by a pthread_create that fails half way, and not by a thread that
\* detaches itself and exits.
THEOREM NothingLeaks == ASSUME DetachBy = "self" PROVE Spec => []NoLeak
<1>1. Init => LeakPart
    <2> SUFFICES ASSUME Init PROVE LeakPart
        OBVIOUS
    <2>1. Reclaims(MainTcb, MainDesc)
        BY MainAssumption DEF Init, Reclaims
    <2> QED BY <2>1, MainAssumption DEF Init, LeakPart
<1>2. IInv /\ LeakPart /\ [Next]_vars => LeakPart'
    BY NextOwns
<1>3. IInv /\ LeakPart => NoLeak
    <2> SUFFICES ASSUME IInv, LeakPart, NEW d \in heap PROVE Owned(d)
        BY DEF NoLeak
    <2>1. claim[d] \in {"private", "open", "join", "detach"}
        BY LeakTypes
    <2> QED BY <2>1 DEF LeakPart, Creates, Reclaims, Owned
<1> QED BY <1>1, <1>2, <1>3, InvariantHolds, PTL DEF Spec

=============================================================================
