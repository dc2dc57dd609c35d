------------------------ MODULE PosixThreadsRefines -------------------------
(***************************************************************************)
(* The thread half of posix_shim.c keeps the promises of AbstractThreads,  *)
(* for any number of threads, descriptors and task control blocks.         *)
(***************************************************************************)
EXTENDS PosixThreadsProofs

\* The steps of pthread_join at which it has its thread's value.
GotPC == {"join_remove", "join_semdel", "join_free"}

\* The abstract state, as PosixThreads maps it.
Thread == [d \in Desc |-> IF claim[d] = "private" THEN "none" ELSE IF Alive(d) THEN "live" ELSE "ended"]
Use    == [d \in Desc |-> IF claim[d] = "private" THEN "none" ELSE claim[d]]
Joins  == [k \in Tcb |-> IF pc[k] \in JoinPC THEN t[k] ELSE NoDesc]
Got    == [k \in Tcb |-> IF pc[k] \in GotPC THEN val[k] ELSE NoVal]

\* The types of what the abstract state is read off.
LEMMA HandleTypes ==
    ASSUME IInv
    PROVE  /\ pc \in [Tcb -> PC] /\ t \in [Tcb -> Desc \cup {NoDesc}] /\ param \in [Tcb -> Desc \cup {NoDesc}]
           /\ val \in [Tcb -> Value \cup {NoVal}] /\ passed \in [Desc -> Value \cup {NoVal}]
           /\ claim \in [Desc -> {"private", "open", "join", "detach"}]
           /\ xTask \in [Desc -> Tcb \cup {NoTcb}]
  BY DEF IInv, TypeOK

\* A thread is alive when a live task runs it.
LEMMA AliveIsLive ==
    ASSUME NEW d \in Desc
    PROVE  Alive(d) <=> \E k \in Tcb : Live(k) /\ param[k] = d
  BY NullAssumption DEF Alive, Live

-----------------------------------------------------------------------------
(* Steps that nobody outside the shim notices.                             *)

\* No call begins or ends, nothing is passed on, and no thread ends.
Hidden ==
    /\ UNCHANGED <<claim, passed>>
    /\ \A e \in Tcb : /\ Live(e)' <=> Live(e)
                      /\ Live(e) => param'[e] = param[e] /\ (pc'[e] \in ExitPC <=> pc[e] \in ExitPC)
    /\ \A e \in Tcb : /\ pc'[e] \in JoinPC <=> pc[e] \in JoinPC
                      /\ pc[e] \in JoinPC => t'[e] = t[e]
                      /\ pc'[e] \in GotPC <=> pc[e] \in GotPC
                      /\ pc[e] \in GotPC => val'[e] = val[e]

\* The same threads are alive.
LEMMA HiddenAlive ==
    ASSUME Hidden, NEW d \in Desc
    PROVE  Alive(d)' <=> Alive(d)
<1>1. Alive(d) <=> \E k \in Tcb : Live(k) /\ param[k] = d
    BY AliveIsLive
<1>2. Alive(d)' <=> \E k \in Tcb : Live(k)' /\ param'[k] = d
    BY NullAssumption DEF Alive, Live
<1> QED BY <1>1, <1>2 DEF Hidden

\* The threads and handles are what they were.
LEMMA HiddenMaps == ASSUME IInv, Hidden PROVE UNCHANGED AT!vars
<1>1. UNCHANGED <<Thread, Use, Joins, Got, passed>>
    BY HiddenAlive DEF Hidden, Thread, Use, Joins, Got
<1> QED BY <1>1 DEF AT!vars, Thread, Use, Joins, Got, GotPC

\* What has been passed stays with its thread.
LEMMA HiddenPassed == ASSUME PassedPart, Hidden PROVE PassedPart'
<1>1. \A d \in Desc : Alive(d)' <=> Alive(d)
    BY HiddenAlive
<1>2. UNCHANGED <<claim, passed>>
    BY DEF Hidden
<1>3. ASSUME NEW k \in Tcb, Live(k)' PROVE (passed[param[k]] # NoVal <=> pc[k] \in ExitPC)'
    BY <1>2, <1>3 DEF Hidden, PassedPart
<1> QED BY <1>1, <1>2, <1>3 DEF PassedPart

\* A task that hands a descriptor out holds the scheduler: nobody else runs.
LEMMA HandOutKept ==
    ASSUME IInv, IInv', HandOutPart, NEW k \in Tcb, Running(k) \/ suspended = NoTcb,
           \A e \in Tcb : pc'[e] = "create_resume" => pc[e] = "create_resume" /\ e # k
    PROVE  HandOutPart'
<1>1. \A e \in Tcb : pc[e] = "create_resume" => suspended = e /\ e # NoTcb
    BY NullAssumption DEF IInv, SuspendPart
<1> QED BY <1>1 DEF HandOutPart, Running

\* pthread_create up to xTaskCreate, and where it fails.
LEMMA CreateHidden ==
    ASSUME IInv, NEW k \in Tcb,
           \/ \E d \in Desc : CreateAlloc(k, d)
           \/ CreateSem(k) \/ CreateSuspend(k) \/ CreateAdd(k) \/ CreateSemFails(k)
           \/ CreateTaskFails(k) \/ UndoSem(k)
    PROVE  Hidden
<1>1. /\ UNCHANGED <<claim, passed, param, val>>
      /\ \A e \in Tcb \ {k} : pc'[e] = pc[e] /\ t'[e] = t[e]
      /\ pc[k] \in CreatePC \cup {"run"} /\ pc'[k] \in CreatePC
    BY HandleTypes DEF CreateAlloc, CreateSem, CreateSuspend, CreateAdd, CreateSemFails, CreateTaskFails,
        UndoSem, Goto, At, CreatePC, dvars, tvars
<1> QED BY <1>1 DEF Hidden, Live, CreatePC, JoinPC, ExitPC, GotPC

\* The descriptor of a pthread_create that has failed was nobody's.
LEMMA UndoFreeHidden ==
    ASSUME IInv, HandlePart, NEW k \in Tcb, UndoFree(k) PROVE Hidden
<1>1. t[k] \in Desc /\ claim[t[k]] = "private" /\ passed[t[k]] = NoVal
    BY DEF UndoFree, Goto, At, IInv, TypeOK, CreatePart, CreatePC, HandlePart, PassedPart
<1>2. UNCHANGED <<claim, passed, param, val>>
    BY <1>1, HandleTypes DEF UndoFree, Free, tvars
<1>3. /\ \A e \in Tcb \ {k} : pc'[e] = pc[e] /\ t'[e] = t[e]
      /\ pc[k] = "undo_free" /\ pc'[k] = "run"
    BY HandleTypes DEF UndoFree, Goto, At
<1> QED BY <1>2, <1>3 DEF Hidden, Live, JoinPC, ExitPC, GotPC

\* pthread_join waits, and cleans up behind its thread.
LEMMA JoinHidden ==
    ASSUME IInv, NEW k \in Tcb, JoinTake(k) \/ JoinRemove(k) \/ JoinSemDelete(k)
    PROVE  Hidden
<1>1. /\ UNCHANGED <<claim, passed, param, val, t>>
      /\ \A e \in Tcb \ {k} : pc'[e] = pc[e]
      /\ \/ pc[k] = "join_take" /\ pc'[k] = "join_retval"
         \/ pc[k] = "join_remove" /\ pc'[k] = "join_semdel"
         \/ pc[k] = "join_semdel" /\ pc'[k] = "join_free"
    BY HandleTypes DEF JoinTake, JoinRemove, JoinSemDelete, Goto, At, dvars, tvars
<1> QED BY <1>1 DEF Hidden, Live, JoinPC, ExitPC, GotPC

\* A thread begins, looks itself up or sets its mark.
LEMMA RunHidden ==
    ASSUME IInv, NEW k \in Tcb, WrapperStart(k) \/ pthread_self(k) \/ DetachSet(k)
    PROVE  Hidden
<1>1. /\ UNCHANGED <<claim, passed, param, val>>
      /\ \A e \in Tcb \ {k} : pc'[e] = pc[e] /\ t'[e] = t[e]
      /\ pc[k] \in {"start", "self", "detach_set"} /\ pc'[k] \in {"run", "detach_set"}
    BY HandleTypes DEF WrapperStart, pthread_self, DetachSet, Goto, At, dvars, tvars
<1> QED BY <1>1 DEF Hidden, Live, JoinPC, ExitPC, GotPC

\* pthread_exit up to the end of its thread.
LEMMA ExitHidden ==
    ASSUME IInv, NEW k \in Tcb, ExitRetval(k) \/ ExitCheck(k) \/ ExitRemove(k) \/ ExitSemDelete(k)
    PROVE  Hidden
<1>1. /\ UNCHANGED <<claim, passed, param, val, t>>
      /\ \A e \in Tcb \ {k} : pc'[e] = pc[e]
      /\ pc[k] \in ExitPC \ {"exit_delete"} /\ pc'[k] \in ExitPC \ {"exit_delete"}
    BY HandleTypes DEF ExitRetval, ExitCheck, ExitRemove, ExitSemDelete, Goto, At, ExitPC, dvars, tvars
<1> QED BY <1>1 DEF Hidden, Live, JoinPC, ExitPC, GotPC

\* pthread_exit never misses its own descriptor.
LEMMA ExitFindHidden == ASSUME IInv, NEW k \in Tcb, ExitFind(k) PROVE Hidden
<1>1. /\ UNCHANGED <<claim, passed, param, val>> /\ Running(k) /\ pc[k] = "exit_find"
      /\ \A e \in Tcb \ {k} : pc'[e] = pc[e] /\ t'[e] = t[e]
      /\ pc'[k] = IF find_thread(k) = NoDesc THEN "exit_delete" ELSE "exit_retval"
    BY HandleTypes DEF ExitFind, At, dvars, tvars
<1>2. param[k] # NoDesc
    BY <1>1 DEF IInv, IdlePart, Running
<1>3. pc'[k] = "exit_retval"
    BY <1>1, <1>2, IInvSelfIdentifies DEF SelfIdentifies
<1> QED BY <1>1, <1>3 DEF Hidden, Live, JoinPC, ExitPC, GotPC

\* A task is deleted, its TCB comes back, the heap is full.
LEMMA EndHidden ==
    ASSUME IInv, NEW k \in Tcb, ExitDelete(k) \/ IdleFree(k) \/ AllocHalts(k)
    PROVE  Hidden
<1>1. /\ UNCHANGED <<claim, passed>>
      /\ \A e \in Tcb \ {k} : pc'[e] = pc[e] /\ t'[e] = t[e] /\ param'[e] = param[e] /\ val'[e] = val[e]
      /\ \/ pc[k] = "exit_delete" /\ pc'[k] = "start" /\ param'[k] = NoDesc
         \/ pc'[k] = pc[k] /\ param'[k] = param[k] /\ t'[k] = t[k] /\ val'[k] = val[k]
    BY HandleTypes DEF ExitDelete, IdleFree, AllocHalts, Goto, At, dvars, tvars
<1> QED BY <1>1 DEF Hidden, Live, JoinPC, ExitPC, GotPC

\* A task that is not a POSIX thread is created.
LEMMA NativeHidden ==
    ASSUME IInv, NEW k \in Tcb, NEW c \in Tcb, NativeTaskCreate(k, c) PROVE Hidden
<1>1. /\ UNCHANGED <<claim, passed, param, val, t>>
      /\ \A e \in Tcb \ {c} : pc'[e] = pc[e]
      /\ pc[c] = "start" /\ pc'[c] = "run"
    BY HandleTypes DEF NativeTaskCreate, At, dvars, IInv, IdlePart
<1> QED BY <1>1 DEF Hidden, Live, JoinPC, ExitPC, GotPC

-----------------------------------------------------------------------------
(* Steps of pthread_create that the client notices.                        *)

\* xTaskCreate makes a task for a descriptor that is nobody's yet.
LEMMA CreateTaskMaps ==
    ASSUME IInv, HandlePart, NEW k \in Tcb, NEW c \in Tcb, CreateTask(k, c)
    PROVE  UNCHANGED AT!vars /\ PassedPart'
<1> PICK d \in Desc : d = t[k]
    BY DEF CreateTask, At, IInv, TypeOK, CreatePart, CreatePC
<1>1. claim[d] = "private" /\ passed[d] = NoVal /\ pc[c] = "start" /\ param[c] = NoDesc /\ k # c
    BY NullAssumption DEF CreateTask, At, Running, IInv, CreatePart, CreatePC, IdlePart, HandlePart, PassedPart
<1>2. /\ UNCHANGED <<claim, passed, t, val>> /\ param' = [param EXCEPT ![c] = d]
      /\ pc[k] = "create_task" /\ pc'[k] = "create_add" /\ pc'[c] = "start"
      /\ \A e \in Tcb \ {k, c} : pc'[e] = pc[e]
    BY <1>1, HandleTypes DEF CreateTask, At
<1>3. \A e \in Tcb \ {c} : param'[e] = param[e] /\ (Live(e)' <=> Live(e)) /\ (pc'[e] \in ExitPC <=> pc[e] \in ExitPC)
    BY <1>2, HandleTypes DEF Live, ExitPC
<1>4. param'[c] = d
    BY <1>2, HandleTypes
<1>5. \A b \in Desc \ {d} : Alive(b)' <=> Alive(b)
    BY <1>1, <1>2, <1>3, <1>4, NullAssumption DEF Alive
<1>6. UNCHANGED <<Thread, Use, Joins, Got, passed>>
    BY <1>1, <1>2, <1>5 DEF Thread, Use, Joins, Got, JoinPC, GotPC
<1>7. PassedPart'
    BY <1>1, <1>2, <1>3, <1>4, <1>5 DEF HandlePart, PassedPart, ExitPC
<1> QED BY <1>6, <1>7 DEF AT!vars, Thread, Use, Joins, Got, GotPC

\* *thread = t: the client has the handle of a thread that has not begun.
LEMMA CreateResumeMaps ==
    ASSUME IInv, HandlePart, NEW k \in Tcb, CreateResume(k)
    PROVE  (\E d \in Desc : AT!Create(d)) /\ PassedPart'
<1> PICK d \in Desc : d = t[k]
    BY DEF CreateResume, Goto, At, IInv, TypeOK, CreatePart, CreatePC
<1>1. claim[d] = "private" /\ claim' = [claim EXCEPT ![d] = "open"] /\ UNCHANGED <<passed, param, val>>
    BY DEF CreateResume, Goto, At, IInv, CreatePart, CreatePC, tvars
<1>2. pc[k] = "create_resume" /\ pc'[k] = "run" /\ \A e \in Tcb \ {k} : pc'[e] = pc[e] /\ t'[e] = t[e]
    BY HandleTypes DEF CreateResume, Goto, At
<1>3. Alive(d)
    BY <1>2 DEF HandlePart, HandOutPart, Alive
<1>4. \A b \in Desc : Alive(b)' <=> Alive(b)
    BY <1>1, <1>2 DEF Alive
<1>5. claim'[d] = "open" /\ \A b \in Desc \ {d} : claim'[b] = claim[b]
    BY <1>1, HandleTypes
<1>6. /\ Thread[d] = "none" /\ Thread' = [Thread EXCEPT ![d] = "live"]
      /\ Use' = [Use EXCEPT ![d] = "open"] /\ UNCHANGED <<passed, Joins, Got>>
    <2>1. Thread[d] = "none" /\ Thread' = [Thread EXCEPT ![d] = "live"]
        BY <1>1, <1>3, <1>4, <1>5 DEF Thread
    <2>2. Use' = [Use EXCEPT ![d] = "open"]
        BY <1>5 DEF Use
    <2>3. UNCHANGED <<Joins, Got>>
        BY <1>1, <1>2 DEF Joins, Got, JoinPC, GotPC
    <2> QED BY <1>1, <2>1, <2>2, <2>3
<1>7. PassedPart'
    <2>1. \A e \in Tcb : (Live(e)' <=> Live(e)) /\ (pc'[e] \in ExitPC <=> pc[e] \in ExitPC)
        BY <1>1, <1>2 DEF Live, ExitPC
    <2> QED BY <1>1, <1>3, <1>4, <1>5, <2>1 DEF HandlePart, PassedPart
<1>8. AT!Create(d)
    BY <1>6 DEF AT!Create, Thread, Use, Joins, Got, GotPC
<1> QED BY <1>7, <1>8

-----------------------------------------------------------------------------
(* Steps of pthread_exit.                                                  *)

\* A live thread has a handle, of its own.
LEMMA OwnHandle ==
    ASSUME IInv, NEW k \in Tcb, Live(k), pc[k] # "start"
    PROVE  /\ param[k] \in Desc /\ claim[param[k]] # "private" /\ Alive(param[k])
           /\ \A e \in Tcb : Live(e) /\ param[e] = param[k] => e = k
BY DEF IInv, TypeOK, LivePart, Live, Alive

\* A thread passes its value and is on its way out.
LEMMA ExitCallMaps ==
    ASSUME IInv, HandlePart, NEW k \in Tcb, NEW v \in Value, ExitCall(k, v)
    PROVE  (\E d \in Desc : AT!Exit(d, v)) /\ PassedPart'
<1>1. Live(k) /\ pc[k] = "run" /\ pc'[k] = "exit_find"
    BY HandleTypes DEF ExitCall, Goto, At, Live
<1> PICK d \in Desc : d = param[k]
    BY <1>1, OwnHandle
<1>2. claim[d] # "private" /\ Alive(d) /\ \A e \in Tcb : Live(e) /\ param[e] = d => e = k
    BY <1>1, OwnHandle
<1>3. passed[d] = NoVal /\ v # NoVal
    BY <1>1, NullAssumption DEF HandlePart, PassedPart, ExitPC
<1>4. /\ UNCHANGED <<claim, param, t>> /\ passed' = [passed EXCEPT ![d] = v]
      /\ \A e \in Tcb \ {k} : pc'[e] = pc[e] /\ val'[e] = val[e]
    BY HandleTypes DEF ExitCall, Goto, At, dvars, tvars
<1>5. \A b \in Desc : Alive(b)' <=> Alive(b)
    BY <1>1, <1>4 DEF Alive
<1>6. Thread[d] = "live" /\ UNCHANGED <<Thread, Use, Joins, Got>>
    BY <1>1, <1>2, <1>4, <1>5 DEF Thread, Use, Joins, Got, JoinPC, GotPC
<1>7. PassedPart'
    <2>1. passed'[d] = v /\ \A b \in Desc \ {d} : passed'[b] = passed[b]
        BY <1>4, HandleTypes
    <2>2. \A e \in Tcb : Live(e)' <=> Live(e)
        BY <1>1, <1>4 DEF Live
    <2>3. \A e \in Tcb : Live(e) => param[e] \in Desc
        BY HandleTypes DEF Live
    <2>4. pc'[k] \in ExitPC
        BY <1>1 DEF ExitPC
    <2> QED BY <1>2, <1>3, <1>4, <1>5, <2>1, <2>2, <2>3, <2>4 DEF HandlePart, PassedPart
<1>8. AT!Exit(d, v)
    BY <1>3, <1>4, <1>6 DEF AT!Exit, Thread, Use, Joins, Got, GotPC
<1> QED BY <1>7, <1>8

\* xSemaphoreGive is the last that a thread does with its descriptor.
LEMMA ExitGiveMaps ==
    ASSUME IInv, HandlePart, NEW k \in Tcb, ExitGive(k)
    PROVE  (\E d \in Desc : AT!End(d)) /\ PassedPart'
<1>1. Live(k) /\ pc[k] = "exit_give" /\ pc'[k] = "exit_delete"
    BY HandleTypes DEF ExitGive, Goto, At, Running, Live, IInv, IdlePart
<1> PICK d \in Desc : d = param[k]
    BY <1>1, OwnHandle
<1>2. claim[d] # "private" /\ Alive(d) /\ \A e \in Tcb : Live(e) /\ param[e] = d => e = k
    BY <1>1, OwnHandle
<1>3. passed[d] # NoVal
    BY <1>1 DEF HandlePart, PassedPart, ExitPC
<1>4. UNCHANGED <<claim, param, t, passed, val>> /\ \A e \in Tcb \ {k} : pc'[e] = pc[e]
    BY HandleTypes DEF ExitGive, Goto, At, tvars
<1>5. \A e \in Tcb : Live(e)' <=> Live(e) /\ e # k
    BY <1>1, <1>4 DEF Live
<1>6. ~Alive(d)' /\ \A b \in Desc \ {d} : Alive(b)' <=> Alive(b)
    BY <1>1, <1>2, <1>4, <1>5, NullAssumption DEF Alive, Live
<1>7. Thread[d] = "live" /\ Thread' = [Thread EXCEPT ![d] = "ended"] /\ UNCHANGED <<Use, Joins, Got>>
    BY <1>1, <1>2, <1>4, <1>6 DEF Thread, Use, Joins, Got, JoinPC, GotPC
<1>8. PassedPart'
    BY <1>3, <1>4, <1>5, <1>6 DEF HandlePart, PassedPart
<1>9. AT!End(d)
    BY <1>3, <1>4, <1>7 DEF AT!End, Thread, Use, Joins, Got, GotPC
<1> QED BY <1>8, <1>9

\* A thread that has found its mark frees its descriptor: its handle was detached.
LEMMA ExitFreeMaps ==
    ASSUME IInv, HandlePart, NEW k \in Tcb, ExitFree(k)
    PROVE  (\E d \in Desc : AT!Vanish(d)) /\ PassedPart'
<1>1. Live(k) /\ pc[k] = "exit_free" /\ pc'[k] = "exit_delete"
    BY HandleTypes DEF ExitFree, Goto, At, Running, Live, IInv, IdlePart
<1> PICK d \in Desc : d = param[k]
    BY <1>1, OwnHandle
<1>2. Alive(d) /\ \A e \in Tcb : Live(e) /\ param[e] = d => e = k
    BY <1>1, OwnHandle
<1>3. t[k] = d /\ claim[d] = "detach" /\ passed[d] # NoVal
    BY <1>1 DEF IInv, LivePart, DetachPart, HandlePart, PassedPart, ExitPC
<1>4. /\ UNCHANGED <<param, t, val>> /\ \A e \in Tcb \ {k} : pc'[e] = pc[e]
      /\ claim' = [claim EXCEPT ![d] = "private"] /\ passed' = [passed EXCEPT ![d] = NoVal]
    BY <1>3, HandleTypes DEF ExitFree, Free, Goto, At, tvars
<1>5. /\ claim'[d] = "private" /\ passed'[d] = NoVal
      /\ \A b \in Desc \ {d} : claim'[b] = claim[b] /\ passed'[b] = passed[b]
    BY <1>4, HandleTypes
<1>6. \A e \in Tcb : Live(e)' <=> Live(e) /\ e # k
    BY <1>1, <1>4 DEF Live
<1>7. \A b \in Desc \ {d} : Alive(b)' <=> Alive(b)
    BY <1>1, <1>4 DEF Alive
<1>8. /\ Thread[d] = "live" /\ Thread' = [Thread EXCEPT ![d] = "none"]
      /\ Use[d] = "detach" /\ Use' = [Use EXCEPT ![d] = "none"] /\ UNCHANGED <<Joins, Got>>
    <2>1. Thread[d] = "live" /\ Thread' = [Thread EXCEPT ![d] = "none"]
        BY <1>2, <1>3, <1>5, <1>7 DEF Thread
    <2>2. Use[d] = "detach" /\ Use' = [Use EXCEPT ![d] = "none"]
        BY <1>3, <1>5 DEF Use
    <2>3. UNCHANGED <<Joins, Got>>
        BY <1>1, <1>4 DEF Joins, Got, JoinPC, GotPC
    <2> QED BY <2>1, <2>2, <2>3
<1>9. PassedPart'
    <2>1. \A e \in Tcb : Live(e) => param[e] \in Desc
        BY HandleTypes DEF Live
    <2> QED BY <1>2, <1>4, <1>5, <1>6, <1>7, <2>1 DEF HandlePart, PassedPart
<1>10. AT!Vanish(d)
    BY <1>3, <1>4, <1>8 DEF AT!Vanish, AT!Forget, Thread, Use, Joins, Got, GotPC
<1> QED BY <1>9, <1>10

-----------------------------------------------------------------------------
(* The client uses a handle it has.                                        *)

\* A handle that changes from open to joined or detached.
LEMMA HandleUsed ==
    ASSUME IInv, HandlePart, NEW k \in Tcb, NEW d \in Desc, NEW how \in {"join", "detach"},
           claim[d] = "open", claim' = [claim EXCEPT ![d] = how], UNCHANGED <<passed, param, val>>,
           pc[k] = "run", pc'[k] \in {"self", "detach_set", "join_take"},
           \A e \in Tcb \ {k} : pc'[e] = pc[e] /\ t'[e] = t[e]
    PROVE  /\ UNCHANGED <<Thread, Got>> /\ Use[d] = "open" /\ Use' = [Use EXCEPT ![d] = how]
           /\ PassedPart'
<1>1. claim'[d] = how /\ \A b \in Desc \ {d} : claim'[b] = claim[b]
    BY HandleTypes
<1>2. \A b \in Desc : Alive(b)' <=> Alive(b)
    BY DEF Alive
<1>3. \A e \in Tcb : (Live(e)' <=> Live(e)) /\ (pc'[e] \in ExitPC <=> pc[e] \in ExitPC)
    BY DEF Live, ExitPC
<1>4. UNCHANGED <<Thread, Got>>
    BY <1>1, <1>2 DEF Thread, Got, GotPC
<1>5. Use[d] = "open" /\ Use' = [Use EXCEPT ![d] = how]
    BY <1>1 DEF Use
<1>6. PassedPart'
    BY <1>1, <1>2, <1>3 DEF HandlePart, PassedPart
<1> QED BY <1>4, <1>5, <1>6

\* pthread_detach, of any handle or of the caller's own.
LEMMA DetachCallMaps ==
    ASSUME IInv, HandlePart, NEW k \in Tcb, NEW d \in Desc,
           DetachCall(k, d) \/ (SelfCall(k) /\ d = param[k])
    PROVE  AT!Detach(d) /\ PassedPart'
<1>1. /\ claim[d] = "open" /\ claim' = [claim EXCEPT ![d] = "detach"] /\ UNCHANGED <<passed, param, val>>
      /\ pc[k] = "run" /\ pc'[k] \in {"self", "detach_set"}
      /\ \A e \in Tcb \ {k} : pc'[e] = pc[e] /\ t'[e] = t[e]
    BY HandleTypes DEF DetachCall, SelfCall, Goto, At, dvars, tvars
<1>2. /\ UNCHANGED <<Thread, Got>> /\ Use[d] = "open" /\ Use' = [Use EXCEPT ![d] = "detach"]
      /\ PassedPart'
    BY <1>1, HandleUsed
<1>3. UNCHANGED Joins
    BY <1>1 DEF Joins, JoinPC
<1> QED BY <1>1, <1>2, <1>3 DEF AT!Detach, Thread, Use, Joins, Got, GotPC

\* pthread_join takes a handle that nobody uses.
LEMMA JoinCallMaps ==
    ASSUME IInv, HandlePart, NEW k \in Tcb, NEW d \in Desc, JoinCall(k, d)
    PROVE  AT!Join(k, d) /\ PassedPart'
<1>1. /\ claim[d] = "open" /\ claim' = [claim EXCEPT ![d] = "join"] /\ UNCHANGED <<passed, param, val>>
      /\ pc[k] = "run" /\ pc'[k] = "join_take" /\ t'[k] = d
      /\ \A e \in Tcb \ {k} : pc'[e] = pc[e] /\ t'[e] = t[e]
    BY HandleTypes DEF JoinCall, Goto, At, dvars, tvars
<1>2. /\ UNCHANGED <<Thread, Got>> /\ Use[d] = "open" /\ Use' = [Use EXCEPT ![d] = "join"]
      /\ PassedPart'
    BY <1>1, HandleUsed
<1>3. Joins[k] = NoDesc /\ Joins' = [Joins EXCEPT ![k] = d]
    BY <1>1 DEF Joins, JoinPC
<1> QED BY <1>1, <1>2, <1>3 DEF AT!Join, Thread, Use, Joins, Got, GotPC

\* Past its take a join finds the value of a thread that has ended.
LEMMA JoinRetvalMaps ==
    ASSUME IInv, HandlePart, NEW k \in Tcb, JoinRetval(k)
    PROVE  AT!Await(k) /\ PassedPart'
<1> PICK d \in Desc : d = t[k]
    BY DEF JoinRetval, Goto, At, IInv, TypeOK, JoinPart, JoinPC
<1>1. /\ pc[k] = "join_retval" /\ pc'[k] = "join_remove" /\ UNCHANGED <<claim, passed, param, t>>
      /\ \A e \in Tcb \ {k} : pc'[e] = pc[e] /\ val'[e] = val[e]
      /\ val'[k] = retval[d]
    BY HandleTypes DEF JoinRetval, Goto, At, dvars, tvars
<1>2. claim[d] = "join" /\ retval[d] = passed[d] /\ ~Alive(d)
    BY <1>1, AliveIsLive DEF IInv, JoinPart, ValuePart, JoinPC
<1>3. \A b \in Desc : Alive(b)' <=> Alive(b)
    BY <1>1 DEF Alive
<1>4. UNCHANGED <<Thread, Use, Joins, passed>>
    BY <1>1, <1>3 DEF Thread, Use, Joins, JoinPC
<1>5. Thread[d] = "ended" /\ Joins[k] = d /\ Got[k] = NoVal
    BY <1>1, <1>2 DEF Thread, Joins, Got, JoinPC, GotPC
<1>6. Got' = [Got EXCEPT ![k] = passed[d]]
    BY <1>1, <1>2 DEF Got, GotPC
<1>7. PassedPart'
    <2>1. \A e \in Tcb : (Live(e)' <=> Live(e)) /\ (pc'[e] \in ExitPC <=> pc[e] \in ExitPC)
        BY <1>1 DEF Live, ExitPC
    <2> QED BY <1>1, <1>3, <2>1 DEF HandlePart, PassedPart
<1> QED BY <1>4, <1>5, <1>6, <1>7, NullAssumption DEF AT!Await, Thread, Use, Joins, Got, GotPC

\* A join returns with that value, and its handle is gone.
LEMMA JoinFreeMaps ==
    ASSUME IInv, HandlePart, NEW k \in Tcb, JoinFree(k)
    PROVE  AT!JoinReturns(k) /\ PassedPart'
<1> PICK d \in Desc : d = t[k]
    BY DEF JoinFree, Goto, At, IInv, TypeOK, JoinPart, JoinPC
<1>1. /\ pc[k] = "join_free" /\ pc'[k] = "run" /\ UNCHANGED param
      /\ \A e \in Tcb \ {k} : pc'[e] = pc[e] /\ val'[e] = val[e] /\ t'[e] = t[e]
      /\ claim' = [claim EXCEPT ![d] = "private"] /\ passed' = [passed EXCEPT ![d] = NoVal]
    BY HandleTypes DEF JoinFree, Free, Goto, At, tvars
<1>2. claim[d] = "join" /\ val[k] = passed[d] /\ ~Alive(d) /\ \A e \in Tcb : Live(e) => param[e] # d
    BY <1>1, AliveIsLive DEF IInv, JoinPart, JoinedValue, JoinPC
<1>3. passed[d] # NoVal
    BY <1>2 DEF HandlePart, PassedPart
<1>4. /\ claim'[d] = "private" /\ passed'[d] = NoVal
      /\ \A b \in Desc \ {d} : claim'[b] = claim[b] /\ passed'[b] = passed[b]
    BY <1>1, HandleTypes
<1>5. \A b \in Desc : Alive(b)' <=> Alive(b)
    BY <1>1 DEF Alive
<1>6. Joins[k] = d /\ Got[k] # NoVal
    BY <1>1, <1>2, <1>3 DEF Joins, Got, JoinPC, GotPC
<1>7. /\ Thread' = [Thread EXCEPT ![d] = "none"] /\ Use' = [Use EXCEPT ![d] = "none"]
      /\ Joins' = [Joins EXCEPT ![k] = NoDesc] /\ Got' = [Got EXCEPT ![k] = NoVal]
    <2>1. Thread' = [Thread EXCEPT ![d] = "none"] /\ Use' = [Use EXCEPT ![d] = "none"]
        BY <1>4, <1>5 DEF Thread, Use
    <2>2. Joins' = [Joins EXCEPT ![k] = NoDesc] /\ Got' = [Got EXCEPT ![k] = NoVal]
        BY <1>1 DEF Joins, Got, JoinPC, GotPC
    <2> QED BY <2>1, <2>2
<1>8. PassedPart'
    <2>1. \A e \in Tcb : (Live(e)' <=> Live(e)) /\ (pc'[e] \in ExitPC <=> pc[e] \in ExitPC)
        BY <1>1 DEF Live, ExitPC
    <2>2. \A e \in Tcb : Live(e) => param[e] \in Desc
        BY HandleTypes DEF Live
    <2> QED BY <1>1, <1>2, <1>4, <1>5, <2>1, <2>2 DEF HandlePart, PassedPart
<1>9. AT!Forget(Joins[k])
    BY <1>1, <1>6, <1>7 DEF AT!Forget, Thread, Use
<1>10. Joins[k] # NoDesc
    BY <1>6, NullAssumption
<1> QED BY <1>6, <1>7, <1>8, <1>9, <1>10 DEF AT!JoinReturns, Joins, Got, GotPC

-----------------------------------------------------------------------------
(* All steps together.                                                     *)

\* add_thread is the last step before the handle is given out.
LEMMA CreateAddHandsOut == ASSUME IInv, IInv', NEW k \in Tcb, CreateAdd(k) PROVE HandOutPart'
<1>1. /\ UNCHANGED <<xTask, param, t>> /\ pc[k] = "create_add" /\ pc'[k] = "create_resume"
      /\ \A e \in Tcb \ {k} : pc'[e] = pc[e]
    BY HandleTypes DEF CreateAdd, Goto, At, dvars, tvars
<1>2. xTask[t[k]] \in Tcb /\ param[xTask[t[k]]] = t[k] /\ pc[xTask[t[k]]] = "start"
    BY <1>1 DEF IInv, CreatePart, CreatePC
<1>3. \A e \in Tcb : pc'[e] = "create_resume" => e = k
    BY <1>1 DEF IInv, SuspendPart
<1> QED BY <1>1, <1>2, <1>3 DEF HandOutPart

\* No other step makes a task hand a descriptor out.
LEMMA ShimHandsOut ==
    ASSUME IInv, IInv', HandOutPart, NEW k \in Tcb, ShimStep(k)
    PROVE  HandOutPart'
<1>1. CASE CreateAdd(k)
    BY <1>1, CreateAddHandsOut
<1>2. CASE ~CreateAdd(k)
    <2>1. Running(k)
        BY DEF ShimStep, CreateSem, CreateSuspend, CreateTask, CreateAdd, CreateResume, CreateSemFails,
            CreateTaskFails, UndoSem, UndoFree, JoinTake, JoinRetval, JoinRemove, JoinSemDelete, JoinFree,
            pthread_self, DetachSet, WrapperStart, ExitFind, ExitRetval, ExitCheck, ExitRemove,
            ExitSemDelete, ExitFree, ExitGive, ExitDelete, Goto, At
    <2>2. \A e \in Tcb : pc'[e] = "create_resume" => pc[e] = "create_resume" /\ e # k
        BY <1>2, HandleTypes DEF ShimStep, CreateSem, CreateSuspend, CreateTask, CreateResume, CreateSemFails,
            CreateTaskFails, UndoSem, UndoFree, JoinTake, JoinRetval, JoinRemove, JoinSemDelete, JoinFree,
            pthread_self, DetachSet, WrapperStart, ExitFind, ExitRetval, ExitCheck, ExitRemove,
            ExitSemDelete, ExitFree, ExitGive, ExitDelete, Goto, At
    <2> QED BY <2>1, <2>2, HandOutKept
<1> QED BY <1>1, <1>2

\* Nor does a call that begins, or the rest of the system.
LEMMA OtherHandsOut ==
    ASSUME IInv, IInv', HandOutPart, NEW k \in Tcb, ClientCall(k) \/ AllocHalts(k) \/ IdleFree(k)
    PROVE  HandOutPart'
<1>1. Running(k) \/ suspended = NoTcb
    BY DEF ClientCall, CreateAlloc, JoinCall, DetachCall, SelfCall, ExitCall, NativeTaskCreate, AllocHalts,
        IdleFree, Goto, At
<1>2. \A e \in Tcb : pc'[e] = "create_resume" => pc[e] = "create_resume" /\ e # k
    BY HandleTypes DEF ClientCall, CreateAlloc, JoinCall, DetachCall, SelfCall, ExitCall, NativeTaskCreate,
        AllocHalts, IdleFree, Goto, At, IInv, IdlePart
<1> QED BY <1>1, <1>2, HandOutKept

\* Every step is a step of AbstractThreads or none, and keeps what that rests on.
LEMMA NextMaps ==
    IInv /\ IInv' /\ HandlePart /\ [Next]_vars => HandlePart' /\ [AT!Next]_AT!vars
<1> SUFFICES ASSUME IInv, IInv', HandlePart, [Next]_vars
             PROVE  HandOutPart' /\ PassedPart' /\ [AT!Next]_AT!vars
    BY DEF HandlePart
<1>0. HandOutPart /\ PassedPart /\ (Hidden => PassedPart' /\ UNCHANGED AT!vars)
    BY HiddenMaps, HiddenPassed DEF HandlePart
<1>1. CASE UNCHANGED vars
    <2>1. Hidden
        BY <1>1 DEF vars, tvars, Hidden, Live
    <2>2. HandOutPart'
        BY <1>0, <1>1 DEF vars, dvars, tvars, HandOutPart
    <2> QED BY <1>0, <2>1, <2>2
<1>2. ASSUME NEW k \in Tcb, ShimStep(k) PROVE HandOutPart' /\ PassedPart' /\ [AT!Next]_AT!vars
    <2>1. HandOutPart'
        BY <1>0, <1>2, ShimHandsOut
    <2>2. PassedPart' /\ [AT!Next]_AT!vars
        BY <1>0, <1>2, CreateHidden, CreateTaskMaps, CreateResumeMaps, UndoFreeHidden, JoinHidden,
           JoinRetvalMaps, JoinFreeMaps, RunHidden, ExitFindHidden, ExitHidden, ExitFreeMaps, ExitGiveMaps, EndHidden
        DEF ShimStep, AT!Next
    <2> QED BY <2>1, <2>2
<1>3. ASSUME NEW k \in Tcb, ClientCall(k) PROVE HandOutPart' /\ PassedPart' /\ [AT!Next]_AT!vars
    <2>1. HandOutPart'
        BY <1>0, <1>3, OtherHandsOut
    <2>2. ASSUME SelfCall(k) PROVE PassedPart' /\ [AT!Next]_AT!vars
        BY <2>2, DetachCallMaps, HandleTypes DEF SelfCall, AT!Next
    <2>3. PassedPart' /\ [AT!Next]_AT!vars
        BY <1>0, <1>3, <2>2, CreateHidden, JoinCallMaps, DetachCallMaps, ExitCallMaps, NativeHidden
        DEF ClientCall, AT!Next
    <2> QED BY <2>1, <2>3
<1>4. ASSUME NEW k \in Tcb, AllocHalts(k) \/ IdleFree(k) PROVE HandOutPart' /\ PassedPart' /\ [AT!Next]_AT!vars
    BY <1>0, <1>4, EndHidden, OtherHandsOut
<1> QED BY <1>1, <1>2, <1>3, <1>4 DEF Next

\* main_blinky's thread is the one thread, and detached.
LEMMA InitMaps == Init => AT!Init /\ HandlePart
<1> SUFFICES ASSUME Init PROVE AT!Init /\ HandlePart
    OBVIOUS
<1>1. \A d \in Desc : Alive(d) <=> d = MainDesc
    BY MainAssumption, NullAssumption DEF Init, Alive
<1>2. /\ Thread = [d \in Desc |-> IF d = MainDesc THEN "live" ELSE "none"]
      /\ Use = [d \in Desc |-> IF d = MainDesc THEN "detach" ELSE "none"]
    BY <1>1 DEF Init, Thread, Use
<1>3. Joins = [k \in Tcb |-> NoDesc] /\ Got = [k \in Tcb |-> NoVal]
    BY DEF Init, Joins, Got, JoinPC, GotPC
<1>4. HandlePart
    BY <1>1, MainAssumption, NullAssumption DEF Init, HandlePart, PassedPart, HandOutPart, Live, ExitPC
<1> QED BY <1>2, <1>3, <1>4 DEF Init, AT!Init, Thread, Use, Joins, Got, GotPC

\* The thread calls keep the promises of AbstractThreads, whoever creates, joins, detaches or
\* exits, in whatever order and with whatever TCB address: pthread_join returns once, after the
\* end of its thread and with the value passed to pthread_exit, and a handle comes back only
\* when its join has returned or its detached thread is done with it.
THEOREM ThreadsRefine == Spec => Refines
BY InitMaps, NextMaps, InvariantHolds, PTL DEF Spec, Refines, AT!Spec

=============================================================================
