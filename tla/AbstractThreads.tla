-------------------------- MODULE AbstractThreads ---------------------------
(***************************************************************************)
(* What the thread calls promise.  A handle names one thread from its      *)
(* creation on.  The thread ends once, with the value it has passed; a     *)
(* join waits for that, gets the value and uses the handle up; the handle  *)
(* of a detached thread may vanish with it.  Only then a handle comes back.*)
(***************************************************************************)

CONSTANTS Handle, Task, Value, NoHandle, NoValue, Main

VARIABLES
    thread,  \* per handle: none, live or ended
    value,   \* per handle: what its thread has passed to pthread_exit
    use,     \* per handle: none, open, join or detach
    joins,   \* per task: the handle of the join it is in
    got      \* per task: the value that this join has got

vars == <<thread, value, use, joins, got>>

Init ==
    /\ thread = [h \in Handle |-> IF h = Main THEN "live" ELSE "none"]
    /\ value = [h \in Handle |-> NoValue]
    /\ use = [h \in Handle |-> IF h = Main THEN "detach" ELSE "none"]
    /\ joins = [k \in Task |-> NoHandle]
    /\ got = [k \in Task |-> NoValue]

-----------------------------------------------------------------------------

Create(h) ==
    /\ thread[h] = "none"
    /\ thread' = [thread EXCEPT ![h] = "live"]
    /\ use' = [use EXCEPT ![h] = "open"]
    /\ UNCHANGED <<value, joins, got>>

\* The thread is on its way out.
Exit(h, v) ==
    /\ thread[h] = "live" /\ value[h] = NoValue
    /\ value' = [value EXCEPT ![h] = v]
    /\ UNCHANGED <<thread, use, joins, got>>

End(h) ==
    /\ thread[h] = "live" /\ value[h] # NoValue
    /\ thread' = [thread EXCEPT ![h] = "ended"]
    /\ UNCHANGED <<value, use, joins, got>>

\* The handle can be used again.
Forget(h) ==
    /\ thread' = [thread EXCEPT ![h] = "none"]
    /\ value' = [value EXCEPT ![h] = NoValue]
    /\ use' = [use EXCEPT ![h] = "none"]

Vanish(h) ==
    /\ thread[h] = "live" /\ value[h] # NoValue /\ use[h] = "detach"
    /\ Forget(h) /\ UNCHANGED <<joins, got>>

Detach(h) ==
    /\ use[h] = "open"
    /\ use' = [use EXCEPT ![h] = "detach"]
    /\ UNCHANGED <<thread, value, joins, got>>

Join(k, h) ==
    /\ joins[k] = NoHandle /\ use[h] = "open"
    /\ use' = [use EXCEPT ![h] = "join"]
    /\ joins' = [joins EXCEPT ![k] = h]
    /\ UNCHANGED <<thread, value, got>>

Await(k) ==
    /\ joins[k] # NoHandle /\ got[k] = NoValue /\ thread[joins[k]] = "ended"
    /\ got' = [got EXCEPT ![k] = value[joins[k]]]
    /\ UNCHANGED <<thread, value, use, joins>>

JoinReturns(k) ==
    /\ joins[k] # NoHandle /\ got[k] # NoValue
    /\ Forget(joins[k])
    /\ joins' = [joins EXCEPT ![k] = NoHandle]
    /\ got' = [got EXCEPT ![k] = NoValue]

Next ==
    \/ \E h \in Handle : Create(h) \/ End(h) \/ Vanish(h) \/ Detach(h) \/ \E v \in Value : Exit(h, v)
    \/ \E k \in Task : Await(k) \/ JoinReturns(k) \/ \E h \in Handle : Join(k, h)

Spec == Init /\ [][Next]_vars
=============================================================================
