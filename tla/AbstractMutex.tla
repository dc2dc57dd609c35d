--------------------------- MODULE AbstractMutex ----------------------------
(***************************************************************************)
(* What a mutex promises to its tasks: each call takes effect in one step  *)
(* between its start and its return.  A lock gets a mutex that nobody owns *)
(* at that moment.  It fails only when its block time is over and the      *)
(* mutex has been owned since then; a lock that waits for ever never fails.*)
(* Only its owner releases a mutex.                                        *)
(***************************************************************************)

CONSTANTS Task, Mutex, NULL

VARIABLES
    exists,  \* per mutex
    owner,   \* per mutex: the task that has locked it, or NULL
    call,    \* per task: the mutex of the lock call it is in, or NULL
    left,    \* per task: how much of its block time is left
    found    \* per task: its time is over and it has found the mutex owned

vars == <<exists, owner, call, left, found>>

Init ==
    /\ exists = [m \in Mutex |-> TRUE]
    /\ owner = [m \in Mutex |-> NULL]
    /\ call = [t \in Task |-> NULL]
    /\ left = [t \in Task |-> "none"]
    /\ found = [t \in Task |-> FALSE]

-----------------------------------------------------------------------------

Create(m) ==
    /\ ~exists[m]
    /\ exists' = [exists EXCEPT ![m] = TRUE]
    /\ UNCHANGED <<owner, call, left, found>>

\* Only a mutex that nobody owns or waits for is destroyed.
Destroy(m) ==
    /\ exists[m] /\ owner[m] = NULL /\ \A t \in Task : call[t] # m
    /\ exists' = [exists EXCEPT ![m] = FALSE]
    /\ UNCHANGED <<owner, call, left, found>>

Call(t, m, w) ==
    /\ call[t] = NULL /\ exists[m]
    /\ call' = [call EXCEPT ![t] = m]
    /\ left' = [left EXCEPT ![t] = w]
    /\ UNCHANGED <<exists, owner, found>>

Return(t) ==
    /\ call' = [call EXCEPT ![t] = NULL]
    /\ left' = [left EXCEPT ![t] = "none"]
    /\ found' = [found EXCEPT ![t] = FALSE]

Acquire(t) ==
    /\ call[t] # NULL /\ owner[call[t]] = NULL
    /\ owner' = [owner EXCEPT ![call[t]] = t]
    /\ Return(t) /\ UNCHANGED exists

TimeOver(t) ==
    /\ left[t] = "some"
    /\ left' = [left EXCEPT ![t] = "none"]
    /\ UNCHANGED <<exists, owner, call, found>>

MayFail(t) == call[t] # NULL /\ left[t] = "none"

FindOwned(t) ==
    /\ MayFail(t) /\ owner[call[t]] # NULL
    /\ found' = [found EXCEPT ![t] = TRUE]
    /\ UNCHANGED <<exists, owner, call, left>>

Fail(t) ==
    /\ MayFail(t) /\ (found[t] \/ owner[call[t]] # NULL)
    /\ Return(t) /\ UNCHANGED <<exists, owner>>

Release(t, m) ==
    /\ call[t] = NULL /\ owner[m] = t
    /\ owner' = [owner EXCEPT ![m] = NULL]
    /\ UNCHANGED <<exists, call, left, found>>

Next ==
    \/ \E m \in Mutex : Create(m) \/ Destroy(m)
    \/ \E t \in Task : Acquire(t) \/ TimeOver(t) \/ FindOwned(t) \/ Fail(t)
    \/ \E t \in Task, m \in Mutex :
          Release(t, m) \/ \E w \in {"none", "some", "ever"} : Call(t, m, w)

Spec == Init /\ [][Next]_vars
=============================================================================
