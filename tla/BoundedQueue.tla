---------------------------- MODULE BoundedQueue ----------------------------
(***************************************************************************)
(* What a kernel queue promises to the tasks and interrupt handlers that   *)
(* share it: each call takes effect in one step between its start and its  *)
(* return.  A successful send adds one item and a successful receive takes *)
(* the first one; a call fails only after its block time, a receive only   *)
(* when the queue is empty at that moment, a send only when it found the   *)
(* queue full since it started.  A call that waits for ever never fails.   *)
(***************************************************************************)
EXTENDS Integers, Sequences

CONSTANTS Task, Msg, Length, MaxDelay

VARIABLES
    items,    \* the queue, first item first
    op,       \* per task: the call it is in, or "none"
    item,     \* per task: the caller's buffer
    wait,     \* per task: the block time of the call, MaxDelay for ever
    waited,   \* per task: ticks since the call, no more than its block time
    found,    \* per task: its send has found the queue full
    result    \* per task: how its last call returned

vars == <<items, op, item, wait, waited, found, result>>

Sends == {"back", "front", "overwrite"}

Init ==
    /\ items \in Seq(Msg) /\ Len(items) <= Length
    /\ op = [t \in Task |-> "none"]
    /\ item \in [Task -> Msg]
    /\ wait = [t \in Task |-> 0] /\ waited = [t \in Task |-> 0]
    /\ found = [t \in Task |-> FALSE]
    /\ result = [t \in Task |-> "none"]

-----------------------------------------------------------------------------

\* The queue after an item is put in it.
Put(o, m) ==
    CASE o = "back"      -> Append(items, m)
      [] o = "front"     -> <<m>> \o items
      [] o = "overwrite" -> <<m>>

Room(o) == o = "overwrite" \/ Len(items) < Length

Call(t, o, w, m) ==
    /\ op[t] = "none"
    /\ op' = [op EXCEPT ![t] = o]
    /\ wait' = [wait EXCEPT ![t] = w]
    /\ waited' = [waited EXCEPT ![t] = 0]
    /\ result' = [result EXCEPT ![t] = "none"]
    /\ item' = [item EXCEPT ![t] = m]
    /\ UNCHANGED <<items, found>>

Return(t, r) ==
    /\ op' = [op EXCEPT ![t] = "none"]
    /\ result' = [result EXCEPT ![t] = r]
    /\ found' = [found EXCEPT ![t] = FALSE]
    /\ wait' = [wait EXCEPT ![t] = 0] /\ waited' = [waited EXCEPT ![t] = 0]

Send(t) ==
    /\ op[t] \in Sends /\ Room(op[t])
    /\ items' = Put(op[t], item[t])
    /\ Return(t, "pass") /\ UNCHANGED item

Receive(t) ==
    /\ op[t] = "receive" /\ items # << >>
    /\ item' = [item EXCEPT ![t] = Head(items)]
    /\ items' = Tail(items)
    /\ Return(t, "pass")

FindFull(t) ==
    /\ op[t] \in Sends /\ ~Room(op[t])
    /\ found' = [found EXCEPT ![t] = TRUE]
    /\ UNCHANGED <<items, op, item, wait, waited, result>>

\* The block time is over.
MayFail(t) == wait[t] # MaxDelay /\ waited[t] = wait[t]

FailSend(t) ==
    /\ op[t] \in Sends /\ MayFail(t)
    /\ found[t] \/ ~Room(op[t])
    /\ Return(t, "fail") /\ UNCHANGED <<items, item>>

FailReceive(t) ==
    /\ op[t] = "receive" /\ MayFail(t)
    /\ items = << >>
    /\ Return(t, "fail") /\ UNCHANGED <<items, item>>

\* An interrupt handler's call, which never waits.
IsrSend(o, m) ==
    /\ Room(o)
    /\ items' = Put(o, m)
    /\ UNCHANGED <<op, item, wait, waited, found, result>>

IsrReceive ==
    /\ items # << >> /\ items' = Tail(items)
    /\ UNCHANGED <<op, item, wait, waited, found, result>>

\* n ticks pass; more than MaxDelay make no difference.
Pass(n) ==
    /\ waited' = [t \in Task |-> IF waited[t] + n < wait[t] THEN waited[t] + n ELSE wait[t]]
    /\ UNCHANGED <<items, op, item, wait, found, result>>

Next ==
    \/ \E t \in Task, o \in Sends \cup {"receive"}, w \in 0..MaxDelay, m \in Msg : Call(t, o, w, m)
    \/ \E t \in Task : Send(t) \/ Receive(t) \/ FindFull(t) \/ FailSend(t) \/ FailReceive(t)
    \/ \E o \in Sends, m \in Msg : IsrSend(o, m)
    \/ IsrReceive
    \/ \E n \in 0..MaxDelay : Pass(n)

Spec == Init /\ [][Next]_vars

=============================================================================
