---------------------------- MODULE BoundedFifo ----------------------------
(***************************************************************************)
(* What the callers of ThreadSafeQueue<T> rely on: a bounded FIFO whose    *)
(* calls take effect atomically, once, between the call and its return.    *)
(* Locks, condition variables, wake-ups and timers do not appear here.     *)
(***************************************************************************)
EXTENDS Naturals, Sequences

CONSTANTS Threads,  \* the threads that use the queue
          Item,     \* what is queued
          NoItem,   \* no argument, or nothing taken
          MaxSize   \* the constructor's maxSize

PushOps == {"push", "tryPush"}
PopOps  == {"tryPop", "pop"}

VARIABLES items,   \* the content, oldest first
          closed,  \* close() has been called, reopen() has not
          status,  \* per thread: idle, called, or done (took effect, not returned)
          op,      \* the operation of the thread's current call
          item,    \* the item it offers, then the item it has taken
          result   \* how the call ends

vars == <<items, closed, status, op, item, result>>

Init ==
    /\ items = <<>>
    /\ closed = FALSE
    /\ status = [t \in Threads |-> "idle"]
    /\ op = [t \in Threads |-> "none"]
    /\ item = [t \in Threads |-> NoItem]
    /\ result = [t \in Threads |-> "unknown"]

Invoke(t) ==
    /\ status[t] = "idle"
    /\ status' = [status EXCEPT ![t] = "called"]
    /\ \/ \E o \in PushOps, x \in Item :
            op' = [op EXCEPT ![t] = o] /\ item' = [item EXCEPT ![t] = x]
       \/ \E o \in PopOps :
            op' = [op EXCEPT ![t] = o] /\ UNCHANGED item
    /\ UNCHANGED <<items, closed, result>>

TakesEffect(t, r) ==
    /\ status[t] = "called"
    /\ status' = [status EXCEPT ![t] = "done"]
    /\ result' = [result EXCEPT ![t] = r]
    /\ UNCHANGED <<closed, op>>

Put(t) ==
    /\ op[t] \in PushOps
    /\ op[t] = "push" => ~closed
    /\ Len(items) < MaxSize
    /\ items' = Append(items, item[t])
    /\ UNCHANGED item
    /\ TakesEffect(t, "accepted")

\* Only the non-blocking push reports a full queue, only the blocking one is
\* refused by a closed queue.
Refuse(t) ==
    /\ \/ op[t] = "tryPush" /\ Len(items) >= MaxSize /\ TakesEffect(t, "full")
       \/ op[t] = "push" /\ closed /\ TakesEffect(t, "dropped")
    /\ UNCHANGED <<items, item>>

\* The content outlives close(): what was accepted can still be taken.
Take(t) ==
    /\ op[t] \in PopOps
    /\ items # <<>>
    /\ items' = Tail(items)
    /\ item' = [item EXCEPT ![t] = Head(items)]
    /\ TakesEffect(t, "taken")

GiveUp(t) ==
    /\ items = <<>>
    /\ \/ op[t] = "tryPop" /\ TakesEffect(t, "none")
       \/ op[t] = "pop" /\ closed /\ TakesEffect(t, "closed")
    /\ UNCHANGED <<items, item>>

Return(t) ==
    /\ status[t] = "done"
    /\ status' = [status EXCEPT ![t] = "idle"]
    /\ op' = [op EXCEPT ![t] = "none"]
    /\ item' = [item EXCEPT ![t] = NoItem]
    /\ result' = [result EXCEPT ![t] = "unknown"]
    /\ UNCHANGED <<items, closed>>

SetClosed ==
    /\ closed' \in BOOLEAN
    /\ UNCHANGED <<items, status, op, item, result>>

Next ==
    \/ \E t \in Threads : \/ Invoke(t) \/ Return(t)
                          \/ Put(t) \/ Refuse(t) \/ Take(t) \/ GiveUp(t)
    \/ SetClosed

Spec == Init /\ [][Next]_vars
=============================================================================
