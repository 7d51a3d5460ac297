-------------------------- MODULE ThreadSafeQueue --------------------------
(***************************************************************************)
(* ThreadSafeQueue<T> (Common/Utils/ThreadSafeQueue.h): one mutex, the     *)
(* condition variables m_notEmpty and m_notFull, a bound and a closed      *)
(* flag.  Every stage of the agent and of the viewer is joined to the next *)
(* by one of these.                                                        *)
(*                                                                         *)
(* A critical section holds m_mutex from its first to its last statement,  *)
(* so it is one step here, and the mutex itself is not a variable.  What   *)
(* happens outside of it is a step of its own: the notify_one of push and  *)
(* pop after lock.unlock(), the wait, the wake-up, the timeout, the return.*)
(***************************************************************************)
EXTENDS Naturals, Sequences, FiniteSets

CONSTANTS Threads,  \* the threads that use the queue
          Item,     \* what is queued
          NoItem,   \* no argument, or nothing taken
          MaxSize   \* the constructor's maxSize

ASSUME QueueAssumption ==
    /\ IsFiniteSet(Threads)
    /\ NoItem \notin Item
    /\ MaxSize \in Nat \ {0}

PushOps == {"push", "tryPush"}
PopOps  == {"tryPop", "pop"}

VARIABLES m_queue,   \* the content, oldest first
          m_closed,
          pc,        \* where each thread is in its call
          op,        \* the operation of the thread's current call
          item,      \* the argument of a push, then the item a pop has taken
          result     \* how the call ends

vars == <<m_queue, m_closed, pc, op, item, result>>

\* idle:     not in a call
\* lock:     about to lock m_mutex and evaluate the wait predicate
\* wait:     blocked on the condition variable of its operation
\* timedOut: wait_for has timed out; relocks and evaluates the predicate last
\* notify:   has unlocked m_mutex and not yet called notify_one
\* return:   the call has nothing left to do
Locations == {"idle", "lock", "wait", "timedOut", "notify", "return"}
Outcomes  == {"unknown", "accepted", "dropped", "full", "taken", "none", "closed"}

At(l, ops) == {t \in Threads : pc[t] = l /\ op[t] \in ops}
WaitingNotFull  == At("wait", PushOps)   \* blocked on m_notFull
WaitingNotEmpty == At("wait", PopOps)    \* blocked on m_notEmpty

FullOffByOne == Len(m_queue) > MaxSize   \* mutant of Full

Full == Len(m_queue) >= MaxSize

----------------------------------------------------------------------------
Init ==
    /\ m_queue = <<>>
    /\ m_closed = FALSE
    /\ pc = [t \in Threads |-> "idle"]
    /\ op = [t \in Threads |-> "none"]
    /\ item = [t \in Threads |-> NoItem]
    /\ result = [t \in Threads |-> "unknown"]

Call(t) ==
    /\ pc[t] = "idle"
    /\ pc' = [pc EXCEPT ![t] = "lock"]
    /\ \/ \E o \in PushOps, x \in Item :
            op' = [op EXCEPT ![t] = o] /\ item' = [item EXCEPT ![t] = x]
       \/ \E o \in PopOps :
            op' = [op EXCEPT ![t] = o] /\ UNCHANGED item
    /\ UNCHANGED <<m_queue, m_closed, result>>

\* Return from the call; its locals go out of scope.
Return(t) ==
    /\ pc[t] = "return"
    /\ pc' = [pc EXCEPT ![t] = "idle"]
    /\ op' = [op EXCEPT ![t] = "none"]
    /\ item' = [item EXCEPT ![t] = NoItem]
    /\ result' = [result EXCEPT ![t] = "unknown"]
    /\ UNCHANGED <<m_queue, m_closed>>

\* The thread moves to l and notifies one of the waiters S, any of them.
NotifyOne(S, t, l) ==
    IF S = {} THEN pc' = [pc EXCEPT ![t] = l]
              ELSE \E w \in S : pc' = [pc EXCEPT ![t] = l, ![w] = "lock"]

\* The thread goes to l with nothing but its location changed.
GoTo(t, l) ==
    /\ pc' = [pc EXCEPT ![t] = l]
    /\ UNCHANGED <<m_queue, m_closed, op, item, result>>

\* The call is refused: it ends with r and leaves the content alone.
EndWith(t, r) ==
    /\ pc' = [pc EXCEPT ![t] = "return"]
    /\ result' = [result EXCEPT ![t] = r]
    /\ UNCHANGED <<m_queue, m_closed, op, item>>

Enqueue(t) ==
    /\ ~Full
    /\ m_queue' = Append(m_queue, item[t])
    /\ result' = [result EXCEPT ![t] = "accepted"]
    /\ UNCHANGED <<m_closed, op, item>>

----------------------------------------------------------------------------
PushForgetsNotify(t) ==   \* mutant of Push: no notify_one after the unlock
    /\ pc[t] = "lock" /\ op[t] = "push"
    /\ \/ m_closed /\ EndWith(t, "dropped")
       \/ ~m_closed /\ Enqueue(t) /\ pc' = [pc EXCEPT ![t] = "return"]
       \/ ~m_closed /\ Full /\ GoTo(t, "wait")

\* push: waits for room or for close(); a closed queue drops the item.
Push(t) ==
    /\ pc[t] = "lock" /\ op[t] = "push"
    /\ \/ m_closed /\ EndWith(t, "dropped")
       \/ ~m_closed /\ Enqueue(t) /\ pc' = [pc EXCEPT ![t] = "notify"]
       \/ ~m_closed /\ Full /\ GoTo(t, "wait")

\* tryPush: full is refused, m_closed is not looked at, and the notification
\* is made while the mutex is still held.
TryPush(t) ==
    /\ pc[t] = "lock" /\ op[t] = "tryPush"
    /\ \/ Full /\ EndWith(t, "full")
       \/ Enqueue(t) /\ NotifyOne(WaitingNotEmpty, t, "return")

PopBack(t) ==             \* mutant of PopFront: the newest item is taken
    /\ m_queue # <<>>
    /\ m_queue' = SubSeq(m_queue, 1, Len(m_queue) - 1)
    /\ item' = [item EXCEPT ![t] = m_queue[Len(m_queue)]]
    /\ result' = [result EXCEPT ![t] = "taken"]
    /\ pc' = [pc EXCEPT ![t] = "notify"]
    /\ UNCHANGED <<m_closed, op>>

PopFront(t) ==
    /\ m_queue # <<>>
    /\ m_queue' = Tail(m_queue)
    /\ item' = [item EXCEPT ![t] = Head(m_queue)]
    /\ result' = [result EXCEPT ![t] = "taken"]
    /\ pc' = [pc EXCEPT ![t] = "notify"]
    /\ UNCHANGED <<m_closed, op>>

\* tryPop: waits for an item, for close() or for the timeout.
TryPop(t) ==
    /\ pc[t] \in {"lock", "timedOut"} /\ op[t] = "tryPop"
    /\ \/ PopFront(t)
       \/ m_queue = <<>> /\ (m_closed \/ pc[t] = "timedOut") /\ EndWith(t, "none")
       \/ m_queue = <<>> /\ ~m_closed /\ pc[t] = "lock" /\ GoTo(t, "wait")

\* pop: waits for an item or for close(); closed and drained, it throws.
Pop(t) ==
    /\ pc[t] = "lock" /\ op[t] = "pop"
    /\ \/ PopFront(t)
       \/ m_queue = <<>> /\ m_closed /\ EndWith(t, "closed")
       \/ m_queue = <<>> /\ ~m_closed /\ GoTo(t, "wait")

NotifyOnFirst(t) ==       \* mutant of Notify: only when the queue was empty before
    /\ pc[t] = "notify"
    /\ IF op[t] = "push" /\ Len(m_queue) # 1
       THEN pc' = [pc EXCEPT ![t] = "return"]
       ELSE NotifyOne(IF op[t] = "push" THEN WaitingNotEmpty ELSE WaitingNotFull, t, "return")
    /\ UNCHANGED <<m_queue, m_closed, op, item, result>>

\* The notify_one after unlock: of push on m_notEmpty, of a pop on m_notFull.
Notify(t) ==
    /\ pc[t] = "notify"
    /\ NotifyOne(IF op[t] = "push" THEN WaitingNotEmpty ELSE WaitingNotFull, t, "return")
    /\ UNCHANGED <<m_queue, m_closed, op, item, result>>

TimeoutRestarts(t) ==     \* mutant of Timeout: the wait starts over
    pc[t] = "wait" /\ op[t] = "tryPop" /\ GoTo(t, "lock")

\* wait_for reaches its deadline.
Timeout(t) == pc[t] = "wait" /\ op[t] = "tryPop" /\ GoTo(t, "timedOut")

\* The C++ standard lets a wait end without a notification.
SpuriousWake(t) == pc[t] = "wait" /\ GoTo(t, "lock")

NotifyAll == pc' = [t \in Threads |-> IF pc[t] = "wait" THEN "lock" ELSE pc[t]]

CloseForgetsNotFull ==    \* mutant of Close: only m_notEmpty is notified
    /\ m_closed' = TRUE
    /\ pc' = [t \in Threads |-> IF t \in WaitingNotEmpty THEN "lock" ELSE pc[t]]
    /\ UNCHANGED <<m_queue, op, item, result>>

Close ==
    /\ m_closed' = TRUE
    /\ NotifyAll
    /\ UNCHANGED <<m_queue, op, item, result>>

Reopen ==
    /\ m_closed' = FALSE
    /\ NotifyAll
    /\ UNCHANGED <<m_queue, op, item, result>>

Step(t) == Push(t) \/ TryPush(t) \/ TryPop(t) \/ Pop(t) \/ Notify(t) \/ Return(t)

Next ==
    \/ \E t \in Threads : Call(t) \/ Step(t) \/ Timeout(t) \/ SpuriousWake(t)
    \/ Close
    \/ Reopen

Spec == Init /\ [][Next]_vars

\* The scheduler runs every runnable thread, and a deadline that has passed
\* ends the wait it belongs to even if wake-ups keep sending the thread back
\* to it (wait_for computes its deadline once).
Fairness == \A t \in Threads : WF_vars(Step(t)) /\ SF_vars(Timeout(t))

FairSpec == Spec /\ Fairness

----------------------------------------------------------------------------
\* Types, the bound of the queue, and the locations each operation can be at.
TypeOK ==
    /\ m_queue \in Seq(Item)
    /\ Len(m_queue) <= MaxSize
    /\ m_closed \in BOOLEAN
    /\ pc \in [Threads -> Locations]
    /\ op \in [Threads -> PushOps \cup PopOps \cup {"none"}]
    /\ item \in [Threads -> Item \cup {NoItem}]
    /\ result \in [Threads -> Outcomes]
    /\ \A t \in Threads :
        /\ pc[t] = "idle" <=> op[t] = "none"
        /\ pc[t] = "wait" => op[t] # "tryPush"
        /\ pc[t] = "timedOut" => op[t] = "tryPop"
        /\ pc[t] = "notify" => op[t] # "tryPush"
        /\ op[t] \in PushOps => item[t] \in Item
        /\ pc[t] = "idle" => item[t] = NoItem
        /\ pc[t] \notin {"notify", "return"} => result[t] = "unknown"

\* Threads whose next step takes from the queue or wakes one that will, and
\* threads whose next step fills a slot or wakes one that will.
Takers  == At("lock", PopOps) \cup At("timedOut", PopOps) \cup At("notify", PushOps)
Fillers == At("lock", PushOps) \cup At("notify", PopOps)

\* NO LOST WAKE-UP.  notify_one wakes one thread for one item or one free
\* slot, and push and pop send it only after unlocking.  While a thread is
\* blocked on m_notEmpty, every queued item has a thread of its own on its way
\* to it; while one is blocked on m_notFull, so has every free slot.  Nobody
\* waits on a closed queue.
NoLostWakeup ==
    /\ WaitingNotEmpty # {} => Len(m_queue) <= Cardinality(Takers)
    /\ WaitingNotFull # {} => MaxSize - Len(m_queue) <= Cardinality(Fillers)
    /\ m_closed => WaitingNotEmpty = {} /\ WaitingNotFull = {}

\* close() ends every call: a thread that is in push, pop or tryPop while the
\* queue is closed leaves its call unless the queue is reopened (the joins of
\* AgentSession::Stop and ViewerSession::Stop depend on it).
CloseReleases(t) ==
    [](m_closed /\ pc[t] # "idle" => <>(~m_closed \/ pc[t] = "idle"))

\* A tryPop returns, however many other threads take the items whose
\* notifications woke it: the loops that poll a queue always get back to
\* their m_running test.
TryPopReturns(t) == (op[t] = "tryPop") ~> (op[t] # "tryPop")

\* An item that is queued while a consumer is blocked reaches a consumer.
ItemReachesConsumer ==
    (m_queue # <<>> /\ WaitingNotEmpty # {}) ~> (m_queue = <<>> \/ WaitingNotEmpty = {})

\* What a caller can know of where its call is.
Status == [t \in Threads |-> CASE pc[t] = "idle" -> "idle"
                               [] pc[t] \in {"notify", "return"} -> "done"
                               [] OTHER -> "called"]

Fifo == INSTANCE BoundedFifo WITH items <- m_queue, closed <- m_closed, status <- Status

\* Every call of the queue takes effect once, at one point between call and
\* return, on a bounded first-in first-out content: wake-ups, timeouts and the
\* notification after the unlock are invisible to callers.
ImplementsFifo == Fifo!Spec
=============================================================================
