-------------------------- MODULE WorkerThreadPool --------------------------
(***************************************************************************)
(* The pool of worker threads that converts pictures                       *)
(* (Common/Utils/WorkerThreadPool.h), used by one client thread: Enqueue,  *)
(* WaitAll and the destructor, and the loop of the workers.                *)
(*                                                                         *)
(* A step is a section under m_mutex, or what a thread does outside of it  *)
(* between two of them; a condition variable is notified after the unlock, *)
(* in a step of its own, and wakes one waiter, if there is any.            *)
(***************************************************************************)
EXTENDS Naturals, Sequences, FiniteSets

CONSTANTS Workers,     \* m_workers
          Task,        \* what may be enqueued
          NoTask       \* no task

ASSUME PoolAssumption == IsFiniteSet(Workers) /\ NoTask \notin Task

VARIABLES m_tasks,     \* the queue of tasks
          m_pending,   \* tasks enqueued and not finished
          m_shutdown,
          at,          \* where each worker is
          task,        \* the task each worker took last, or none yet
          client       \* where the client is in the pool's methods

poolVars == <<m_tasks, m_pending, m_shutdown, at, task, client>>

\* "lock": before the test of the wait; "blocked": waiting on m_cv.
Locations == {"lock", "blocked", "run", "finish", "notify", "exit"}
\* "ready" is outside of the pool; "test" and "waiting" are in WaitAll.
ClientAt  == {"ready", "notify", "test", "waiting", "notifyAll", "join", "gone"}

At(l) == {w \in Workers : at[w] = l}

PoolInit ==
    /\ m_tasks = <<>> /\ m_pending = 0 /\ m_shutdown = FALSE
    /\ at = [w \in Workers |-> "lock"] /\ task = [w \in Workers |-> NoTask]
    /\ client = "ready"

----------------------------------------------------------------------------
(* The client *)

EnqueueQuietly(t) ==        \* mutant of Enqueue: nobody is notified
    /\ client = "ready" /\ ~m_shutdown
    /\ m_tasks' = Append(m_tasks, t) /\ m_pending' = m_pending + 1
    /\ client' = "ready"
    /\ UNCHANGED <<m_shutdown, at, task>>

\* Enqueue up to the unlock.
Enqueue(t) ==
    /\ client = "ready" /\ ~m_shutdown
    /\ m_tasks' = Append(m_tasks, t) /\ m_pending' = m_pending + 1
    /\ client' = "notify"
    /\ UNCHANGED <<m_shutdown, at, task>>

\* m_cv.notify_one().
NotifyWorker ==
    /\ client = "notify"
    /\ client' = "ready"
    /\ IF At("blocked") = {} THEN UNCHANGED at
       ELSE \E w \in At("blocked") : at' = [at EXCEPT ![w] = "lock"]
    /\ UNCHANGED <<m_tasks, m_pending, m_shutdown, task>>

\* WaitAll is called.
WaitAll ==
    /\ client = "ready" /\ ~m_shutdown
    /\ client' = "test"
    /\ UNCHANGED <<m_tasks, m_pending, m_shutdown, at, task>>

WaitForQueueOnly ==         \* mutant of TestDone: tasks that run are not waited for
    /\ client = "test"
    /\ client' = IF m_tasks = <<>> THEN "ready" ELSE "waiting"
    /\ UNCHANGED <<m_tasks, m_pending, m_shutdown, at, task>>

\* Under the lock: all done, or the client blocks.
TestDone ==
    /\ client = "test"
    /\ client' = IF m_pending = 0 /\ m_tasks = <<>> THEN "ready" ELSE "waiting"
    /\ UNCHANGED <<m_tasks, m_pending, m_shutdown, at, task>>

\* The destructor: m_shutdown, notify_all, and join.
Destroy ==
    /\ client = "ready" /\ ~m_shutdown
    /\ m_shutdown' = TRUE /\ client' = "notifyAll"
    /\ UNCHANGED <<m_tasks, m_pending, at, task>>

NotifyAllWorkers ==
    /\ client = "notifyAll"
    /\ client' = "join"
    /\ at' = [w \in Workers |-> IF at[w] = "blocked" THEN "lock" ELSE at[w]]
    /\ UNCHANGED <<m_tasks, m_pending, m_shutdown, task>>

Join ==
    /\ client = "join" /\ At("exit") = Workers
    /\ client' = "gone"
    /\ UNCHANGED <<m_tasks, m_pending, m_shutdown, at, task>>

----------------------------------------------------------------------------
(* A worker *)

\* The test of the wait: it blocks, returns, or takes the oldest task.
Take(w) ==
    /\ at[w] = "lock"
    /\ IF m_tasks # <<>>
       THEN /\ task' = [task EXCEPT ![w] = Head(m_tasks)]
            /\ m_tasks' = Tail(m_tasks)
            /\ at' = [at EXCEPT ![w] = "run"]
       ELSE /\ at' = [at EXCEPT ![w] = IF m_shutdown THEN "exit" ELSE "blocked"]
            /\ UNCHANGED <<m_tasks, task>>
    /\ UNCHANGED <<m_pending, m_shutdown, client>>

\* task(), which touches nothing of the pool.
Run(w) ==
    /\ at[w] = "run"
    /\ at' = [at EXCEPT ![w] = "finish"]
    /\ UNCHANGED <<m_tasks, m_pending, m_shutdown, task, client>>

Finish(w) ==
    /\ at[w] = "finish"
    /\ m_pending' = m_pending - 1
    /\ at' = [at EXCEPT ![w] = "notify"]
    /\ UNCHANGED <<m_tasks, m_shutdown, task, client>>

NotifyAWorker(w) ==         \* mutant of NotifyClient: the wrong condition variable
    /\ at[w] = "notify"
    /\ at' = [v \in Workers |-> IF v = w \/ at[v] = "blocked" THEN "lock" ELSE at[v]]
    /\ UNCHANGED <<m_tasks, m_pending, m_shutdown, task, client>>

\* m_allDone.notify_one().
NotifyClient(w) ==
    /\ at[w] = "notify"
    /\ at' = [at EXCEPT ![w] = "lock"]
    /\ client' = IF client = "waiting" THEN "test" ELSE client
    /\ UNCHANGED <<m_tasks, m_pending, m_shutdown, task>>

\* A wait may return without a notification.
SpuriousWake ==
    /\ \/ \E w \in At("blocked") : at' = [at EXCEPT ![w] = "lock"] /\ UNCHANGED client
       \/ client = "waiting" /\ client' = "test" /\ UNCHANGED at
    /\ UNCHANGED <<m_tasks, m_pending, m_shutdown, task>>

ClientSteps == NotifyWorker \/ TestDone \/ NotifyAllWorkers \/ Join
WorkerStep(w) == Take(w) \/ Finish(w) \/ NotifyClient(w)

----------------------------------------------------------------------------
(* Properties *)

PoolTypeOK ==
    /\ m_tasks \in Seq(Task) /\ m_pending \in Nat /\ m_shutdown \in BOOLEAN
    /\ at \in [Workers -> Locations] /\ task \in [Workers -> Task \cup {NoTask}]
    /\ client \in ClientAt
    /\ \A w \in At("run") : task[w] \in Task
    /\ m_shutdown <=> client \in {"notifyAll", "join", "gone"}

\* The workers that hold a task.
Busy == At("run") \cup At("finish")

\* m_pending counts the tasks in the queue and those that were taken and not finished.
PendingCounted == m_pending = Len(m_tasks) + Cardinality(Busy)

\* Enqueue notifies one worker after the unlock, which may all be busy, and a
\* worker tells WaitAll after it unlocked: no task waits while all workers that
\* could take it sleep, and WaitAll does not sleep when nobody will tell it.
NoTaskLeftBehind ==
    /\ At("blocked") # {} => Len(m_tasks) <= Cardinality(At("lock"))
                                           + (IF client = "notify" THEN 1 ELSE 0)
    /\ client = "waiting" => m_pending > 0 \/ At("notify") # {}
    /\ PendingCounted
=============================================================================
