----------------------- MODULE ThreadSafeQueueProofs -----------------------
(***************************************************************************)
(* What is proved of ThreadSafeQueue for any number of threads, any items  *)
(* and any capacity: its type invariant, that no wake-up is lost, and that *)
(* every step of it is a step of BoundedFifo or changes nothing there.     *)
(* And of two such queues in a row, with a connection between them, which  *)
(* is the path of the input: that events stay in order, and that a key of  *)
(* which no change was missed is at the agent as it is at the user.        *)
(***************************************************************************)
EXTENDS ThreadSafeQueue, InputPath, FiniteSetTheorems, TLAPS

\* Initially the types are right.
LEMMA InitType == Init => TypeOK
<1> SUFFICES ASSUME Init PROVE TypeOK
  OBVIOUS
<1> USE QueueAssumption DEF Init, Locations, Outcomes, PushOps, PopOps
<1>1. m_queue \in Seq(Item) /\ Len(m_queue) <= MaxSize
  OBVIOUS
<1>2. \A t \in Threads : /\ pc[t] = "idle" /\ op[t] = "none"
                         /\ item[t] = NoItem /\ result[t] = "unknown"
  OBVIOUS
<1>3. /\ pc \in [Threads -> Locations]
      /\ op \in [Threads -> PushOps \cup PopOps \cup {"none"}]
      /\ item \in [Threads -> Item \cup {NoItem}]
      /\ result \in [Threads -> Outcomes]
  OBVIOUS
<1> QED BY <1>1, <1>2, <1>3 DEF TypeOK

\* Taking from a non-empty queue keeps it a queue, one shorter.
LEMMA TailOfQueue ==
  ASSUME m_queue \in Seq(Item), m_queue # <<>>
  PROVE  /\ Tail(m_queue) \in Seq(Item) /\ Len(Tail(m_queue)) = Len(m_queue) - 1
         /\ Head(m_queue) \in Item /\ Len(m_queue) \in Nat \ {0}
  OBVIOUS

\* Every step keeps the types, the bound, and what the locations say.
LEMMA NextType == TypeOK /\ [Next]_vars => TypeOK'
<1> SUFFICES ASSUME TypeOK, [Next]_vars PROVE TypeOK'
  OBVIOUS
<1> USE QueueAssumption DEF Locations, Outcomes, PushOps, PopOps
<1>1. ASSUME NEW t \in Threads, Call(t) PROVE TypeOK'
  BY <1>1 DEF Call, TypeOK
<1>2. ASSUME NEW t \in Threads, Return(t) PROVE TypeOK'
  BY <1>2 DEF Return, TypeOK
<1>3. ASSUME NEW t \in Threads, Push(t) PROVE TypeOK'
  <2>1. CASE m_closed /\ EndWith(t, "dropped")
    BY <1>3, <2>1 DEF Push, EndWith, TypeOK
  <2>2. CASE ~m_closed /\ Enqueue(t) /\ pc' = [pc EXCEPT ![t] = "notify"]
    BY <1>3, <2>2 DEF Push, Enqueue, Full, TypeOK
  <2>3. CASE ~m_closed /\ Full /\ GoTo(t, "wait")
    BY <1>3, <2>3 DEF Push, GoTo, TypeOK
  <2> QED BY <1>3, <2>1, <2>2, <2>3 DEF Push
<1>4. ASSUME NEW t \in Threads, TryPush(t) PROVE TypeOK'
  <2>1. CASE Full /\ EndWith(t, "full")
    BY <1>4, <2>1 DEF TryPush, EndWith, TypeOK
  <2>2. CASE Enqueue(t) /\ NotifyOne(WaitingNotEmpty, t, "return")
    <3>1. /\ m_queue' = Append(m_queue, item[t]) /\ m_queue' \in Seq(Item)
          /\ Len(m_queue') <= MaxSize
      BY <1>4, <2>2 DEF TryPush, Enqueue, Full, TypeOK
    <3>2. \/ pc' = [pc EXCEPT ![t] = "return"]
          \/ \E w \in WaitingNotEmpty : pc' = [pc EXCEPT ![t] = "return", ![w] = "lock"]
      BY <2>2 DEF NotifyOne
    <3>3. CASE pc' = [pc EXCEPT ![t] = "return"]
      BY <1>4, <2>2, <3>1, <3>3 DEF TryPush, Enqueue, TypeOK
    <3>4. ASSUME NEW w \in WaitingNotEmpty, pc' = [pc EXCEPT ![t] = "return", ![w] = "lock"]
          PROVE TypeOK'
      BY <1>4, <2>2, <3>1, <3>4 DEF TryPush, Enqueue, WaitingNotEmpty, At, TypeOK
    <3> QED BY <3>2, <3>3, <3>4
  <2> QED BY <1>4, <2>1, <2>2 DEF TryPush
<1>5. ASSUME NEW t \in Threads, op[t] \in PopOps, pc[t] \in {"lock", "timedOut"}, PopFront(t)
      PROVE TypeOK'
  BY <1>5, TailOfQueue DEF PopFront, TypeOK
<1>6. ASSUME NEW t \in Threads, TryPop(t) PROVE TypeOK'
  <2>1. CASE EndWith(t, "none")
    BY <1>6, <2>1 DEF TryPop, EndWith, TypeOK
  <2>2. CASE GoTo(t, "wait")
    BY <1>6, <2>2 DEF TryPop, GoTo, TypeOK
  <2> QED BY <1>5, <1>6, <2>1, <2>2 DEF TryPop
<1>7. ASSUME NEW t \in Threads, Pop(t) PROVE TypeOK'
  <2>1. CASE EndWith(t, "closed")
    BY <1>7, <2>1 DEF Pop, EndWith, TypeOK
  <2>2. CASE GoTo(t, "wait")
    BY <1>7, <2>2 DEF Pop, GoTo, TypeOK
  <2> QED BY <1>5, <1>7, <2>1, <2>2 DEF Pop
<1>8. ASSUME NEW t \in Threads, Notify(t) PROVE TypeOK'
  BY <1>8 DEF Notify, NotifyOne, WaitingNotEmpty, WaitingNotFull, At, TypeOK
<1>9. ASSUME NEW t \in Threads, Timeout(t) \/ SpuriousWake(t) PROVE TypeOK'
  BY <1>9 DEF Timeout, SpuriousWake, GoTo, TypeOK
<1>10. CASE Close \/ Reopen
  <2>1. UNCHANGED <<m_queue, op, item, result>> /\ m_closed' \in BOOLEAN
    BY <1>10 DEF Close, Reopen
  <2>2. pc' = [t \in Threads |-> IF pc[t] = "wait" THEN "lock" ELSE pc[t]]
    BY <1>10 DEF Close, Reopen, NotifyAll
  <2>3. \A t \in Threads : pc'[t] = IF pc[t] = "wait" THEN "lock" ELSE pc[t]
    BY <2>2
  <2>4. pc' \in [Threads -> Locations]
    BY <2>2 DEF TypeOK
  <2> QED BY <2>1, <2>3, <2>4 DEF TypeOK
<1>11. CASE UNCHANGED vars
  BY <1>11 DEF vars, TypeOK
<1> QED
  BY <1>1, <1>2, <1>3, <1>4, <1>6, <1>7, <1>8, <1>9, <1>10, <1>11 DEF Next, Step

\* TYPE CORRECTNESS.  The queue never exceeds its capacity, whoever pushes.
THEOREM TypeCorrect == Spec => []TypeOK
<1>1. Init => TypeOK
  BY InitType
<1>2. TypeOK /\ [Next]_vars => TypeOK'
  BY NextType
<1> QED BY <1>1, <1>2, PTL DEF Spec

----------------------------------------------------------------------------
\* Counting: how the size of a finite set bounds that of one that differs
\* from it by one thread.
LEMMA Grows ==
  ASSUME NEW S, NEW R, IsFiniteSet(R), S \subseteq R
  PROVE  /\ Cardinality(S) \in Nat /\ Cardinality(R) \in Nat
         /\ Cardinality(S) <= Cardinality(R)
BY FS_Subset, FS_CardinalityType

\* Counting: a set that lies in another, but for one element, is at most one larger.
LEMMA Loses ==
  ASSUME NEW S, NEW R, IsFiniteSet(S), IsFiniteSet(R), NEW t, S \ {t} \subseteq R
  PROVE  /\ Cardinality(S) \in Nat /\ Cardinality(R) \in Nat
         /\ Cardinality(S) <= Cardinality(R) + 1
<1>1. Cardinality(S \ {t}) <= Cardinality(R)
  BY FS_Subset
<1>2. Cardinality(S \ {t}) = IF t \in S THEN Cardinality(S) - 1 ELSE Cardinality(S)
  BY FS_RemoveElement
<1>3. Cardinality(S) \in Nat /\ Cardinality(R) \in Nat
  BY FS_CardinalityType
<1> QED BY <1>1, <1>2, <1>3

\* Counting: a set that lies in another and misses one of its elements is smaller.
LEMMA Joins ==
  ASSUME NEW S, NEW R, IsFiniteSet(R), NEW w \in R \ S, S \subseteq R
  PROVE  /\ Cardinality(S) \in Nat /\ Cardinality(R) \in Nat
         /\ Cardinality(S) + 1 <= Cardinality(R)
<1>1. IsFiniteSet(R \ {w}) /\ Cardinality(R \ {w}) = Cardinality(R) - 1
  BY FS_RemoveElement
<1>2. S \in SUBSET (R \ {w})
  OBVIOUS
<1>3. IsFiniteSet(S) /\ Cardinality(S) <= Cardinality(R \ {w})
  BY <1>1, <1>2, FS_Subset
<1>4. Cardinality(S) \in Nat /\ Cardinality(R) \in Nat
  BY <1>3, FS_CardinalityType
<1> QED BY <1>1, <1>3, <1>4

\* Counting: one element leaves, one that was not there joins: no larger.
LEMMA Replaces ==
  ASSUME NEW S, NEW R, IsFiniteSet(S), IsFiniteSet(R),
         NEW t, NEW w \in R \ S, S \ {t} \subseteq R
  PROVE  /\ Cardinality(S) \in Nat /\ Cardinality(R) \in Nat
         /\ Cardinality(S) <= Cardinality(R)
<1>1. Cardinality(S \ {t}) + 1 <= Cardinality(R)
  BY w \in R \ (S \ {t}), Joins
<1>2. Cardinality(S \ {t}) = IF t \in S THEN Cardinality(S) - 1 ELSE Cardinality(S)
  BY FS_RemoveElement
<1>3. Cardinality(S) \in Nat /\ Cardinality(R) \in Nat
  BY FS_CardinalityType
<1> QED BY <1>1, <1>2, <1>3

----------------------------------------------------------------------------
\* Every step keeps an item's taker, and a free slot's filler, on its way.
LEMMA NextWakeup == TypeOK /\ NoLostWakeup /\ [Next]_vars => NoLostWakeup'
<1> SUFFICES ASSUME TypeOK, NoLostWakeup, [Next]_vars PROVE NoLostWakeup'
  OBVIOUS
<1>a. TypeOK'
  BY NextType
<1>b. /\ IsFiniteSet(Takers) /\ IsFiniteSet(Takers')
      /\ IsFiniteSet(Fillers) /\ IsFiniteSet(Fillers')
  <2>1. /\ Takers \in SUBSET Threads /\ Takers' \in SUBSET Threads
        /\ Fillers \in SUBSET Threads /\ Fillers' \in SUBSET Threads
    BY DEF Takers, Fillers, At
  <2> QED BY <2>1, QueueAssumption, FS_Subset
<1>c. /\ Len(m_queue) \in Nat /\ Len(m_queue) <= MaxSize
      /\ Len(m_queue') \in Nat /\ Len(m_queue') <= MaxSize
      /\ MaxSize \in Nat \ {0} /\ (m_queue = <<>> => Len(m_queue) = 0)
  BY <1>a, QueueAssumption DEF TypeOK
\* The threads that a step sends to wait or wakes, and what each count does.
<1>d. ASSUME NEW t \in Threads, GoTo(t, "wait"), pc[t] = "lock", ~m_closed,
             \/ op[t] = "push" /\ Len(m_queue) = MaxSize
             \/ op[t] \in PopOps /\ Len(m_queue) = 0
      PROVE  NoLostWakeup'
  <2>1. /\ op[t] = "push" => Takers \subseteq Takers' /\ WaitingNotEmpty' = WaitingNotEmpty
        /\ op[t] \in PopOps => Fillers \subseteq Fillers' /\ WaitingNotFull' = WaitingNotFull
        /\ m_queue' = m_queue /\ m_closed' = m_closed
    BY <1>d DEF GoTo, TypeOK, Takers, Fillers, WaitingNotEmpty, WaitingNotFull, At,
                PushOps, PopOps
  <2>2. /\ op[t] = "push" => Cardinality(Takers) <= Cardinality(Takers')
        /\ op[t] \in PopOps => Cardinality(Fillers) <= Cardinality(Fillers')
    BY <1>b, <2>1, Grows
  <2>3. /\ Cardinality(Takers) \in Nat /\ Cardinality(Takers') \in Nat
        /\ Cardinality(Fillers) \in Nat /\ Cardinality(Fillers') \in Nat
    BY <1>b, Grows
  <2> QED BY <1>c, <1>d, <2>1, <2>2, <2>3 DEF NoLostWakeup
<1>e. ASSUME m_queue' = m_queue, m_closed' = m_closed,
             Takers \subseteq Takers' \/ Len(m_queue) = 0,
             Fillers \subseteq Fillers' \/ Len(m_queue) = MaxSize,
             WaitingNotEmpty' \subseteq WaitingNotEmpty,
             WaitingNotFull' \subseteq WaitingNotFull
      PROVE  NoLostWakeup'
  <2>1. /\ Takers \subseteq Takers' => Cardinality(Takers) <= Cardinality(Takers')
        /\ Fillers \subseteq Fillers' => Cardinality(Fillers) <= Cardinality(Fillers')
        /\ Cardinality(Takers) \in Nat /\ Cardinality(Takers') \in Nat
        /\ Cardinality(Fillers) \in Nat /\ Cardinality(Fillers') \in Nat
    BY <1>b, Grows
  <2> QED BY <1>c, <1>e, <2>1 DEF NoLostWakeup
<1>1. ASSUME NEW t \in Threads, Call(t) \/ Return(t) PROVE NoLostWakeup'
  <2>1. /\ Takers \subseteq Takers' /\ Fillers \subseteq Fillers'
        /\ WaitingNotEmpty' \subseteq WaitingNotEmpty
        /\ WaitingNotFull' \subseteq WaitingNotFull
    BY <1>1 DEF Call, Return, TypeOK, Takers, Fillers, WaitingNotEmpty, WaitingNotFull, At,
                PushOps, PopOps
  <2>2. m_queue' = m_queue /\ m_closed' = m_closed
    BY <1>1 DEF Call, Return
  <2> QED BY <1>e, <2>1, <2>2
\* An accepted item: the pushing thread notifies later, or has woken w already.
<1>2. ASSUME NEW t \in Threads, pc[t] = "lock", op[t] \in PushOps, Enqueue(t),
             NEW w \in Threads, w \in Takers' \ Takers \/ WaitingNotEmpty' = {},
             Takers \subseteq Takers', Fillers \ {t} \subseteq Fillers',
             WaitingNotEmpty' \subseteq WaitingNotEmpty,
             WaitingNotFull' \subseteq WaitingNotFull
      PROVE  NoLostWakeup'
  <2>1. Len(m_queue') = Len(m_queue) + 1 /\ m_closed' = m_closed
    BY <1>2 DEF Enqueue, TypeOK
  <2>2. w \in Takers' \ Takers => Cardinality(Takers) + 1 <= Cardinality(Takers')
    BY <1>2, <1>b, Joins
  <2>3. Cardinality(Fillers) <= Cardinality(Fillers') + 1
    BY <1>2, <1>b, Loses
  <2>4. /\ Cardinality(Takers) \in Nat /\ Cardinality(Takers') \in Nat
        /\ Cardinality(Fillers) \in Nat /\ Cardinality(Fillers') \in Nat
    BY <1>b, Grows
  <2> QED BY <1>2, <1>c, <2>1, <2>2, <2>3, <2>4 DEF NoLostWakeup
<1>3. ASSUME NEW t \in Threads, Push(t) PROVE NoLostWakeup'
  <2>1. CASE m_closed /\ EndWith(t, "dropped")
    <3>1. WaitingNotEmpty' = {} /\ WaitingNotFull' = {}
      BY <1>3, <2>1 DEF Push, EndWith, NoLostWakeup, TypeOK, WaitingNotEmpty, WaitingNotFull,
                        At
    <3> QED BY <3>1 DEF NoLostWakeup
  <2>2. CASE Enqueue(t) /\ pc' = [pc EXCEPT ![t] = "notify"]
    <3>1. /\ t \in Takers' \ Takers
          /\ Takers \subseteq Takers' /\ Fillers \ {t} \subseteq Fillers'
          /\ WaitingNotEmpty' \subseteq WaitingNotEmpty
          /\ WaitingNotFull' \subseteq WaitingNotFull
      BY <1>3, <2>2 DEF Push, Enqueue, TypeOK, Takers, Fillers, WaitingNotEmpty,
                        WaitingNotFull, At, PushOps, PopOps
    <3>2. pc[t] = "lock" /\ op[t] \in PushOps
      BY <1>3 DEF Push, PushOps
    <3> QED BY <1>2, <2>2, <3>1, <3>2
  <2>3. CASE ~m_closed /\ Full /\ GoTo(t, "wait")
    BY <1>3, <1>c, <1>d, <2>3 DEF Push, Full
  <2> QED BY <1>3, <2>1, <2>2, <2>3 DEF Push
<1>4. ASSUME NEW t \in Threads, TryPush(t) PROVE NoLostWakeup'
  <2>1. CASE Full /\ EndWith(t, "full")
    <3>1. /\ m_queue' = m_queue /\ m_closed' = m_closed /\ Len(m_queue) = MaxSize
          /\ Takers \subseteq Takers'
          /\ WaitingNotEmpty' \subseteq WaitingNotEmpty
          /\ WaitingNotFull' \subseteq WaitingNotFull
      BY <1>4, <1>c, <2>1 DEF TryPush, Full, EndWith, TypeOK, Takers, WaitingNotEmpty,
                              WaitingNotFull, At, PushOps, PopOps
    <3> QED BY <1>e, <3>1
  <2>2. CASE Enqueue(t) /\ NotifyOne(WaitingNotEmpty, t, "return")
    <3>1. pc[t] = "lock" /\ op[t] = "tryPush" /\ op[t] \in PushOps /\ op' = op
      BY <1>4, <2>2 DEF TryPush, Enqueue, PushOps
    <3>2. CASE WaitingNotEmpty = {} /\ pc' = [pc EXCEPT ![t] = "return"]
      <4>1. /\ WaitingNotEmpty' = {} /\ WaitingNotFull' \subseteq WaitingNotFull
            /\ Takers \subseteq Takers' /\ Fillers \ {t} \subseteq Fillers'
        BY <3>1, <3>2 DEF TypeOK, Takers, Fillers, WaitingNotEmpty, WaitingNotFull, At,
                          PushOps, PopOps
      <4> QED BY <1>2, <2>2, <3>1, <4>1
    <3>3. ASSUME NEW w \in WaitingNotEmpty, pc' = [pc EXCEPT ![t] = "return", ![w] = "lock"]
          PROVE  NoLostWakeup'
      <4>1. /\ w \in Threads /\ w # t /\ pc[w] = "wait" /\ op[w] \in PopOps
        BY <3>1, <3>3 DEF WaitingNotEmpty, At
      <4>2. /\ w \in Takers' \ Takers
            /\ WaitingNotEmpty' \subseteq WaitingNotEmpty
            /\ WaitingNotFull' \subseteq WaitingNotFull
            /\ Takers \subseteq Takers' /\ Fillers \ {t} \subseteq Fillers'
        BY <3>1, <3>3, <4>1 DEF TypeOK, Takers, Fillers, WaitingNotEmpty, WaitingNotFull, At,
                                PushOps, PopOps
      <4> QED BY <1>2, <2>2, <3>1, <4>1, <4>2
    <3> QED BY <2>2, <3>2, <3>3 DEF NotifyOne
  <2> QED BY <1>4, <2>1, <2>2 DEF TryPush
<1>5. ASSUME NEW t \in Threads, op[t] \in PopOps, pc[t] \in {"lock", "timedOut"}, PopFront(t)
      PROVE  NoLostWakeup'
  <2>1. Len(m_queue') = Len(m_queue) - 1 /\ m_closed' = m_closed
    BY <1>5, TailOfQueue DEF PopFront, TypeOK
  <2>2. /\ t \in Fillers' \ Fillers
        /\ Takers \ {t} \subseteq Takers' /\ Fillers \subseteq Fillers'
        /\ WaitingNotEmpty' \subseteq WaitingNotEmpty
        /\ WaitingNotFull' \subseteq WaitingNotFull
    BY <1>5 DEF PopFront, TypeOK, Takers, Fillers, WaitingNotEmpty, WaitingNotFull, At,
                PushOps, PopOps
  <2>3. Cardinality(Fillers) + 1 <= Cardinality(Fillers')
    BY <2>2, <1>b, Joins
  <2>4. Cardinality(Takers) <= Cardinality(Takers') + 1
    BY <2>2, <1>b, Loses
  <2>5. /\ Cardinality(Takers) \in Nat /\ Cardinality(Takers') \in Nat
        /\ Cardinality(Fillers) \in Nat /\ Cardinality(Fillers') \in Nat
    BY <1>b, Grows
  <2> QED BY <1>c, <2>1, <2>2, <2>3, <2>4, <2>5 DEF NoLostWakeup
<1>6. ASSUME NEW t \in Threads, op[t] \in PopOps, pc[t] \in {"lock", "timedOut"},
             m_queue = <<>>, NEW r, EndWith(t, r)
      PROVE  NoLostWakeup'
  <2>1. /\ m_queue' = m_queue /\ m_closed' = m_closed /\ Len(m_queue) = 0
        /\ Fillers \subseteq Fillers'
        /\ WaitingNotEmpty' \subseteq WaitingNotEmpty
        /\ WaitingNotFull' \subseteq WaitingNotFull
    BY <1>6, <1>c DEF EndWith, TypeOK, Fillers, WaitingNotEmpty, WaitingNotFull, At,
                      PushOps, PopOps
  <2> QED BY <1>e, <2>1
<1>7. ASSUME NEW t \in Threads, TryPop(t) \/ Pop(t) PROVE NoLostWakeup'
  <2>1. op[t] \in PopOps /\ pc[t] \in {"lock", "timedOut"}
    BY <1>7 DEF TryPop, Pop, PopOps
  <2>2. \/ PopFront(t)
        \/ m_queue = <<>> /\ EndWith(t, "none")
        \/ m_queue = <<>> /\ EndWith(t, "closed")
        \/ m_queue = <<>> /\ ~m_closed /\ pc[t] = "lock" /\ GoTo(t, "wait")
    BY <1>7 DEF TryPop, Pop
  <2> QED BY <1>5, <1>6, <1>c, <1>d, <2>1, <2>2
\* A notification after the unlock: w goes on in the place of t.
<1>8. ASSUME NEW t \in Threads, Notify(t) PROVE NoLostWakeup'
  <2>1. /\ pc[t] = "notify" /\ m_queue' = m_queue /\ m_closed' = m_closed /\ op' = op
        /\ op[t] = "push" \/ op[t] \in PopOps
    BY <1>8 DEF Notify, TypeOK, PushOps, PopOps
  <2>2. CASE op[t] = "push"
    <3>1. NotifyOne(WaitingNotEmpty, t, "return")
      BY <1>8, <2>2 DEF Notify
    <3>2. CASE WaitingNotEmpty = {} /\ pc' = [pc EXCEPT ![t] = "return"]
      <4>1. /\ WaitingNotEmpty' = {} /\ WaitingNotFull' \subseteq WaitingNotFull
            /\ Fillers \subseteq Fillers'
        BY <2>1, <2>2, <3>2 DEF TypeOK, Fillers, WaitingNotEmpty, WaitingNotFull, At,
                                PushOps, PopOps
      <4>2. Cardinality(Fillers) <= Cardinality(Fillers')
        BY <1>b, <4>1, Grows
      <4>3. Cardinality(Fillers) \in Nat /\ Cardinality(Fillers') \in Nat
        BY <1>b, Grows
      <4> QED BY <1>c, <2>1, <4>1, <4>2, <4>3 DEF NoLostWakeup
    <3>3. ASSUME NEW w \in WaitingNotEmpty, pc' = [pc EXCEPT ![t] = "return", ![w] = "lock"]
          PROVE  NoLostWakeup'
      <4>1. w \in Threads /\ w # t /\ pc[w] = "wait" /\ op[w] \in PopOps
        BY <2>1, <3>3 DEF WaitingNotEmpty, At
      <4>2. /\ w \in Takers' \ Takers /\ Takers \ {t} \subseteq Takers'
            /\ WaitingNotEmpty' \subseteq WaitingNotEmpty
            /\ WaitingNotFull' \subseteq WaitingNotFull
            /\ Fillers \subseteq Fillers'
        BY <2>1, <2>2, <3>3, <4>1 DEF TypeOK, Takers, Fillers, WaitingNotEmpty,
                                      WaitingNotFull, At, PushOps, PopOps
      <4>3. Cardinality(Takers) <= Cardinality(Takers')
        BY <1>b, <4>2, Replaces
      <4>4. Cardinality(Fillers) <= Cardinality(Fillers')
        BY <1>b, <4>2, Grows
      <4>5. /\ Cardinality(Takers) \in Nat /\ Cardinality(Takers') \in Nat
            /\ Cardinality(Fillers) \in Nat /\ Cardinality(Fillers') \in Nat
        BY <1>b, Grows
      <4> QED BY <1>c, <2>1, <4>2, <4>3, <4>4, <4>5 DEF NoLostWakeup
    <3> QED BY <3>1, <3>2, <3>3 DEF NotifyOne
  <2>3. CASE op[t] \in PopOps
    <3>1. NotifyOne(WaitingNotFull, t, "return")
      BY <1>8, <2>3 DEF Notify, PopOps
    <3>2. CASE WaitingNotFull = {} /\ pc' = [pc EXCEPT ![t] = "return"]
      <4>1. /\ WaitingNotFull' = {} /\ WaitingNotEmpty' \subseteq WaitingNotEmpty
            /\ Takers \subseteq Takers'
        BY <2>1, <2>3, <3>2 DEF TypeOK, Takers, WaitingNotEmpty, WaitingNotFull, At,
                                PushOps, PopOps
      <4>2. Cardinality(Takers) <= Cardinality(Takers')
        BY <1>b, <4>1, Grows
      <4>3. Cardinality(Takers) \in Nat /\ Cardinality(Takers') \in Nat
        BY <1>b, Grows
      <4> QED BY <1>c, <2>1, <4>1, <4>2, <4>3 DEF NoLostWakeup
    <3>3. ASSUME NEW w \in WaitingNotFull, pc' = [pc EXCEPT ![t] = "return", ![w] = "lock"]
          PROVE  NoLostWakeup'
      <4>1. w \in Threads /\ w # t /\ pc[w] = "wait" /\ op[w] \in PushOps
        BY <2>1, <3>3 DEF WaitingNotFull, At
      <4>2. /\ w \in Fillers' \ Fillers /\ Fillers \ {t} \subseteq Fillers'
            /\ WaitingNotEmpty' \subseteq WaitingNotEmpty
            /\ WaitingNotFull' \subseteq WaitingNotFull
            /\ Takers \subseteq Takers'
        BY <2>1, <2>3, <3>3, <4>1 DEF TypeOK, Takers, Fillers, WaitingNotEmpty,
                                      WaitingNotFull, At, PushOps, PopOps
      <4>3. Cardinality(Fillers) <= Cardinality(Fillers')
        BY <1>b, <4>2, Replaces
      <4>4. Cardinality(Takers) <= Cardinality(Takers')
        BY <1>b, <4>2, Grows
      <4>5. /\ Cardinality(Takers) \in Nat /\ Cardinality(Takers') \in Nat
            /\ Cardinality(Fillers) \in Nat /\ Cardinality(Fillers') \in Nat
        BY <1>b, Grows
      <4> QED BY <1>c, <2>1, <4>2, <4>3, <4>4, <4>5 DEF NoLostWakeup
    <3> QED BY <3>1, <3>2, <3>3 DEF NotifyOne
  <2> QED BY <2>1, <2>2, <2>3
<1>9. ASSUME NEW t \in Threads, Timeout(t) \/ SpuriousWake(t) PROVE NoLostWakeup'
  <2>1. /\ Takers \subseteq Takers' /\ Fillers \subseteq Fillers'
        /\ WaitingNotEmpty' \subseteq WaitingNotEmpty
        /\ WaitingNotFull' \subseteq WaitingNotFull
        /\ m_queue' = m_queue /\ m_closed' = m_closed
    BY <1>9 DEF Timeout, SpuriousWake, GoTo, TypeOK, Takers, Fillers, WaitingNotEmpty,
                WaitingNotFull, At, PushOps, PopOps
  <2> QED BY <1>e, <2>1
<1>10. CASE Close \/ Reopen
  <2>1. pc' = [t \in Threads |-> IF pc[t] = "wait" THEN "lock" ELSE pc[t]]
    BY <1>10 DEF Close, Reopen, NotifyAll
  <2>2. \A t \in Threads : pc'[t] # "wait"
    BY <2>1
  <2>3. WaitingNotEmpty' = {} /\ WaitingNotFull' = {}
    BY <2>2 DEF WaitingNotEmpty, WaitingNotFull, At
  <2> QED BY <2>3 DEF NoLostWakeup
<1>11. CASE UNCHANGED vars
  <2>1. /\ Takers' = Takers /\ Fillers' = Fillers
        /\ WaitingNotEmpty' = WaitingNotEmpty /\ WaitingNotFull' = WaitingNotFull
        /\ m_queue' = m_queue /\ m_closed' = m_closed
    BY <1>11 DEF vars, Takers, Fillers, WaitingNotEmpty, WaitingNotFull, At
  <2> QED BY <1>e, <2>1
<1> QED
  BY <1>1, <1>3, <1>4, <1>7, <1>8, <1>9, <1>10, <1>11 DEF Next, Step

\* NO LOST WAKE-UP.  While a thread is blocked on a condition variable of the
\* queue, each item (or free slot) it could have is already on its way to some
\* thread; and no thread is blocked on a closed queue.
THEOREM NoWakeupIsLost == Spec => []NoLostWakeup
<1>1. Init => TypeOK /\ NoLostWakeup
  <2> SUFFICES ASSUME Init PROVE NoLostWakeup
    BY InitType
  <2>1. WaitingNotEmpty = {} /\ WaitingNotFull = {}
    BY DEF Init, WaitingNotEmpty, WaitingNotFull, At
  <2> QED BY <2>1 DEF NoLostWakeup
<1>2. (TypeOK /\ NoLostWakeup) /\ [Next]_vars => (TypeOK /\ NoLostWakeup)'
  BY NextType, NextWakeup
<1> QED BY <1>1, <1>2, PTL DEF Spec

----------------------------------------------------------------------------
\* A thread moves from one location to another, alone or with a waiting
\* thread that it wakes and whose own call is no further for it.
LEMMA StatusMoves ==
  ASSUME TypeOK, NEW t \in Threads, NEW l \in Locations,
         \/ pc' = [pc EXCEPT ![t] = l]
         \/ \E w \in Threads \ {t} : pc[w] = "wait" /\ pc' = [pc EXCEPT ![t] = l, ![w] = "lock"]
  PROVE  Status' = [Status EXCEPT ![t] = CASE l = "idle" -> "idle"
                                           [] l \in {"notify", "return"} -> "done"
                                           [] OTHER -> "called"]
BY DEF Status, TypeOK, Locations

\* Where a call is, in the words of the abstract queue.
LEMMA StatusIs ==
  ASSUME TypeOK, NEW t \in Threads
  PROVE  /\ pc[t] = "idle" => Status[t] = "idle"
         /\ pc[t] \in {"lock", "wait", "timedOut"} => Status[t] = "called"
         /\ pc[t] \in {"notify", "return"} => Status[t] = "done"
         /\ Status \in [Threads -> {"idle", "called", "done"}]
BY DEF Status, TypeOK, Locations

\* What NotifyOne leaves to be seen.
LEMMA NotifyMoves ==
  ASSUME TypeOK, NEW t \in Threads, pc[t] \in {"lock", "notify"},
         NEW S \in {WaitingNotEmpty, WaitingNotFull}, NotifyOne(S, t, "return")
  PROVE  Status' = [Status EXCEPT ![t] = "done"]
<1>1. \A w \in S : w \in Threads \ {t} /\ pc[w] = "wait"
  BY DEF WaitingNotEmpty, WaitingNotFull, At
<1>2. \/ pc' = [pc EXCEPT ![t] = "return"]
      \/ \E w \in Threads \ {t} : pc[w] = "wait" /\ pc' = [pc EXCEPT ![t] = "return", ![w] = "lock"]
  BY <1>1 DEF NotifyOne
<1> QED BY <1>2, StatusMoves DEF Locations

\* Every step of the queue is one of the abstract queue, or changes nothing there.
LEMMA StepIsFifo == TypeOK /\ [Next]_vars => [Fifo!Next]_(Fifo!vars)
<1> SUFFICES ASSUME TypeOK, [Next]_vars PROVE [Fifo!Next]_(Fifo!vars)
  OBVIOUS
<1>1. ASSUME NEW t \in Threads, Call(t) PROVE Fifo!Invoke(t)
  <2>1. Status[t] = "idle" /\ Status' = [Status EXCEPT ![t] = "called"]
    BY <1>1, StatusIs, StatusMoves DEF Call, Locations
  <2> QED BY <1>1, <2>1 DEF Call, Fifo!Invoke, Fifo!PushOps, Fifo!PopOps, PushOps, PopOps
<1>2. ASSUME NEW t \in Threads, Return(t) PROVE Fifo!Return(t)
  <2>1. Status[t] = "done" /\ Status' = [Status EXCEPT ![t] = "idle"]
    BY <1>2, StatusIs, StatusMoves DEF Return, Locations
  <2> QED BY <1>2, <2>1 DEF Return, Fifo!Return
\* A refused call: Status is all that EndWith adds to what the abstract one says.
<1>3. ASSUME NEW t \in Threads, pc[t] \in {"lock", "timedOut"}, NEW r, EndWith(t, r)
      PROVE  Fifo!TakesEffect(t, r) /\ m_queue' = m_queue /\ item' = item
  <2>1. Status[t] = "called" /\ Status' = [Status EXCEPT ![t] = "done"]
    BY <1>3, StatusIs, StatusMoves DEF EndWith, Locations
  <2> QED BY <1>3, <2>1 DEF EndWith, Fifo!TakesEffect
<1>4. ASSUME NEW t \in Threads, pc[t] = "lock", op[t] \in PushOps,
             op[t] = "push" => ~m_closed, Enqueue(t),
             Status' = [Status EXCEPT ![t] = "done"]
      PROVE  Fifo!Put(t)
  <2>1. Status[t] = "called" /\ Len(m_queue) < MaxSize
    BY <1>4, StatusIs, QueueAssumption DEF Enqueue, Full, TypeOK
  <2> QED BY <1>4, <2>1 DEF Enqueue, Fifo!Put, Fifo!TakesEffect, Fifo!PushOps, PushOps
<1>5. ASSUME NEW t \in Threads, pc[t] \in {"lock", "timedOut"}, op[t] \in PopOps, PopFront(t)
      PROVE  Fifo!Take(t)
  <2>1. Status[t] = "called" /\ Status' = [Status EXCEPT ![t] = "done"]
    BY <1>5, StatusIs, StatusMoves DEF PopFront, Locations
  <2> QED BY <1>5, <2>1 DEF PopFront, Fifo!Take, Fifo!TakesEffect, Fifo!PopOps, PopOps
\* A step that leaves every call where its caller knows it to be.
<1>6. ASSUME NEW t \in Threads, pc[t] # "idle", pc[t] # "notify", pc[t] # "return",
             NEW l \in {"lock", "wait", "timedOut"}, GoTo(t, l)
      PROVE  UNCHANGED Fifo!vars
  <2>1. Status[t] = "called" /\ Status' = [Status EXCEPT ![t] = "called"]
    BY <1>6, StatusIs, StatusMoves DEF GoTo, Locations, TypeOK
  <2>2. Status' = Status
    BY <2>1, StatusIs
  <2> QED BY <1>6, <2>2 DEF GoTo, Fifo!vars
<1>7. ASSUME NEW t \in Threads, Push(t)
      PROVE  Fifo!Put(t) \/ Fifo!Refuse(t) \/ UNCHANGED Fifo!vars
  <2>1. CASE m_closed /\ EndWith(t, "dropped")
    BY <1>3, <1>7, <2>1 DEF Push, Fifo!Refuse
  <2>2. CASE ~m_closed /\ Enqueue(t) /\ pc' = [pc EXCEPT ![t] = "notify"]
    <3>1. Status' = [Status EXCEPT ![t] = "done"]
      BY <2>2, StatusMoves DEF Locations
    <3> QED BY <1>4, <1>7, <2>2, <3>1 DEF Push, PushOps
  <2>3. CASE GoTo(t, "wait")
    BY <1>6, <1>7, <2>3 DEF Push
  <2> QED BY <1>7, <2>1, <2>2, <2>3 DEF Push
<1>8. ASSUME NEW t \in Threads, TryPush(t) PROVE Fifo!Put(t) \/ Fifo!Refuse(t)
  <2>1. CASE Full /\ EndWith(t, "full")
    BY <1>3, <1>8, <2>1 DEF TryPush, Full, Fifo!Refuse
  <2>2. CASE Enqueue(t) /\ NotifyOne(WaitingNotEmpty, t, "return")
    <3>1. Status' = [Status EXCEPT ![t] = "done"]
      BY <1>8, <2>2, NotifyMoves DEF TryPush
    <3> QED BY <1>4, <1>8, <2>2, <3>1 DEF TryPush, PushOps
  <2> QED BY <1>8, <2>1, <2>2 DEF TryPush
<1>9. ASSUME NEW t \in Threads, TryPop(t) \/ Pop(t)
      PROVE  Fifo!Take(t) \/ Fifo!GiveUp(t) \/ UNCHANGED Fifo!vars
  <2>1. /\ pc[t] \in {"lock", "timedOut"} /\ op[t] \in PopOps
        /\ \/ PopFront(t)
           \/ m_queue = <<>> /\ op[t] = "tryPop" /\ EndWith(t, "none")
           \/ m_queue = <<>> /\ op[t] = "pop" /\ m_closed /\ EndWith(t, "closed")
           \/ GoTo(t, "wait")
    BY <1>9 DEF TryPop, Pop, PopOps
  <2>2. CASE PopFront(t)
    BY <1>5, <2>1, <2>2
  <2>3. CASE m_queue = <<>> /\ op[t] = "tryPop" /\ EndWith(t, "none")
    BY <1>3, <2>1, <2>3 DEF Fifo!GiveUp
  <2>4. CASE m_queue = <<>> /\ op[t] = "pop" /\ m_closed /\ EndWith(t, "closed")
    BY <1>3, <2>1, <2>4 DEF Fifo!GiveUp
  <2>5. CASE GoTo(t, "wait")
    BY <1>6, <2>1, <2>5
  <2> QED BY <2>1, <2>2, <2>3, <2>4, <2>5
<1>10. ASSUME NEW t \in Threads, Notify(t) PROVE UNCHANGED Fifo!vars
  <2>1. Status[t] = "done" /\ Status' = [Status EXCEPT ![t] = "done"]
    BY <1>10, StatusIs, NotifyMoves DEF Notify
  <2>2. Status' = Status
    BY <2>1, StatusIs
  <2> QED BY <1>10, <2>2 DEF Notify, Fifo!vars
<1>11. ASSUME NEW t \in Threads, Timeout(t) \/ SpuriousWake(t) PROVE UNCHANGED Fifo!vars
  BY <1>6, <1>11 DEF Timeout, SpuriousWake
<1>12. CASE Close \/ Reopen
  <2>1. pc' = [t \in Threads |-> IF pc[t] = "wait" THEN "lock" ELSE pc[t]]
    BY <1>12 DEF Close, Reopen, NotifyAll
  <2>2. Status' = Status
    BY <2>1 DEF Status, TypeOK, Locations
  <2>3. Fifo!SetClosed
    BY <1>12, <2>2 DEF Close, Reopen, Fifo!SetClosed
  <2> QED BY <2>3 DEF Fifo!Next
<1>13. CASE UNCHANGED vars
  BY <1>13 DEF vars, Fifo!vars, Status
<1> QED
  BY <1>1, <1>2, <1>7, <1>8, <1>9, <1>10, <1>11, <1>12, <1>13 DEF Next, Step, Fifo!Next

\* THE QUEUE IS A FIFO.  Every call of ThreadSafeQueue, however its threads
\* wait, wake, time out and notify, takes effect once between call and return
\* on a bounded first-in first-out content.
THEOREM QueueIsFifo == Spec => ImplementsFifo
<1>1. Init => Fifo!Init
  BY DEF Init, Fifo!Init, Status
<1>2. TypeOK /\ [Next]_vars => [Fifo!Next]_(Fifo!vars)
  BY StepIsFifo
<1> QED BY <1>1, <1>2, TypeCorrect, PTL DEF Spec, ImplementsFifo, Fifo!Spec

----------------------------------------------------------------------------
(* Two such queues and a connection in a row: the path of the input *)

\* An event, whatever its number, and the events of a sequence.
Entry == [number : Nat, key : All, down : BOOLEAN]
EventsOf(s) == {s[i] : i \in DOMAIN s}

Before(S, T) == \A e \in S, f \in T : e.number < f.number
Increasing(s) == \A i, j \in DOMAIN s : i < j => s[i].number < s[j].number

\* How k will be when the events S have been injected, the last one last.
WillBe(S, k, held) ==
    IF \A e \in S : e.key # k THEN held
    ELSE \E e \in S : /\ e.key = k /\ e.down
                      /\ \A f \in S : f.key = k => f.number <= e.number

\* What is on its way.
OnTheWay == EventsOf(m_inputQueue) \cup EventsOf(wire) \cup EventsOf(sending)
            \cup EventsOf(ToSend)

PathTypes ==
    /\ m_inputQueue \in Seq(Entry) /\ wire \in Seq(Entry) /\ sending \in Seq(Entry)
    /\ ToSend \in Seq(Entry) /\ Len(sending) <= 1
    /\ m_running => sender = "run"
    /\ events \in Nat /\ lastInjected \in Nat
    /\ userHeld \subseteq All /\ agentHeld \subseteq All /\ missed \subseteq All

\* Each queue is in order, and all that is in one is behind all that is in the
\* next; all of it is after what was injected.
PathOrder ==
    /\ Increasing(m_inputQueue) /\ Increasing(wire) /\ Increasing(ToSend)
    /\ Before(EventsOf(m_inputQueue), EventsOf(wire))
    /\ Before(EventsOf(m_inputQueue) \cup EventsOf(wire), EventsOf(sending))
    /\ Before(EventsOf(m_inputQueue) \cup EventsOf(wire) \cup EventsOf(sending),
              EventsOf(ToSend))
    /\ \A e \in OnTheWay : lastInjected < e.number /\ e.number <= events
    /\ lastInjected <= events

PathInStep == \A k \in All \ missed : WillBe(OnTheWay, k, k \in agentHeld) <=> k \in userHeld

PathInv == PathTypes /\ PathOrder /\ PathInStep

\* The first of a sequence leaves it.
LEMMA TailEvents ==
  ASSUME NEW s \in Seq(Entry), s # <<>>
  PROVE  /\ Head(s) \in Entry /\ Tail(s) \in Seq(Entry) /\ Len(Tail(s)) = Len(s) - 1
         /\ EventsOf(s) = {Head(s)} \cup EventsOf(Tail(s))
         /\ Increasing(s) => Increasing(Tail(s)) /\ Before({Head(s)}, EventsOf(Tail(s)))
<1>1. /\ Head(s) \in Entry /\ Tail(s) \in Seq(Entry) /\ Head(s) = s[1]
      /\ Len(s) \in Nat \ {0} /\ DOMAIN s = 1 .. Len(s) /\ Len(Tail(s)) = Len(s) - 1
      /\ DOMAIN Tail(s) = 1 .. Len(s) - 1
      /\ \A i \in 1 .. Len(s) - 1 : Tail(s)[i] = s[i + 1]
  OBVIOUS
<1>2. EventsOf(s) = {Head(s)} \cup EventsOf(Tail(s))
  <2>1. ASSUME NEW i \in DOMAIN s PROVE s[i] \in {Head(s)} \cup EventsOf(Tail(s))
    <3>1. CASE i = 1
      BY <1>1, <3>1
    <3>2. CASE i # 1
      <4>1. i - 1 \in DOMAIN Tail(s) /\ Tail(s)[i - 1] = s[i]
        BY <1>1, <3>2
      <4> QED BY <4>1 DEF EventsOf
    <3> QED BY <3>1, <3>2
  <2>2. ASSUME NEW i \in DOMAIN Tail(s) PROVE Tail(s)[i] \in EventsOf(s)
    <3>1. i + 1 \in DOMAIN s /\ Tail(s)[i] = s[i + 1]
      BY <1>1
    <3> QED BY <3>1 DEF EventsOf
  <2>3. Head(s) \in EventsOf(s)
    BY <1>1 DEF EventsOf
  <2> QED BY <2>1, <2>2, <2>3 DEF EventsOf
<1>3. ASSUME Increasing(s) PROVE Increasing(Tail(s)) /\ Before({Head(s)}, EventsOf(Tail(s)))
  BY <1>1, <1>3 DEF Increasing, Before, EventsOf
<1> QED BY <1>1, <1>2, <1>3

\* An event is put behind a sequence.
LEMMA AppendEvents ==
  ASSUME NEW s \in Seq(Entry), NEW e \in Entry
  PROVE  /\ Append(s, e) \in Seq(Entry) /\ Len(Append(s, e)) = Len(s) + 1
         /\ EventsOf(Append(s, e)) = EventsOf(s) \cup {e}
         /\ Increasing(s) /\ Before(EventsOf(s), {e}) => Increasing(Append(s, e))
<1> DEFINE t == Append(s, e)
<1>1. /\ t \in Seq(Entry) /\ Len(t) = Len(s) + 1 /\ Len(s) \in Nat
      /\ DOMAIN s = 1 .. Len(s) /\ DOMAIN t = 1 .. Len(s) + 1
      /\ \A i \in 1 .. Len(s) : t[i] = s[i]
      /\ t[Len(s) + 1] = e
  OBVIOUS
<1> HIDE DEF t
<1>2. ASSUME NEW i \in DOMAIN t
      PROVE  \/ i \in DOMAIN s /\ t[i] = s[i]
             \/ i = Len(s) + 1 /\ t[i] = e
  <2>1. i \in 1 .. Len(s) \/ i = Len(s) + 1
    BY <1>1
  <2> QED BY <1>1, <2>1
<1>3. EventsOf(t) = EventsOf(s) \cup {e}
  BY <1>1, <1>2 DEF EventsOf
<1>4. ASSUME Increasing(s), Before(EventsOf(s), {e}) PROVE Increasing(t)
  BY <1>1, <1>2, <1>4 DEF Increasing, Before, EventsOf
<1> QED BY <1>1, <1>3, <1>4 DEF t

LEMMA ConcatEvents ==
  ASSUME NEW s \in Seq(Entry), NEW t \in Seq(Entry)
  PROVE  /\ s \o t \in Seq(Entry)
         /\ EventsOf(s \o t) = EventsOf(s) \cup EventsOf(t)
         /\ Increasing(s) /\ Increasing(t) /\ Before(EventsOf(s), EventsOf(t))
               => Increasing(s \o t)
<1> DEFINE u == s \o t
<1>1. /\ u \in Seq(Entry) /\ Len(s) \in Nat /\ Len(t) \in Nat
      /\ DOMAIN s = 1 .. Len(s) /\ DOMAIN t = 1 .. Len(t) /\ DOMAIN u = 1 .. Len(s) + Len(t)
      /\ \A i \in 1 .. Len(s) : u[i] = s[i]
      /\ \A i \in 1 .. Len(t) : u[i + Len(s)] = t[i]
  OBVIOUS
<1> HIDE DEF u
<1>2. ASSUME NEW i \in DOMAIN u, i \notin DOMAIN s
      PROVE  i - Len(s) \in DOMAIN t /\ u[i] = t[i - Len(s)]
  <2>1. i - Len(s) \in 1 .. Len(t) /\ (i - Len(s)) + Len(s) = i
    BY <1>1, <1>2
  <2> QED BY <1>1, <2>1
<1>3. EventsOf(u) = EventsOf(s) \cup EventsOf(t)
  <2>1. ASSUME NEW i \in DOMAIN t PROVE t[i] \in EventsOf(u)
    <3>1. i + Len(s) \in DOMAIN u /\ u[i + Len(s)] = t[i]
      BY <1>1
    <3> QED BY <3>1 DEF EventsOf
  <2> QED BY <1>1, <1>2, <2>1 DEF EventsOf
<1>4. ASSUME Increasing(s), Increasing(t), Before(EventsOf(s), EventsOf(t)) PROVE Increasing(u)
  <2> SUFFICES ASSUME NEW i \in DOMAIN u, NEW j \in DOMAIN u, i < j
               PROVE  u[i].number < u[j].number
    BY DEF Increasing
  <2>1. CASE i \in DOMAIN s /\ j \in DOMAIN s
    BY <1>1, <1>4, <2>1 DEF Increasing
  <2>2. CASE i \in DOMAIN s /\ j \notin DOMAIN s
    BY <1>1, <1>2, <1>4, <2>2 DEF Before, EventsOf
  <2>3. CASE i \notin DOMAIN s
    <3>1. j \notin DOMAIN s /\ i - Len(s) < j - Len(s)
      BY <1>1, <2>3
    <3> QED BY <1>2, <1>4, <2>3, <3>1 DEF Increasing
  <2> QED BY <2>1, <2>2, <2>3
<1> QED BY <1>1, <1>3, <1>4 DEF u

LEMMA EmptyEvents ==
  <<>> \in Seq(Entry) /\ Len(<<>>) = 0 /\ EventsOf(<<>>) = {} /\ Increasing(<<>>)
<1>1. <<>> \in Seq(Entry) /\ DOMAIN <<>> = {} /\ Len(<<>>) = 0
  OBVIOUS
<1> QED BY <1>1 DEF EventsOf, Increasing

LEMMA OneEvent ==
  ASSUME NEW e \in Entry
  PROVE  /\ <<e>> \in Seq(Entry) /\ Len(<<e>>) = 1 /\ Increasing(<<e>>)
         /\ EventsOf(<<e>>) = {e}
<1>1. <<e>> \in Seq(Entry) /\ DOMAIN <<e>> = {1} /\ Len(<<e>>) = 1 /\ <<e>>[1] = e
  OBVIOUS
<1>2. EventsOf(<<e>>) = {e}
  BY <1>1 DEF EventsOf
<1> QED BY <1>1, <1>2 DEF Increasing

\* What InputSendThread has popped is an event, or nothing.
LEMMA SendingFacts ==
  ASSUME NEW s \in Seq(Entry), Len(s) <= 1, s # <<>>
  PROVE  Head(s) \in Entry /\ s = <<Head(s)>>
OBVIOUS

LEMMA SubsetOfEntry ==
  ASSUME NEW s \in Seq(Entry)
  PROVE  EventsOf(s) \subseteq Entry
BY DEF EventsOf

----------------------------------------------------------------------------
(* How a key will be *)

\* The last event of a key decides.
LEMMA WillAdd ==
  ASSUME NEW S, S \subseteq Entry, NEW e \in Entry, \A f \in S : f.number < e.number,
         NEW k, NEW held
  PROVE  /\ k = e.key => (WillBe(S \cup {e}, k, held) <=> e.down)
         /\ k # e.key => (WillBe(S \cup {e}, k, held) <=> WillBe(S, k, held))
<1>1. \A f \in S \cup {e} : f.number \in Nat
  BY DEF Entry
<1>2. CASE k = e.key
  BY <1>1, <1>2 DEF WillBe
<1>3. CASE k # e.key
  BY <1>3 DEF WillBe
<1> QED BY <1>2, <1>3

\* An event of another key, or with a later one of its key, does not matter.
LEMMA WillDrop ==
  ASSUME NEW S, S \subseteq Entry, NEW e \in S, NEW k, NEW held,
         e.key # k \/ \E f \in S : f.key = k /\ e.number < f.number
  PROVE  WillBe(S \ {e}, k, held) <=> WillBe(S, k, held)
<1>1. \A f \in S : f.number \in Nat
  BY DEF Entry
<1>2. CASE e.key # k
  BY <1>2 DEF WillBe
<1>3. ASSUME NEW f \in S, f.key = k, e.key = k, e.number < f.number
      PROVE  WillBe(S \ {e}, k, held) <=> WillBe(S, k, held)
  <2>1. f \in S \ {e}
    BY <1>1, <1>3
  <2>2. ASSUME NEW g \in S
        PROVE  (\A h \in S : h.key = k => h.number <= g.number)
               <=> (g # e /\ \A h \in S \ {e} : h.key = k => h.number <= g.number)
    BY <1>1, <1>3, <2>1
  <2> QED BY <1>3, <2>1, <2>2 DEF WillBe
<1> QED BY <1>2, <1>3

\* The first event is injected.
LEMMA WillInject ==
  ASSUME NEW S, S \subseteq Entry, NEW e \in S, \A f \in S \ {e} : e.number < f.number,
         NEW k, NEW held
  PROVE  WillBe(S, k, held) <=> WillBe(S \ {e}, k, IF e.key = k THEN e.down ELSE held)
<1>1. \A f \in S : f.number \in Nat
  BY DEF Entry
<1>2. CASE e.key # k
  BY <1>2 DEF WillBe
<1>3. CASE e.key = k /\ \A f \in S \ {e} : f.key # k
  BY <1>1, <1>3 DEF WillBe
<1>4. CASE e.key = k /\ \E f \in S \ {e} : f.key = k
  <2>1. WillBe(S, k, held) <=> WillBe(S \ {e}, k, held)
    BY <1>4, WillDrop
  <2>2. \A h1, h2 : WillBe(S \ {e}, k, h1) <=> WillBe(S \ {e}, k, h2)
    BY <1>4 DEF WillBe
  <2> QED BY <2>1, <2>2
<1> QED BY <1>2, <1>3, <1>4

----------------------------------------------------------------------------
(* The steps of the input path *)

LEMMA OnTheWayTypes == PathTypes => OnTheWay \subseteq Entry
BY SubsetOfEntry, Zenon DEF PathTypes, OnTheWay

LEMMA InitPath == InputInit => PathInv
<1> SUFFICES ASSUME InputInit PROVE PathInv
  OBVIOUS
<1>1. OnTheWay = {}
  BY EmptyEvents DEF InputInit, OnTheWay, ToSend
<1>2. PathTypes /\ PathOrder
  BY <1>1, EmptyEvents DEF InputInit, PathTypes, PathOrder, Before, ToSend
<1>3. PathInStep
  BY <1>1 DEF InputInit, PathInStep, WillBe
<1> QED BY <1>2, <1>3 DEF PathInv

chain == <<m_inputQueue, wire, sending, ToSend>>

\* What the user does is not forwarded, or is nothing to forward.
LEMMA NotForwarded ==
  ASSUME PathInv, UNCHANGED chain, UNCHANGED <<agentHeld, lastInjected>>,
         events' \in {events, events + 1}, NEW k \in All,
         userHeld' \in SUBSET All, userHeld' \ {k} = userHeld \ {k},
         \/ missed' = missed \cup {k}
         \/ missed' = missed /\ userHeld' = userHeld,
         UNCHANGED <<m_running, sender>>
  PROVE  PathInv'
<1>1. OnTheWay' = OnTheWay /\ OnTheWay \subseteq Entry
  BY OnTheWayTypes DEF PathInv, OnTheWay, chain
<1>2. PathTypes'
  BY DEF PathInv, PathTypes, chain
<1>3. PathOrder'
  <2>1. \A e \in OnTheWay : e.number <= events'
    <3>1. \A e \in OnTheWay : e.number \in Nat /\ e.number <= events
      BY <1>1 DEF PathInv, PathOrder, Entry
    <3> QED BY <3>1 DEF PathInv, PathTypes
  <2>2. lastInjected <= events'
    BY DEF PathInv, PathTypes, PathOrder
  <2> QED BY <1>1, <2>1, <2>2 DEF PathInv, PathOrder, chain
<1>4. PathInStep'
  BY <1>1 DEF PathInv, PathInStep
<1> QED BY <1>2, <1>3, <1>4 DEF PathInv

\* What the user does is forwarded.
LEMMA Forwarded ==
  ASSUME PathInv, NEW k \in All, NEW down \in BOOLEAN,
         ToSend' = Append(ToSend, Event(k, down)),
         UNCHANGED <<m_inputQueue, wire, sending, agentHeld, lastInjected, m_running, sender>>,
         events' = events + 1, missed' = missed \ {k},
         userHeld' \in SUBSET All, userHeld' \ {k} = userHeld \ {k}, k \in userHeld' <=> down
  PROVE  PathInv'
<1> DEFINE e == Event(k, down)
<1>1. e \in Entry /\ e.number = events + 1 /\ e.key = k /\ e.down = down
  BY DEF PathInv, PathTypes, Event, Entry
<1> HIDE DEF e
<1>2. OnTheWay \subseteq Entry /\ \A f \in OnTheWay : f.number <= events /\ f.number < e.number
  BY <1>1, OnTheWayTypes DEF PathInv, PathTypes, PathOrder, Entry
<1>3. /\ ToSend' \in Seq(Entry)
      /\ EventsOf(ToSend)' = EventsOf(ToSend) \cup {e}
      /\ Increasing(ToSend) /\ Before(EventsOf(ToSend), {e})
            => Increasing(ToSend)'
  BY <1>1, AppendEvents DEF PathInv, PathTypes, e
<1>4. OnTheWay' = OnTheWay \cup {e}
  BY <1>3 DEF OnTheWay
<1>5. PathTypes'
  BY <1>3 DEF PathInv, PathTypes
<1>6. PathOrder'
  <2>1. Increasing(ToSend)'
    BY <1>2, <1>3 DEF PathInv, PathOrder, Before, OnTheWay
  <2>2. Before(EventsOf(m_inputQueue) \cup EventsOf(wire) \cup EventsOf(sending),
               EventsOf(ToSend) \cup {e})
    BY <1>2 DEF PathInv, PathOrder, Before, OnTheWay
  <2>3. /\ \A f \in OnTheWay \cup {e} : lastInjected < f.number /\ f.number <= events + 1
        /\ lastInjected <= events + 1
    BY <1>1, <1>2 DEF PathInv, PathTypes, PathOrder, Entry
  <2> QED BY <1>3, <1>4, <2>1, <2>2, <2>3 DEF PathInv, PathOrder
<1>7. PathInStep'
  <2> SUFFICES ASSUME NEW x \in All, x \notin missed'
               PROVE  WillBe(OnTheWay', x, x \in agentHeld) <=> x \in userHeld'
    BY DEF PathInStep
  <2>1. CASE x = k
    BY <1>1, <1>2, <1>4, <2>1, WillAdd
  <2>2. CASE x # k
    <3>1. WillBe(OnTheWay', x, x \in agentHeld) <=> WillBe(OnTheWay, x, x \in agentHeld)
      BY <1>1, <1>2, <1>4, <2>2, WillAdd
    <3> QED BY <2>2, <3>1 DEF PathInv, PathInStep
  <2> QED BY <2>1, <2>2
<1> QED BY <1>5, <1>6, <1>7 DEF PathInv

LEMMA UserStep ==
  ASSUME PathInv, User
  PROVE  PathInv'
<1>1. ASSUME NEW k \in All, NEW down \in BOOLEAN, Forward(k, down), Happens,
             UNCHANGED <<windowVars, m_running, sendVars, wire, agentVars>>,
             userHeld' \in SUBSET All, userHeld' \ {k} = userHeld \ {k}, k \in userHeld' <=> down
      PROVE  PathInv'
  <2>1. events' = events + 1 /\ UNCHANGED <<m_inputQueue, wire, sending, agentHeld, lastInjected, m_running, sender>>
    BY <1>1 DEF Happens, sendVars, agentVars
  <2>2. \/ ToSend' = Append(ToSend, Event(k, down)) /\ missed' = missed \ {k}
        \/ UNCHANGED ToSend /\ missed' = missed \cup {k}
    <3>1. \/ /\ m_running /\ m_inputSendQueue' = Append(m_inputSendQueue, Event(k, down))
             /\ missed' = missed \ {k}
          \/ UNCHANGED m_inputSendQueue /\ missed' = missed \cup {k}
      BY <1>1 DEF Forward, tryPush
    <3> QED BY <2>1, <3>1 DEF PathInv, PathTypes, ToSend
  <2>3. CASE ToSend' = Append(ToSend, Event(k, down)) /\ missed' = missed \ {k}
    BY <1>1, <2>1, <2>3, Forwarded
  <2>4. CASE UNCHANGED ToSend /\ missed' = missed \cup {k}
    BY <1>1, <2>1, <2>4, NotForwarded DEF chain
  <2> QED BY <2>2, <2>3, <2>4
<1>2. userHeld \in SUBSET All
  BY DEF PathInv, PathTypes
<1>3. ASSUME NEW k \in All, Press(k) PROVE PathInv'
  BY <1>1, <1>2, <1>3 DEF Press
<1>4. ASSUME NEW k \in All, Repeat(k) PROVE PathInv'
  <2>1. CASE Len(m_inputSendQueue) < SendCapacity
    BY <1>1, <1>2, <1>4, <2>1 DEF Repeat
  <2>2. CASE ~(Len(m_inputSendQueue) < SendCapacity)
    <3>1. /\ UNCHANGED chain /\ UNCHANGED <<agentHeld, lastInjected>> /\ events' = events + 1
          /\ userHeld' = userHeld /\ missed' = missed /\ UNCHANGED <<m_running, sender>>
      BY <1>4, <2>2 DEF Repeat, Happens, chain, sendVars, agentVars, ToSend
    <3> QED BY <1>2, <3>1, NotForwarded
  <2> QED BY <2>1, <2>2
<1>5. ASSUME NEW k \in All, ReleaseKey(k) PROVE PathInv'
  BY <1>1, <1>2, <1>5 DEF ReleaseKey
<1>6. CASE ScrollLock \/ KillFocus \/ SetFocus \/ Quit
  <2>1. /\ UNCHANGED chain /\ UNCHANGED <<agentHeld, lastInjected, userHeld, missed>>
        /\ events' \in {events, events + 1} /\ sender' = sender /\ (m_running' => m_running)
    BY <1>6 DEF ToSend, ScrollLock, KillFocus, SetFocus, Quit, Happens, chain, sendVars, agentVars
  <2>2. OnTheWay' = OnTheWay /\ OnTheWay \subseteq Entry
    BY <2>1, OnTheWayTypes DEF PathInv, OnTheWay, chain
  <2>3. PathOrder'
    <3>1. \A e \in OnTheWay : e.number <= events'
      <4>1. \A e \in OnTheWay : e.number \in Nat /\ e.number <= events
        BY <2>2 DEF PathInv, PathOrder, Entry
      <4> QED BY <2>1, <4>1 DEF PathInv, PathTypes
    <3>2. lastInjected <= events'
      BY <2>1 DEF PathInv, PathTypes, PathOrder
    <3> QED BY <2>1, <2>2, <3>1, <3>2 DEF PathInv, PathOrder, chain
  <2> QED BY <2>1, <2>2, <2>3 DEF PathInv, PathTypes, PathInStep, chain
<1> QED BY <1>3, <1>4, <1>5, <1>6 DEF User

----------------------------------------------------------------------------
(* The threads' steps *)

\* An event that goes from one queue to the next: nothing is lost by it.
LEMMA Moves ==
  ASSUME PathInv, PathTypes', PathOrder', OnTheWay' = OnTheWay,
         UNCHANGED <<userHeld, agentHeld, missed>>
  PROVE  PathInv'
BY DEF PathInv, PathInStep

\* An event of which a later one of the same key is among those behind it, or
\* whose key is missed from now on.
LEMMA Loses1 ==
  ASSUME PathInv, NEW e \in OnTheWay, NEW B, B \subseteq OnTheWay, Before({e}, B),
         OnTheWay' = OnTheWay \ {e}, UNCHANGED <<userHeld, agentHeld>>,
         missed \subseteq missed', e.key \in missed' \/ \E f \in B : f.key = e.key
  PROVE  PathInStep'
<1>1. OnTheWay \subseteq Entry
  BY OnTheWayTypes DEF PathInv
<1> SUFFICES ASSUME NEW k \in All, k \notin missed'
             PROVE  WillBe(OnTheWay', k, k \in agentHeld) <=> k \in userHeld
  BY DEF PathInStep
<1>2. e.key # k \/ \E f \in OnTheWay : f.key = k /\ e.number < f.number
  BY DEF Before
<1>3. WillBe(OnTheWay \ {e}, k, k \in agentHeld) <=> WillBe(OnTheWay, k, k \in agentHeld)
  BY <1>1, <1>2, WillDrop
<1> QED BY <1>3 DEF PathInv, PathInStep

LEMMA LostFacts ==
  ASSUME NEW e \in Entry, NEW behind \in Seq(Entry), Lost(e, behind), missed \subseteq All
  PROVE  /\ missed \subseteq missed' /\ missed' \subseteq All
         /\ e.key \in missed' \/ \E f \in EventsOf(behind) : f.key = e.key
BY DEF Lost, EventsOf, Entry

\* Events whose keys are missed from now on.
LEMMA LosesMissed ==
  ASSUME PathInv, OnTheWay' \subseteq OnTheWay, UNCHANGED <<userHeld, agentHeld>>,
         missed \subseteq missed', \A e \in OnTheWay : e \in OnTheWay' \/ e.key \in missed'
  PROVE  PathInStep'
<1> SUFFICES ASSUME NEW k \in All, k \notin missed'
             PROVE  WillBe(OnTheWay', k, k \in agentHeld) <=> k \in userHeld
  BY DEF PathInStep
<1>1. WillBe(OnTheWay', k, k \in agentHeld) <=> WillBe(OnTheWay, k, k \in agentHeld)
  BY DEF WillBe
<1> QED BY <1>1 DEF PathInv, PathInStep

LEMMA MissedFacts ==
  ASSUME NEW s \in Seq(Entry), missed \subseteq All,
         missed' = missed \cup {s[i].key : i \in DOMAIN s}
  PROVE  /\ missed \subseteq missed' /\ missed' \subseteq All
         /\ \A e \in EventsOf(s) : e.key \in missed'
<1>1. EventsOf(s) \subseteq Entry
  BY SubsetOfEntry
<1>2. missed' = missed \cup {e.key : e \in EventsOf(s)}
  BY DEF EventsOf
<1> QED BY <1>1, <1>2 DEF Entry

\* InputSendThread pops and sends; an event it cannot send is lost.
LEMMA SendStep ==
  ASSUME PathInv, InputSendThread
  PROVE  PathInv'
<1> USE DEF PathInv
<1>1. CASE PopEvent
  <2>1. /\ sending = <<>> /\ ToSend # <<>> /\ sending' = <<Head(ToSend)>>
        /\ ToSend' = Tail(ToSend)
        /\ UNCHANGED <<m_inputQueue, wire, events, userHeld, agentHeld, lastInjected, missed,
                       m_running, sender>>
    BY <1>1 DEF PopEvent, agentVars, ToSend
  <2>2. /\ Head(ToSend) \in Entry /\ ToSend' \in Seq(Entry)
        /\ EventsOf(ToSend) = {Head(ToSend)} \cup EventsOf(ToSend)'
        /\ Increasing(ToSend)'
        /\ Before({Head(ToSend)}, EventsOf(ToSend)')
    BY <2>1, TailEvents DEF PathTypes, PathOrder
  <2>3. /\ sending' \in Seq(Entry) /\ Len(sending') = 1
        /\ EventsOf(sending)' = {Head(ToSend)} /\ EventsOf(sending) = {}
    BY <2>1, <2>2, OneEvent, EmptyEvents
  <2>4. OnTheWay' = OnTheWay
    BY <2>1, <2>2, <2>3 DEF OnTheWay
  <2>5. PathTypes'
    BY <2>1, <2>2, <2>3 DEF PathTypes
  <2>6. PathOrder'
    BY <2>1, <2>2, <2>3, <2>4 DEF PathOrder, Before
  <2> QED BY <2>1, <2>4, <2>5, <2>6, Moves
<1>2. CASE SendEvent
  <2>1. /\ sending # <<>> /\ wire' = wire \o sending /\ sending' = <<>>
        /\ UNCHANGED <<m_inputQueue, ToSend, events, userHeld, agentHeld, lastInjected, missed,
                       m_running, sender>>
    BY <1>2 DEF SendEvent, agentVars, ToSend
  <2>2. Head(sending) \in Entry /\ sending = <<Head(sending)>>
    BY <2>1, SendingFacts DEF PathTypes
  <2>3. Increasing(sending)
    BY <2>2, OneEvent
  <2>4. /\ wire' \in Seq(Entry) /\ EventsOf(wire)' = EventsOf(wire) \cup EventsOf(sending)
        /\ Increasing(wire)'
    <3>1. Before(EventsOf(wire), EventsOf(sending))
      BY DEF PathOrder, Before
    <3> QED BY <2>1, <2>3, <3>1, ConcatEvents DEF PathTypes, PathOrder
  <2>5. sending' \in Seq(Entry) /\ Len(sending') = 0 /\ EventsOf(sending)' = {}
    BY <2>1, EmptyEvents
  <2>6. OnTheWay' = OnTheWay
    BY <2>1, <2>4, <2>5 DEF OnTheWay
  <2>7. PathTypes'
    BY <2>1, <2>4, <2>5 DEF PathTypes
  <2>8. PathOrder'
    BY <2>1, <2>4, <2>5, <2>6 DEF PathOrder, Before
  <2> QED BY <2>1, <2>6, <2>7, <2>8, Moves
<1>3. CASE SendFails
  <2>1. /\ sending # <<>> /\ sending' = <<>> /\ Lost(Head(sending), ToSend)
        /\ UNCHANGED <<m_inputQueue, wire, ToSend, events, userHeld, agentHeld,
                       lastInjected, m_running, sender>>
    BY <1>3 DEF SendFails, agentVars, ToSend
  <2>2. Head(sending) \in Entry /\ sending = <<Head(sending)>>
    BY <2>1, SendingFacts DEF PathTypes
  <2>3. /\ EventsOf(sending) = {Head(sending)} /\ EventsOf(sending)' = {}
        /\ sending' \in Seq(Entry) /\ Len(sending') = 0
    BY <2>1, <2>2, OneEvent, EmptyEvents
  <2>4. /\ missed \subseteq missed' /\ missed' \subseteq All
        /\ Head(sending).key \in missed' \/ \E f \in EventsOf(ToSend) : f.key = Head(sending).key
    BY <2>1, <2>2, LostFacts DEF PathTypes
  <2>5. /\ Head(sending) \in OnTheWay /\ EventsOf(ToSend) \subseteq OnTheWay
        /\ Before({Head(sending)}, EventsOf(ToSend))
    BY <2>3 DEF PathOrder, Before, OnTheWay
  <2>6. OnTheWay' = OnTheWay \ {Head(sending)}
    <3>1. Head(sending) \notin EventsOf(m_inputQueue) \cup EventsOf(wire) \cup EventsOf(ToSend)
      BY <2>2, <2>3 DEF PathOrder, Before, Entry
    <3> QED BY <2>1, <2>3, <3>1 DEF OnTheWay
  <2>7. PathTypes'
    BY <2>1, <2>3, <2>4 DEF PathTypes
  <2>8. PathOrder'
    BY <2>1, <2>3, <2>6 DEF PathOrder, Before
  <2>9. PathInStep'
    BY <2>1, <2>4, <2>5, <2>6, Loses1
  <2> QED BY <2>7, <2>8, <2>9
<1>4. CASE SenderExits
  <2>1. /\ ToSend = m_inputSendQueue /\ ToSend' = <<>> /\ ~m_running' /\ sending' = sending
        /\ missed' = missed \cup {ToSend[i].key : i \in DOMAIN ToSend}
        /\ UNCHANGED <<m_inputQueue, wire, events, userHeld, agentHeld, lastInjected>>
    BY <1>4 DEF SenderExits, agentVars, ToSend
  <2>2. ToSend' \in Seq(Entry) /\ EventsOf(ToSend)' = {} /\ Increasing(ToSend)'
    BY <2>1, EmptyEvents
  <2>3. /\ missed \subseteq missed' /\ missed' \subseteq All
        /\ \A e \in EventsOf(ToSend) : e.key \in missed'
    BY <2>1, MissedFacts DEF PathTypes
  <2>4. /\ OnTheWay' \subseteq OnTheWay
        /\ \A e \in OnTheWay : e \in OnTheWay' \/ e.key \in missed'
    BY <2>1, <2>2, <2>3 DEF OnTheWay
  <2>5. PathTypes'
    BY <2>1, <2>2, <2>3 DEF PathTypes
  <2>6. PathOrder'
    BY <2>1, <2>2, <2>4 DEF PathOrder, Before
  <2>7. PathInStep'
    BY <2>1, <2>3, <2>4, LosesMissed
  <2> QED BY <2>5, <2>6, <2>7
<1> QED BY <1>1, <1>2, <1>3, <1>4 DEF InputSendThread

\* The connection breaks: what was on it is missed.
LEMMA BreakStep ==
  ASSUME PathInv, Break
  PROVE  PathInv'
<1> USE DEF PathInv
<1>1. /\ wire' = <<>> /\ missed' = missed \cup {wire[i].key : i \in DOMAIN wire}
      /\ UNCHANGED <<m_inputQueue, sending, ToSend, events, userHeld, agentHeld,
                     lastInjected, m_running, sender>>
  BY DEF Break, sendVars, agentVars, ToSend
<1>2. wire' \in Seq(Entry) /\ EventsOf(wire)' = {} /\ Increasing(wire)'
  BY <1>1, EmptyEvents
<1>3. /\ missed \subseteq missed' /\ missed' \subseteq All
      /\ \A e \in EventsOf(wire) : e.key \in missed'
  BY <1>1, MissedFacts DEF PathTypes
<1>4. /\ OnTheWay' \subseteq OnTheWay
      /\ \A e \in OnTheWay : e \in OnTheWay' \/ e.key \in missed'
  BY <1>1, <1>2, <1>3 DEF OnTheWay
<1>5. PathTypes'
  BY <1>1, <1>2, <1>3 DEF PathTypes
<1>6. PathOrder'
  BY <1>1, <1>2, <1>4 DEF PathOrder, Before
<1>7. PathInStep'
  BY <1>1, <1>3, <1>4, LosesMissed
<1> QED BY <1>5, <1>6, <1>7

\* AcceptThread queues an event, or loses it.
LEMMA ReceiveStep ==
  ASSUME PathInv, Receive
  PROVE  PathInv'
<1> USE DEF PathInv
<1>1. /\ wire # <<>> /\ wire' = Tail(wire)
      /\ UNCHANGED <<sending, ToSend, events, userHeld, agentHeld, lastInjected, m_running, sender>>
      /\ \/ m_inputQueue' = Append(m_inputQueue, Head(wire)) /\ UNCHANGED missed
         \/ UNCHANGED m_inputQueue /\ Lost(Head(wire), Tail(wire) \o sending \o ToSend)
  BY DEF Receive, tryPush, sendVars, ToSend
<1>2. /\ Head(wire) \in Entry /\ wire' \in Seq(Entry)
      /\ EventsOf(wire) = {Head(wire)} \cup EventsOf(wire)'
      /\ Increasing(wire)' /\ Before({Head(wire)}, EventsOf(wire)')
  BY <1>1, TailEvents DEF PathTypes, PathOrder
<1>3. CASE m_inputQueue' = Append(m_inputQueue, Head(wire)) /\ UNCHANGED missed
  <2>1. /\ m_inputQueue' \in Seq(Entry) /\ Increasing(m_inputQueue)'
        /\ EventsOf(m_inputQueue)' = EventsOf(m_inputQueue) \cup {Head(wire)}
    <3>1. Before(EventsOf(m_inputQueue), {Head(wire)})
      BY <1>2 DEF PathOrder, Before
    <3> QED BY <1>2, <1>3, <3>1, AppendEvents DEF PathTypes, PathOrder
  <2>2. OnTheWay' = OnTheWay
    BY <1>1, <1>2, <2>1 DEF OnTheWay
  <2>3. PathTypes'
    BY <1>1, <1>2, <1>3, <2>1 DEF PathTypes
  <2>4. PathOrder'
    BY <1>1, <1>2, <2>1, <2>2 DEF PathOrder, Before
  <2> QED BY <1>1, <1>3, <2>2, <2>3, <2>4, Moves
<1>4. CASE UNCHANGED m_inputQueue /\ Lost(Head(wire), Tail(wire) \o sending \o ToSend)
  <2>1. /\ Tail(wire) \o sending \o ToSend \in Seq(Entry)
        /\ EventsOf(Tail(wire) \o sending \o ToSend)
              = EventsOf(wire)' \cup EventsOf(sending) \cup EventsOf(ToSend)
    <3>1. /\ Tail(wire) \o sending \in Seq(Entry)
          /\ EventsOf(Tail(wire) \o sending) = EventsOf(wire)' \cup EventsOf(sending)
      BY <1>1, <1>2, ConcatEvents DEF PathTypes
    <3> QED BY <3>1, ConcatEvents DEF PathTypes
  <2>2. /\ missed \subseteq missed' /\ missed' \subseteq All
        /\ \/ Head(wire).key \in missed'
           \/ \E f \in EventsOf(wire)' \cup EventsOf(sending) \cup EventsOf(ToSend) :
                 f.key = Head(wire).key
    BY <1>2, <1>4, <2>1, LostFacts DEF PathTypes
  <2>3. /\ Head(wire) \in OnTheWay
        /\ EventsOf(wire)' \cup EventsOf(sending) \cup EventsOf(ToSend) \subseteq OnTheWay
        /\ Before({Head(wire)},
                  EventsOf(wire)' \cup EventsOf(sending) \cup EventsOf(ToSend))
    BY <1>2 DEF PathOrder, Before, OnTheWay
  <2>4. OnTheWay' = OnTheWay \ {Head(wire)}
    <3>1. Head(wire) \notin EventsOf(m_inputQueue) \cup EventsOf(wire)' \cup EventsOf(sending)
                            \cup EventsOf(ToSend)
      BY <1>2 DEF PathOrder, Before, Entry
    <3> QED BY <1>1, <1>2, <1>4, <3>1 DEF OnTheWay
  <2>5. PathTypes'
    BY <1>1, <1>2, <1>4, <2>2 DEF PathTypes
  <2>6. PathOrder'
    BY <1>1, <1>2, <1>4, <2>4 DEF PathOrder, Before
  <2>7. PathInStep'
    BY <1>1, <2>2, <2>3, <2>4, Loses1
  <2> QED BY <2>5, <2>6, <2>7
<1> QED BY <1>1, <1>3, <1>4

\* InputInjectThread injects the first event, or loses it.
LEMMA InjectStep ==
  ASSUME PathInv, InputInjectThread
  PROVE  PathInv'
<1> USE DEF PathInv
<1>1. /\ m_inputQueue # <<>> /\ m_inputQueue' = Tail(m_inputQueue)
      /\ UNCHANGED <<wire, sending, ToSend, events, userHeld, m_running, sender>>
  BY DEF InputInjectThread, Inject, InjectFails, sendVars, ToSend
<1> DEFINE e == Head(m_inputQueue)
<1>2. /\ e \in Entry /\ m_inputQueue' \in Seq(Entry)
      /\ EventsOf(m_inputQueue) = {e} \cup EventsOf(m_inputQueue)'
      /\ Increasing(m_inputQueue)' /\ Before({e}, EventsOf(m_inputQueue)')
  BY <1>1, TailEvents DEF PathTypes, PathOrder
<1>3. /\ e.number \in Nat /\ e.key \in All /\ e.down \in BOOLEAN
  BY <1>2 DEF Entry
<1> HIDE DEF e
<1>4. e \in OnTheWay
  BY <1>2 DEF OnTheWay
<1>5. OnTheWay' = OnTheWay \ {e}
  <2>1. e \notin EventsOf(m_inputQueue)' \cup EventsOf(wire) \cup EventsOf(sending)
                 \cup EventsOf(ToSend)
    BY <1>2, <1>3 DEF PathOrder, Before
  <2> QED BY <1>1, <1>2, <2>1 DEF OnTheWay
<1>6. \A f \in OnTheWay' : e.number < f.number
  BY <1>1, <1>2 DEF PathOrder, Before, OnTheWay
<1>7. lastInjected' \in {lastInjected, e.number} => PathOrder'
  <2> SUFFICES ASSUME lastInjected' \in {lastInjected, e.number}
               PROVE  PathOrder'
    OBVIOUS
  <2>1. /\ \A f \in OnTheWay' : lastInjected' < f.number /\ f.number <= events
        /\ lastInjected' <= events
    BY <1>4, <1>5, <1>6 DEF PathOrder
  <2> QED BY <1>1, <1>2, <2>1 DEF PathOrder, Before
<1>8. CASE Inject
  <2>1. /\ agentHeld' = IF e.down THEN agentHeld \cup {e.key} ELSE agentHeld \ {e.key}
        /\ lastInjected' = e.number /\ UNCHANGED missed
    BY <1>8 DEF Inject, e
  <2>2. PathTypes'
    BY <1>1, <1>2, <1>3, <2>1 DEF PathTypes
  <2>3. PathInStep'
    <3> SUFFICES ASSUME NEW k \in All, k \notin missed
                 PROVE  WillBe(OnTheWay', k, k \in agentHeld') <=> k \in userHeld
      BY <1>1, <2>1 DEF PathInStep
    <3>1. OnTheWay \subseteq Entry /\ \A f \in OnTheWay \ {e} : e.number < f.number
      BY <1>5, <1>6, OnTheWayTypes
    <3>2. WillBe(OnTheWay, k, k \in agentHeld)
             <=> WillBe(OnTheWay', k, IF e.key = k THEN e.down ELSE k \in agentHeld)
      BY <1>4, <1>5, <3>1, WillInject
    <3>3. CASE e.key = k
      <4>1. k \in agentHeld' <=> e.down
        BY <2>1, <3>3
      <4>2. WillBe(OnTheWay', k, e.down) <=> WillBe(OnTheWay', k, k \in agentHeld')
        BY <4>1 DEF WillBe
      <4> QED BY <3>2, <3>3, <4>2 DEF PathInStep
    <3>4. CASE e.key # k
      <4>1. k \in agentHeld' <=> k \in agentHeld
        BY <2>1, <3>4
      <4>2. WillBe(OnTheWay', k, k \in agentHeld) <=> WillBe(OnTheWay', k, k \in agentHeld')
        BY <4>1 DEF WillBe
      <4> QED BY <3>2, <3>4, <4>2 DEF PathInStep
    <3> QED BY <3>3, <3>4
  <2> QED BY <1>7, <2>1, <2>2, <2>3
<1>9. CASE InjectFails
  <2>1. /\ Lost(e, Tail(m_inputQueue) \o wire \o sending \o ToSend)
        /\ UNCHANGED <<agentHeld, lastInjected>>
    BY <1>9 DEF InjectFails, e
  <2>2. /\ Tail(m_inputQueue) \o wire \o sending \o ToSend \in Seq(Entry)
        /\ EventsOf(Tail(m_inputQueue) \o wire \o sending \o ToSend) = OnTheWay'
    <3>1. /\ Tail(m_inputQueue) \o wire \in Seq(Entry)
          /\ EventsOf(Tail(m_inputQueue) \o wire) = EventsOf(m_inputQueue)' \cup EventsOf(wire)
      BY <1>1, <1>2, ConcatEvents DEF PathTypes
    <3>2. /\ Tail(m_inputQueue) \o wire \o sending \in Seq(Entry)
          /\ EventsOf(Tail(m_inputQueue) \o wire \o sending)
                = EventsOf(m_inputQueue)' \cup EventsOf(wire) \cup EventsOf(sending)
      BY <3>1, ConcatEvents DEF PathTypes
    <3> QED BY <1>1, <3>2, ConcatEvents DEF PathTypes, OnTheWay
  <2>3. /\ missed \subseteq missed' /\ missed' \subseteq All
        /\ e.key \in missed' \/ \E f \in OnTheWay' : f.key = e.key
    BY <1>2, <2>1, <2>2, LostFacts DEF PathTypes
  <2>4. PathTypes'
    BY <1>1, <1>2, <2>1, <2>3 DEF PathTypes
  <2>5. PathInStep'
    <3>1. OnTheWay' \subseteq OnTheWay /\ Before({e}, OnTheWay')
      BY <1>5, <1>6 DEF Before
    <3> QED BY <1>1, <1>4, <1>5, <2>1, <2>3, <3>1, Loses1
  <2> QED BY <1>7, <2>1, <2>4, <2>5
<1> QED BY <1>8, <1>9 DEF InputInjectThread

LEMMA PathInvariant == InputSpec => []PathInv
<1>1. PathInv /\ [InputNext]_inputVars => PathInv'
  <2> SUFFICES ASSUME PathInv, [InputNext]_inputVars PROVE PathInv'
    OBVIOUS
  <2>1. CASE UNCHANGED inputVars
    BY <2>1 DEF inputVars, sendVars, agentVars, PathInv, PathTypes, PathOrder, PathInStep, OnTheWay,
      ToSend
  <2> QED BY <2>1, UserStep, SendStep, BreakStep, ReceiveStep, InjectStep DEF InputNext
<1> QED BY <1>1, InitPath, PTL DEF InputSpec

\* What is on its way is one sequence, in order.
LEMMA InFlightFacts ==
  ASSUME PathInv
  PROVE  InFlight \in Seq(Entry) /\ EventsOf(InFlight) = OnTheWay /\ Increasing(InFlight)
<1> USE DEF PathInv
<1>1. Increasing(sending)
  <2>1. CASE sending = <<>>
    BY <2>1, EmptyEvents
  <2>2. CASE sending # <<>>
    BY <2>2, SendingFacts, OneEvent DEF PathTypes
  <2> QED BY <2>1, <2>2
<1>2. /\ m_inputQueue \o wire \in Seq(Entry) /\ Increasing(m_inputQueue \o wire)
      /\ EventsOf(m_inputQueue \o wire) = EventsOf(m_inputQueue) \cup EventsOf(wire)
  BY ConcatEvents DEF PathTypes, PathOrder
<1>3. /\ m_inputQueue \o wire \o sending \in Seq(Entry)
      /\ Increasing(m_inputQueue \o wire \o sending)
      /\ EventsOf(m_inputQueue \o wire \o sending)
            = EventsOf(m_inputQueue) \cup EventsOf(wire) \cup EventsOf(sending)
  BY <1>1, <1>2, ConcatEvents DEF PathTypes, PathOrder
<1> QED BY <1>3, ConcatEvents DEF PathTypes, PathOrder, InFlight, OnTheWay

\* m_inputSendQueue, the connection and m_inputQueue: events are injected in the
\* order the user made them, each at most once, for any capacities.
THEOREM InjectedInOrder == InputSpec => []InOrder
<1>1. ASSUME PathInv PROVE InOrder
  <2>1. \A i \in DOMAIN InFlight : InFlight[i] \in OnTheWay
    BY <1>1, InFlightFacts DEF EventsOf
  <2>2. DOMAIN InFlight = 1 .. Len(InFlight) /\ Len(InFlight) \in Nat
    BY <1>1, InFlightFacts
  <2>3. ASSUME NEW i \in DOMAIN InFlight, NEW j \in 1 .. i - 1
        PROVE  InFlight[j].number < InFlight[i].number
    <3>1. j \in DOMAIN InFlight /\ j < i
      BY <2>2
    <3> QED BY <1>1, <3>1, InFlightFacts DEF Increasing
  <2>4. \A i \in DOMAIN InFlight : InFlight[i].number > lastInjected
    <3>1. \A e \in OnTheWay : e.number \in Nat /\ lastInjected < e.number /\ lastInjected \in Nat
      BY <1>1, OnTheWayTypes DEF PathInv, PathTypes, PathOrder, Entry
    <3> QED BY <2>1, <3>1
  <2> QED BY <2>3, <2>4 DEF InOrder
<1> QED BY <1>1, PathInvariant, PTL

\* A key or button of which no change was missed is, or will be, at the agent as
\* it is at the user, for any keys and capacities, however much is dropped and when
\* the viewer quits.
THEOREM AgentInStep == InputSpec => []InStep
<1>1. ASSUME PathInv, NEW k \in All
      PROVE  WillBeHeld(k) <=> WillBe(OnTheWay, k, k \in agentHeld)
  <2> DEFINE s == InFlight
             mine == {i \in DOMAIN s : s[i].key = k}
  <2>1. /\ s \in Seq(Entry) /\ OnTheWay = {s[i] : i \in DOMAIN s} /\ Increasing(s)
        /\ DOMAIN s \subseteq Nat /\ \A i \in DOMAIN s : s[i].number \in Nat
    <3>1. s \in Seq(Entry) /\ OnTheWay = {s[i] : i \in DOMAIN s} /\ Increasing(s)
      BY <1>1, InFlightFacts DEF EventsOf
    <3> HIDE DEF s
    <3>2. DOMAIN s \subseteq Nat /\ \A i \in DOMAIN s : s[i] \in Entry
      BY <3>1
    <3> QED BY <3>1, <3>2 DEF Entry
  <2>2. WillBeHeld(k) <=> IF mine = {} THEN k \in agentHeld
                          ELSE \E i \in mine : s[i].down /\ \A j \in mine : j <= i
    BY DEF WillBeHeld
  <2> HIDE DEF s
  <2>3. ASSUME NEW i \in mine, NEW j \in mine PROVE j <= i <=> s[j].number <= s[i].number
    BY <2>1 DEF Increasing
  <2>4. CASE mine = {}
    BY <2>1, <2>2, <2>4 DEF WillBe
  <2>5. CASE mine # {}
    <3>1. WillBe(OnTheWay, k, k \in agentHeld)
             <=> \E i \in mine : s[i].down /\ \A j \in mine : s[j].number <= s[i].number
      BY <2>1, <2>5 DEF WillBe
    <3> QED BY <2>2, <2>3, <2>5, <3>1
  <2> QED BY <2>4, <2>5
<1>2. PathInv => InStep
  BY <1>1 DEF PathInv, PathInStep, InStep
<1> QED BY <1>2, PathInvariant, PTL
=============================================================================
