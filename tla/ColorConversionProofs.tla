----------------------- MODULE ColorConversionProofs -----------------------
(***************************************************************************)
(* What is proved of the parallel conversion for any number of workers,    *)
(* any heights and any threshold: its type invariant, that the pool leaves *)
(* no task behind, and that a picture is whole when the caller uses it.    *)
(***************************************************************************)
EXTENDS ColorConversion, FiniteSetTheorems, TLAPS

----------------------------------------------------------------------------
(* Types *)

\* A chunk is a number below the number of threads, which is a number.
LEMMA Constants == /\ NThreads \in Nat /\ NThreads >= 2
                   /\ Task = 0 .. NThreads - 1 /\ IsFiniteSet(Workers)
BY PoolAssumption, ConversionAssumption, FS_CardinalityType DEF NThreads

\* Converting rows leaves a buffer of the same height.
LEMMA ConvertType ==
  ASSUME TypeOK, NEW s, Convert(s)
  PROVE  rows' \in [0 .. height - 1 -> Nat]
BY DEF TypeOK, Convert

\* Initially the types are right.
LEMMA InitType == Init => TypeOK
<1> SUFFICES ASSUME Init PROVE TypeOK
  OBVIOUS
<1>1. PoolTypeOK
  <2>1. m_tasks \in Seq(Task) /\ m_pending \in Nat
    BY DEF Init, PoolInit
  <2>2. \A w \in Workers : at[w] = "lock" /\ task[w] = NoTask
    BY DEF Init, PoolInit
  <2>3. at \in [Workers -> Locations] /\ task \in [Workers -> Task \cup {NoTask}]
    BY DEF Init, PoolInit, Locations
  <2> QED BY <2>1, <2>2, <2>3 DEF Init, PoolInit, PoolTypeOK, ClientAt, At
<1> QED BY <1>1, Constants DEF Init, TypeOK

\* The steps of the pool alone keep its types.
LEMMA PoolType ==
  ASSUME PoolTypeOK, PendingCounted,
         \/ ClientSteps \/ SpuriousWake \/ WaitAll \/ Destroy
         \/ \E t \in Task : Enqueue(t)
         \/ \E w \in Workers : WorkerStep(w) \/ Run(w)
  PROVE  PoolTypeOK'
<1> USE DEF Locations, ClientAt, PoolTypeOK, At
<1>1. CASE NotifyWorker
  BY <1>1 DEF NotifyWorker
<1>2. CASE TestDone
  BY <1>2 DEF TestDone
<1>3. CASE NotifyAllWorkers
  BY <1>3 DEF NotifyAllWorkers
<1>4. CASE Join
  BY <1>4 DEF Join
<1>5. CASE SpuriousWake
  BY <1>5 DEF SpuriousWake
<1>6. CASE WaitAll
  BY <1>6 DEF WaitAll
<1>7. CASE Destroy
  BY <1>7 DEF Destroy
<1>8. ASSUME NEW t \in Task, Enqueue(t) PROVE PoolTypeOK'
  BY <1>8 DEF Enqueue
<1>9. ASSUME NEW w \in Workers, Take(w) PROVE PoolTypeOK'
  <2>1. CASE m_tasks # <<>>
    <3>1. Head(m_tasks) \in Task /\ Tail(m_tasks) \in Seq(Task)
      BY <2>1
    <3> QED BY <1>9, <2>1, <3>1 DEF Take
  <2>2. CASE m_tasks = <<>>
    BY <1>9, <2>2 DEF Take
  <2> QED BY <2>1, <2>2
<1>10. ASSUME NEW w \in Workers, Run(w) PROVE PoolTypeOK'
  BY <1>10 DEF Run
<1>11. ASSUME NEW w \in Workers, Finish(w) PROVE PoolTypeOK'
  <2>1. w \in Busy /\ IsFiniteSet(Busy)
    BY <1>11, Constants, FS_Subset DEF Finish, Busy
  <2>2. Cardinality(Busy) \in Nat /\ Cardinality(Busy) # 0
    BY <2>1, FS_CardinalityType, FS_EmptySet
  <2>3. m_pending - 1 \in Nat
    BY <2>2 DEF PendingCounted
  <2> QED BY <1>11, <2>3 DEF Finish
<1>12. ASSUME NEW w \in Workers, NotifyClient(w) PROVE PoolTypeOK'
  BY <1>12 DEF NotifyClient
<1> QED BY <1>1, <1>2, <1>3, <1>4, <1>5, <1>6, <1>7, <1>8, <1>9, <1>10, <1>11, <1>12
        DEF ClientSteps, WorkerStep

\* Every step keeps the types, while m_pending counts the tasks.
LEMMA NextType == TypeOK /\ PendingCounted /\ [Next]_vars => TypeOK'
<1> SUFFICES ASSUME TypeOK, PendingCounted, [Next]_vars PROVE TypeOK'
  OBVIOUS
<1>1. CASE Begin
  <2>1. PoolTypeOK'
    BY <1>1 DEF Begin, poolVars, TypeOK, PoolTypeOK, At
  <2>2. height' \in Nat /\ rows' \in [0 .. height' - 1 -> Nat]
    BY <1>1, ConversionAssumption DEF Begin, TypeOK
  <2>3. picture' \in Nat /\ next' \in 0 .. NThreads
    BY <1>1, Constants DEF Begin, TypeOK
  <2>4. caller' = "enqueue" /\ converter' \in {"encoder", "decoder"}
    BY <1>1 DEF Begin, TypeOK
  <2> QED BY <2>1, <2>2, <2>3, <2>4 DEF TypeOK
<1>2. CASE ConvertSerially \/ Converted \/ Return
  <2>1. PoolTypeOK'
    BY <1>2 DEF ConvertSerially, Converted, Return, poolVars, TypeOK, PoolTypeOK, At
  <2> QED BY <1>2, <2>1, ConvertType DEF ConvertSerially, Converted, Return, callVars, TypeOK
<1>3. CASE EnqueueChunk
  <2>1. next \in Task /\ next + 1 \in 0 .. NThreads
    BY <1>3, Constants DEF EnqueueChunk, TypeOK
  <2>2. PoolTypeOK'
    BY <1>3, <2>1, PoolType DEF EnqueueChunk, TypeOK
  <2> QED BY <1>3, <2>1, <2>2 DEF EnqueueChunk, callVars, TypeOK
<1>4. CASE WaitForChunks
  BY <1>4, PoolType DEF WaitForChunks, callVars, TypeOK
<1>5. CASE ProgramEnds
  BY <1>5, PoolType DEF ProgramEnds, callVars, TypeOK
<1>6. CASE InPool
  BY <1>6, PoolType DEF InPool, callVars, TypeOK
<1>7. ASSUME NEW w \in Workers, RunChunk(w) PROVE TypeOK'
  <2>1. PoolTypeOK'
    BY <1>7, PoolType DEF RunChunk, TypeOK
  <2>2. rows' \in [0 .. height - 1 -> Nat]
    BY <1>7, ConvertType DEF RunChunk
  <2> QED BY <1>7, <2>1, <2>2 DEF RunChunk, callVars, TypeOK
<1>8. CASE UNCHANGED vars
  BY <1>8 DEF vars, poolVars, callVars, TypeOK, PoolTypeOK, At
<1> QED BY <1>1, <1>2, <1>3, <1>4, <1>5, <1>6, <1>7, <1>8 DEF Next

----------------------------------------------------------------------------
(* No task is left behind *)

\* How the number of elements changes with one element more or less.
LEMMA OneMore ==
  ASSUME NEW S \in SUBSET Workers, NEW w \in Workers, w \notin S
  PROVE  /\ Cardinality(S) \in Nat
         /\ Cardinality(S \cup {w}) = Cardinality(S) + 1
<1>1. IsFiniteSet(S)
  BY PoolAssumption, FS_Subset
<1> QED BY <1>1, FS_AddElement, FS_CardinalityType

LEMMA OneLess ==
  ASSUME NEW S \in SUBSET Workers, NEW w \in S
  PROVE  /\ Cardinality(S) \in Nat \ {0}
         /\ Cardinality(S \ {w}) = Cardinality(S) - 1
<1>1. IsFiniteSet(S)
  BY PoolAssumption, FS_Subset
<1> QED BY <1>1, FS_RemoveElement, FS_CardinalityType, FS_EmptySet

LEMMA SomeNumber ==
  ASSUME NEW S \in SUBSET Workers
  PROVE  Cardinality(S) \in Nat /\ (Cardinality(S) = 0 <=> S = {})
<1>1. IsFiniteSet(S)
  BY PoolAssumption, FS_Subset
<1> QED BY <1>1, FS_CardinalityType, FS_EmptySet

\* Where the workers are when one of them has moved.
LEMMA OneMoves ==
  ASSUME PoolTypeOK, NEW w \in Workers, NEW l \in Locations, at' = [at EXCEPT ![w] = l]
  PROVE  /\ At(l)' = At(l) \cup {w}
         /\ \A k \in Locations : k # l => At(k)' = At(k) \ {w}
         /\ \A k \in Locations : At(k) \in SUBSET Workers
         /\ Busy' = IF l \in {"run", "finish"} THEN Busy \cup {w} ELSE Busy \ {w}
         /\ Busy \in SUBSET Workers
BY DEF At, PoolTypeOK, Busy, Locations

\* A wake-up, by a notification or for no reason, leaves no task behind.
LEMMA WakeLeavesNone ==
  ASSUME PoolTypeOK, NoTaskLeftBehind, NEW w \in At("blocked"),
         at' = [at EXCEPT ![w] = "lock"],
         UNCHANGED <<m_tasks, m_pending>>,
         client' = client \/ (client = "notify" /\ client' = "ready")
  PROVE  NoTaskLeftBehind'
<1>1. w \in Workers /\ at[w] = "blocked"
  BY DEF At
<1>2. /\ At("lock")' = At("lock") \cup {w} /\ w \notin At("lock")
      /\ At("lock") \in SUBSET Workers /\ Busy' = Busy
      /\ At("notify")' = At("notify")
  BY <1>1, OneMoves DEF Locations, At, Busy
<1>3. /\ Cardinality(At("lock")) \in Nat
      /\ Cardinality(At("lock")') = Cardinality(At("lock")) + 1
  BY <1>1, <1>2, OneMore
<1>4. Len(m_tasks) \in Nat /\ m_pending \in Nat
  BY DEF PoolTypeOK
<1>5. PendingCounted'
  BY <1>2 DEF NoTaskLeftBehind, PendingCounted
<1>6. Len(m_tasks) <= Cardinality(At("lock")) + (IF client = "notify" THEN 1 ELSE 0)
  BY <1>1 DEF NoTaskLeftBehind
<1> QED BY <1>2, <1>3, <1>4, <1>5, <1>6 DEF NoTaskLeftBehind

\* The steps of the client keep the counts.
LEMMA ClientLeavesNone ==
  ASSUME PoolTypeOK, NoTaskLeftBehind,
         ClientSteps \/ SpuriousWake \/ WaitAll \/ Destroy \/ \E t \in Task : Enqueue(t)
  PROVE  NoTaskLeftBehind'
<1>0. /\ Len(m_tasks) \in Nat /\ m_pending \in Nat
      /\ Cardinality(Busy) \in Nat /\ Cardinality(At("lock")) \in Nat
  BY SomeNumber DEF PoolTypeOK, At, Busy
<1> USE DEF NoTaskLeftBehind, PendingCounted
<1>1. CASE NotifyWorker
  <2>1. CASE At("blocked") = {} /\ UNCHANGED at
    BY <1>1, <2>1 DEF NotifyWorker, At, Busy
  <2>2. ASSUME NEW w \in At("blocked"), at' = [at EXCEPT ![w] = "lock"]
        PROVE  NoTaskLeftBehind'
    BY <1>1, <2>2, WakeLeavesNone DEF NotifyWorker
  <2> QED BY <1>1, <2>1, <2>2 DEF NotifyWorker
<1>2. CASE TestDone
  <2>1. At("blocked")' = At("blocked") /\ At("lock")' = At("lock")
        /\ At("notify")' = At("notify") /\ Busy' = Busy
    BY <1>2 DEF TestDone, At, Busy
  <2>2. m_tasks # <<>> => m_pending > 0
    BY <1>0 DEF PoolTypeOK
  <2>3. client' = "waiting" => m_pending > 0
    BY <1>2, <1>0, <2>2 DEF TestDone
  <2> QED BY <1>2, <2>1, <2>3 DEF TestDone
<1>3. CASE NotifyAllWorkers
  <2>1. At("blocked")' = {}
    BY <1>3 DEF NotifyAllWorkers, At, PoolTypeOK
  <2>2. Busy' = Busy
    BY <1>3 DEF NotifyAllWorkers, At, Busy, PoolTypeOK
  <2> QED BY <1>3, <2>1, <2>2 DEF NotifyAllWorkers
<1>4. CASE Join
  BY <1>4 DEF Join, At, Busy
<1>5. CASE SpuriousWake
  <2>1. ASSUME NEW w \in At("blocked"), at' = [at EXCEPT ![w] = "lock"], client' = client
        PROVE  NoTaskLeftBehind'
    <3>1. UNCHANGED <<m_tasks, m_pending>>
      BY <1>5 DEF SpuriousWake
    <3>2. client' = client \/ (client = "notify" /\ client' = "ready")
      BY <2>1
    <3> HIDE DEF NoTaskLeftBehind, PendingCounted
    <3> QED BY <2>1, <3>1, <3>2, WakeLeavesNone
  <2>2. CASE client = "waiting" /\ client' = "test" /\ UNCHANGED at
    BY <1>5, <2>2 DEF SpuriousWake, At, Busy
  <2> QED BY <1>5, <2>1, <2>2 DEF SpuriousWake
<1>6. CASE WaitAll
  BY <1>6 DEF WaitAll, At, Busy
<1>7. CASE Destroy
  BY <1>7 DEF Destroy, At, Busy
<1>8. ASSUME NEW t \in Task, Enqueue(t) PROVE NoTaskLeftBehind'
  <2>1. Len(m_tasks') = Len(m_tasks) + 1
    BY <1>8 DEF Enqueue, PoolTypeOK
  <2>2. At("blocked")' = At("blocked") /\ At("lock")' = At("lock") /\ Busy' = Busy
    BY <1>8 DEF Enqueue, At, Busy
  <2>4. client # "notify" /\ client' = "notify" /\ m_pending' = m_pending + 1
    BY <1>8 DEF Enqueue
  <2>5. PendingCounted'
    BY <1>0, <2>1, <2>2, <2>4
  <2>6. At("blocked")' # {} => Len(m_tasks') <= Cardinality(At("lock")') + 1
    BY <1>0, <2>1, <2>2, <2>4
  <2> QED BY <2>4, <2>5, <2>6
<1> QED BY <1>1, <1>2, <1>3, <1>4, <1>5, <1>6, <1>7, <1>8 DEF ClientSteps

\* The steps of a worker keep them too.
LEMMA WorkerLeavesNone ==
  ASSUME PoolTypeOK, NoTaskLeftBehind, NEW w \in Workers, WorkerStep(w) \/ Run(w)
  PROVE  NoTaskLeftBehind'
<1>0. /\ Len(m_tasks) \in Nat /\ m_pending \in Nat
      /\ \A l \in Locations : At(l) \in SUBSET Workers
      /\ Busy \in SUBSET Workers
  BY DEF PoolTypeOK, At, Busy
<1>1. CASE Take(w)
  <2>1. w \in At("lock") /\ w \notin Busy
    BY <1>1 DEF Take, At, Busy
  <2>2. CASE m_tasks # <<>>
    <3>1. /\ Len(m_tasks') = Len(m_tasks) - 1 /\ Len(m_tasks') \in Nat
          /\ at' = [at EXCEPT ![w] = "run"] /\ UNCHANGED <<m_pending, client>>
      BY <1>1, <2>2 DEF Take, PoolTypeOK
    <3>2. /\ Busy' = Busy \cup {w} /\ At("lock")' = At("lock") \ {w}
          /\ At("blocked")' = At("blocked") \ {w} /\ At("notify")' = At("notify") \ {w}
      BY <3>1, OneMoves DEF Locations
    <3>3. At("blocked")' = At("blocked") /\ At("notify")' = At("notify")
      BY <2>1, <3>2 DEF At
    <3>4. /\ Cardinality(Busy') = Cardinality(Busy) + 1 /\ Cardinality(Busy) \in Nat
          /\ Cardinality(At("lock")') = Cardinality(At("lock")) - 1
          /\ Cardinality(At("lock")) \in Nat
      BY <1>0, <2>1, <3>2, OneMore, OneLess DEF Locations
    <3> QED BY <1>0, <3>1, <3>3, <3>4 DEF NoTaskLeftBehind, PendingCounted
  <2>3. CASE m_tasks = <<>>
    <3>1. PICK l \in {"exit", "blocked"} : at' = [at EXCEPT ![w] = l]
      BY <1>1, <2>3 DEF Take
    <3>2. l \in Locations /\ l \notin {"run", "finish", "notify", "lock"}
      BY <3>1 DEF Locations
    <3>3. Busy' = Busy \ {w} /\ At("notify")' = At("notify") \ {w}
          /\ At("lock")' = At("lock") \ {w}
      BY <3>1, <3>2, OneMoves DEF Locations
    <3>4. Busy' = Busy /\ At("notify")' = At("notify") /\ At("lock")' \in SUBSET Workers
      BY <2>1, <3>3, <1>0 DEF Locations, At
    <3>5. Cardinality(At("lock")') \in Nat /\ Len(m_tasks') = 0
      BY <1>1, <2>3, <3>4, SomeNumber DEF Take
    <3> QED BY <1>1, <2>3, <3>4, <3>5 DEF Take, NoTaskLeftBehind, PendingCounted
  <2> QED BY <2>2, <2>3
<1>2. CASE Run(w)
  <2>1. /\ at[w] = "run" /\ at' = [at EXCEPT ![w] = "finish"]
        /\ UNCHANGED <<m_tasks, m_pending, client>>
    BY <1>2 DEF Run
  <2>2. /\ Busy' = Busy /\ At("lock")' = At("lock")
        /\ At("blocked")' = At("blocked") /\ At("notify")' = At("notify")
    BY <2>1, OneMoves DEF Locations, At, Busy
  <2> QED BY <2>1, <2>2 DEF NoTaskLeftBehind, PendingCounted
<1>3. CASE Finish(w)
  <2>1. /\ at[w] = "finish" /\ at' = [at EXCEPT ![w] = "notify"]
        /\ m_pending' = m_pending - 1 /\ UNCHANGED <<m_tasks, client>>
    BY <1>3 DEF Finish
  <2>2. /\ w \in Busy /\ Busy' = Busy \ {w} /\ w \in At("notify")'
        /\ At("lock")' = At("lock") /\ At("blocked")' = At("blocked")
    BY <2>1, OneMoves DEF Locations, At, Busy
  <2>3. Cardinality(Busy) \in Nat /\ Cardinality(Busy') = Cardinality(Busy) - 1
    BY <1>0, <2>2, OneLess
  <2> QED BY <1>0, <2>1, <2>2, <2>3 DEF NoTaskLeftBehind, PendingCounted
<1>4. CASE NotifyClient(w)
  <2>1. /\ at[w] = "notify" /\ at' = [at EXCEPT ![w] = "lock"]
        /\ client' # "waiting" /\ (client' = "notify" <=> client = "notify")
        /\ UNCHANGED <<m_tasks, m_pending>>
    BY <1>4 DEF NotifyClient
  <2>2. /\ w \notin At("lock") /\ At("lock")' = At("lock") \cup {w}
        /\ At("blocked")' = At("blocked") /\ Busy' = Busy
    BY <2>1, OneMoves DEF Locations, At, Busy
  <2>3. /\ Cardinality(At("lock")) \in Nat
        /\ Cardinality(At("lock")') = Cardinality(At("lock")) + 1
    BY <1>0, <2>2, OneMore DEF Locations
  <2> QED BY <1>0, <2>1, <2>2, <2>3 DEF NoTaskLeftBehind, PendingCounted
<1> QED BY <1>1, <1>2, <1>3, <1>4 DEF WorkerStep

----------------------------------------------------------------------------
(* Every chunk is converted *)

\* A chunk's rows hold the current picture.
Done(t) == \A r \in RowsOf(t) : rows[r] = picture

\* A chunk that was enqueued is in the queue, with a worker, or done.
ChunksTracked ==
    caller # "idle" /\ ~Serial =>
        \A t \in 0 .. next - 1 : \/ Done(t)
                                 \/ \E i \in DOMAIN m_tasks : m_tasks[i] = t
                                 \/ \E w \in At("run") : task[w] = t

\* Where the caller is while it is in the pool, and what it has enqueued there.
CallerTracked ==
    /\ caller = "enqueue" => client \in {"ready", "notify"}
    /\ caller = "wait" => client \in {"test", "waiting", "ready"} /\ ~Serial
    /\ caller \in {"wait", "use"} /\ ~Serial => next = NThreads \/ Start(next) >= height
    /\ caller = "wait" /\ client = "ready" => m_tasks = <<>> /\ Busy = {}

\* When the buffer is used, all of the picture's chunks are done.
AllDone ==
    caller = "use" => IF Serial THEN \A r \in 0 .. height - 1 : rows[r] = picture
                      ELSE \A t \in 0 .. next - 1 : Done(t)

IInv == TypeOK /\ NoTaskLeftBehind /\ ChunksTracked /\ CallerTracked /\ AllDone

\* Converting rows of the current picture undoes no chunk.
LEMMA ConvertKeeps ==
  ASSUME TypeOK, NEW s, Convert(s), UNCHANGED callVars
  PROVE  /\ \A t \in Task : Done(t) => Done(t)'
         /\ \A r \in 0 .. height - 1 : (rows[r] = picture \/ r \in s) => rows'[r] = picture
         /\ \A t \in Task : RowsOf(t)' = RowsOf(t)
<1>1. \A t \in Task : RowsOf(t)' = RowsOf(t)
  BY DEF callVars, RowsOf, Start, End, RowsPerThread, EvenRows, CeilRows
<1>2. \A r \in 0 .. height - 1 : (rows[r] = picture \/ r \in s) => rows'[r] = picture
  BY DEF TypeOK, Convert, callVars
<1>3. \A t \in Task : RowsOf(t) \subseteq 0 .. height - 1
  BY DEF RowsOf
<1> QED BY <1>1, <1>2, <1>3 DEF Done, callVars

\* Numbers below next are chunks.
LEMMA BelowNext == ASSUME TypeOK PROVE 0 .. next - 1 \subseteq Task /\ next \in Nat
BY Constants DEF TypeOK

\* What depends on the picture alone does not change with the pool.
LEMMA SameChunks ==
  ASSUME UNCHANGED callVars
  PROVE  /\ Serial' = Serial /\ \A t \in Nat : Start(t)' = Start(t)
         /\ \A t \in Nat : RowsOf(t)' = RowsOf(t)
BY DEF callVars, Serial, RowsOf, Start, End, RowsPerThread, EvenRows, CeilRows

\* The pool's own steps lose no task, and WaitAll returns to a quiet pool.
LEMMA PoolKeepsChunks ==
  ASSUME IInv, InPool
  PROVE  ChunksTracked' /\ CallerTracked' /\ AllDone'
<1> USE DEF IInv
<1>1. UNCHANGED <<callVars, next, caller, rows>>
  BY DEF InPool
<1>2. /\ Serial' = Serial /\ \A t \in Nat : Start(t)' = Start(t)
      /\ \A t \in Nat : Done(t)' = Done(t)
  BY <1>1, SameChunks DEF Done, callVars
<1>3. 0 .. next - 1 \subseteq Nat /\ next \in Nat
  BY BelowNext, Constants
<1>4. AllDone'
  BY <1>1, <1>2, <1>3 DEF AllDone, callVars
<1>5. ASSUME UNCHANGED <<m_tasks, task>>, At("run")' = At("run") PROVE ChunksTracked'
  BY <1>1, <1>2, <1>3, <1>5 DEF ChunksTracked
<1>6. ASSUME NEW w \in Workers, Take(w) PROVE ChunksTracked' /\ CallerTracked'
  <2>1. UNCHANGED client
    BY <1>6 DEF Take
  <2>2. m_tasks = <<>> /\ Busy = {} => m_tasks' = <<>> /\ Busy' = {}
    BY <1>6 DEF Take, Busy, At, TypeOK, PoolTypeOK
  <2>3. CallerTracked'
    BY <1>1, <1>2, <1>3, <2>1, <2>2 DEF CallerTracked, callVars
  <2>4. CASE m_tasks = <<>>
    <3>1. At("run")' = At("run") /\ UNCHANGED <<m_tasks, task>>
      BY <1>6, <2>4 DEF Take, At, TypeOK, PoolTypeOK
    <3> QED BY <1>5, <2>3, <3>1
  <2>5. CASE m_tasks # <<>>
    <3>1. /\ m_tasks' = Tail(m_tasks) /\ m_tasks \in Seq(Task)
          /\ w \in At("run")' /\ task'[w] = m_tasks[1]
          /\ \A v \in At("run") : v \in At("run")' /\ task'[v] = task[v]
      BY <1>6, <2>5 DEF Take, At, TypeOK, PoolTypeOK
    <3>2. ASSUME NEW i \in DOMAIN m_tasks, i # 1
          PROVE  i - 1 \in DOMAIN m_tasks' /\ m_tasks'[i - 1] = m_tasks[i]
      BY <2>5, <3>1, <3>2
    <3>3. ASSUME NEW t \in 0 .. next - 1, NEW i \in DOMAIN m_tasks, m_tasks[i] = t
          PROVE  \/ \E j \in DOMAIN m_tasks' : m_tasks'[j] = t
                 \/ \E v \in At("run")' : task'[v] = t
      BY <3>1, <3>2, <3>3
    <3>4. ASSUME NEW t \in 0 .. next - 1, NEW v \in At("run"), task[v] = t
          PROVE  \E u \in At("run")' : task'[u] = t
      BY <3>1, <3>4
    <3> QED BY <1>1, <1>2, <1>3, <2>3, <3>3, <3>4 DEF ChunksTracked
  <2> QED BY <2>4, <2>5
<1>7. ASSUME NEW w \in Workers, Finish(w) \/ NotifyClient(w)
      PROVE  ChunksTracked' /\ CallerTracked'
  <2>1. At("run")' = At("run") /\ UNCHANGED <<m_tasks, task>>
    BY <1>7 DEF Finish, NotifyClient, At, TypeOK, PoolTypeOK
  <2>2. Busy' \subseteq Busy
    BY <1>7 DEF Finish, NotifyClient, At, Busy, TypeOK, PoolTypeOK
  <2>3. client' = client \/ (client = "waiting" /\ client' = "test")
    BY <1>7 DEF Finish, NotifyClient
  <2>4. CallerTracked'
    BY <1>1, <1>2, <1>3, <2>1, <2>2, <2>3 DEF CallerTracked, callVars
  <2> QED BY <1>5, <2>1, <2>4
<1>8. ASSUME ClientSteps \/ SpuriousWake PROVE ChunksTracked' /\ CallerTracked'
  <2>1. At("run")' = At("run") /\ Busy' = Busy /\ UNCHANGED <<m_tasks, task>>
    BY <1>8 DEF ClientSteps, SpuriousWake, NotifyWorker, TestDone, NotifyAllWorkers, Join,
                At, Busy, TypeOK, PoolTypeOK
  <2>2. m_pending = 0 => Busy = {}
    <3>1. /\ Cardinality(Busy) \in Nat /\ (Cardinality(Busy) = 0 => Busy = {})
          /\ Len(m_tasks) \in Nat
      <4>1. Busy \in SUBSET Workers /\ m_tasks \in Seq(Task)
        BY DEF Busy, At, TypeOK, PoolTypeOK
      <4> QED BY <4>1, SomeNumber
    <3>2. m_pending = Len(m_tasks) + Cardinality(Busy)
      BY DEF NoTaskLeftBehind, PendingCounted
    <3> QED BY <3>1, <3>2
  <2>3. \/ client = "test" /\ client' = "ready" /\ m_tasks = <<>> /\ Busy = {}
        \/ client = "test" /\ client' = "waiting"
        \/ client = "waiting" /\ client' = "test"
        \/ client = "notify" /\ client' = "ready"
        \/ client' = client
        \/ client \in {"notifyAll", "join"}
    BY <1>8, <2>2 DEF ClientSteps, SpuriousWake, NotifyWorker, TestDone, NotifyAllWorkers, Join
  <2>4. CallerTracked'
    BY <1>1, <1>2, <1>3, <2>1, <2>3 DEF CallerTracked, callVars
  <2> QED BY <1>5, <2>1, <2>4
<1> QED BY <1>4, <1>6, <1>7, <1>8 DEF InPool, WorkerStep

\* So do the steps of the caller, and a worker that converts its chunk.
LEMMA CallerKeepsChunks ==
  ASSUME IInv, [Next]_vars, ~InPool
  PROVE  ChunksTracked' /\ CallerTracked' /\ AllDone'
<1> USE DEF IInv
<1>0. 0 .. next - 1 \subseteq Task /\ Task \subseteq Nat /\ next \in Nat
  BY BelowNext, Constants
<1>1. CASE Begin
  <2>1. next' = 0 /\ caller' = "enqueue" /\ client' = "ready"
    BY <1>1 DEF Begin, poolVars
  <2>2. 0 .. next' - 1 = {}
    BY <2>1
  <2> QED BY <2>1, <2>2 DEF ChunksTracked, CallerTracked, AllDone
<1>2. CASE ConvertSerially
  <2>1. caller' = "use" /\ Serial' /\ UNCHANGED callVars /\ Convert(0 .. height - 1)
    BY <1>2, SameChunks DEF ConvertSerially
  <2>2. \A r \in 0 .. height - 1 : rows'[r] = picture
    BY <2>1, ConvertKeeps
  <2> QED BY <2>1, <2>2 DEF ChunksTracked, CallerTracked, AllDone, callVars
<1>3. CASE EnqueueChunk
  <2>1. /\ caller' = "enqueue" /\ next' = next + 1 /\ UNCHANGED <<callVars, rows>>
        /\ caller = "enqueue" /\ ~Serial
        /\ m_tasks' = Append(m_tasks, next) /\ client' = "notify"
        /\ UNCHANGED <<at, task>> /\ m_tasks \in Seq(Task)
    BY <1>3 DEF EnqueueChunk, Enqueue, TypeOK, PoolTypeOK
  <2>2. /\ Serial' = Serial /\ At("run")' = At("run")
        /\ \A t \in Nat : Done(t)' = Done(t)
    BY <2>1, SameChunks DEF Done, callVars, At
  <2>3. /\ \A i \in DOMAIN m_tasks : i \in DOMAIN m_tasks' /\ m_tasks'[i] = m_tasks[i]
        /\ \E i \in DOMAIN m_tasks' : m_tasks'[i] = next
    BY <2>1
  <2>4. \A t \in 0 .. next' - 1 : t \in 0 .. next - 1 \/ t = next
    BY <1>0, <2>1
  <2>5. ChunksTracked'
    BY <1>0, <2>1, <2>2, <2>3, <2>4 DEF ChunksTracked
  <2> QED BY <2>1, <2>5 DEF CallerTracked, AllDone
<1>4. CASE WaitForChunks
  <2>1. /\ caller' = "wait" /\ client' = "test" /\ caller = "enqueue" /\ ~Serial
        /\ UNCHANGED <<callVars, next, rows, m_tasks, at, task>>
        /\ next = NThreads \/ Start(next) >= height
    BY <1>4 DEF WaitForChunks, WaitAll
  <2>2. /\ Serial' = Serial /\ At("run")' = At("run") /\ Start(next)' = Start(next)
        /\ \A t \in Nat : Done(t)' = Done(t)
    BY <1>0, <2>1, SameChunks DEF Done, callVars, At
  <2> QED BY <1>0, <2>1, <2>2 DEF ChunksTracked, CallerTracked, AllDone, callVars
<1>5. CASE Converted
  <2>1. /\ caller' = "use" /\ caller = "wait" /\ client = "ready"
        /\ UNCHANGED <<poolVars, callVars, next, rows>>
    BY <1>5 DEF Converted
  <2>2. /\ Serial' = Serial /\ At("run")' = At("run") /\ Start(next)' = Start(next)
        /\ \A t \in Nat : Done(t)' = Done(t)
    BY <1>0, <2>1, SameChunks DEF Done, callVars, At, poolVars
  <2>3. m_tasks = <<>> /\ At("run") = {} /\ ~Serial
    BY <2>1 DEF CallerTracked, Busy
  <2>4. \A t \in 0 .. next - 1 : Done(t)
    BY <2>1, <2>3 DEF ChunksTracked
  <2> QED BY <1>0, <2>1, <2>2, <2>3, <2>4
          DEF ChunksTracked, CallerTracked, AllDone, callVars, poolVars
<1>6. CASE Return
  BY <1>6 DEF Return, ChunksTracked, CallerTracked, AllDone
<1>7. CASE ProgramEnds
  BY <1>7 DEF ProgramEnds, ChunksTracked, CallerTracked, AllDone
<1>8. ASSUME NEW w \in Workers, RunChunk(w)
      PROVE  ChunksTracked' /\ CallerTracked' /\ AllDone'
  <2>1. /\ at[w] = "run" /\ at' = [at EXCEPT ![w] = "finish"] /\ task[w] \in Task
        /\ UNCHANGED <<callVars, next, caller, client, m_tasks, task>>
        /\ Convert(RowsOf(task[w]))
    BY <1>8 DEF RunChunk, Run, TypeOK, PoolTypeOK, At
  <2>2. /\ Serial' = Serial /\ Start(next)' = Start(next)
        /\ \A t \in Task : RowsOf(t)' = RowsOf(t)
    BY <1>0, <2>1, SameChunks
  <2>3. /\ \A t \in Task : Done(t) => Done(t)'
        /\ \A r \in 0 .. height - 1 :
              (rows[r] = picture \/ r \in RowsOf(task[w])) => rows'[r] = picture
    BY <2>1, ConvertKeeps
  <2>4. Done(task[w])'
    BY <2>1, <2>2, <2>3 DEF Done, RowsOf, callVars
  <2>5. w \in Busy /\ \A v \in At("run") : v = w \/ v \in At("run")'
    BY <2>1 DEF Busy, At, TypeOK, PoolTypeOK
  <2>6. ChunksTracked'
    BY <1>0, <2>1, <2>2, <2>3, <2>4, <2>5 DEF ChunksTracked
  <2>7. CallerTracked'
    BY <1>0, <2>1, <2>2, <2>5 DEF CallerTracked, callVars
  <2>8. AllDone'
    BY <1>0, <2>1, <2>2, <2>3 DEF AllDone, callVars
  <2> QED BY <2>6, <2>7, <2>8
<1>9. CASE UNCHANGED vars
  <2>1. UNCHANGED <<callVars, next, caller, rows, poolVars>>
    BY <1>9 DEF vars
  <2>2. /\ Serial' = Serial /\ At("run")' = At("run") /\ Start(next)' = Start(next)
        /\ Busy' = Busy /\ \A t \in Nat : Done(t)' = Done(t)
    BY <1>0, <2>1, SameChunks DEF Done, callVars, At, Busy, poolVars
  <2> QED BY <1>0, <2>1, <2>2
          DEF ChunksTracked, CallerTracked, AllDone, callVars, poolVars
<1> QED BY <1>1, <1>2, <1>3, <1>4, <1>5, <1>6, <1>7, <1>8, <1>9 DEF Next

\* The strengthened invariant holds from the start and through every step.
LEMMA InitInv == Init => IInv
<1> SUFFICES ASSUME Init PROVE IInv
  OBVIOUS
<1>1. At("blocked") = {} /\ Busy = {} /\ Len(m_tasks) = 0 /\ m_pending = 0
      /\ client = "ready" /\ caller = "idle"
  BY DEF Init, PoolInit, At, Busy
<1>2. Cardinality(Busy) = 0
  BY <1>1, FS_EmptySet
<1>3. NoTaskLeftBehind
  BY <1>1, <1>2 DEF NoTaskLeftBehind, PendingCounted
<1> QED BY <1>1, <1>3, InitType DEF IInv, ChunksTracked, CallerTracked, AllDone

LEMMA NextInv == IInv /\ [Next]_vars => IInv'
<1> SUFFICES ASSUME IInv, [Next]_vars PROVE IInv'
  OBVIOUS
<1>1. TypeOK'
  BY NextType DEF IInv, NoTaskLeftBehind
<1>2. ChunksTracked' /\ CallerTracked' /\ AllDone'
  BY PoolKeepsChunks, CallerKeepsChunks
<1>3. NoTaskLeftBehind'
  <2>1. PoolTypeOK /\ NoTaskLeftBehind
    BY DEF IInv, TypeOK
  <2>2. CASE UNCHANGED poolVars
    BY <2>1, <2>2 DEF poolVars, NoTaskLeftBehind, PendingCounted, At, Busy
  <2>3. CASE InPool
    BY <2>1, <2>3, ClientLeavesNone, WorkerLeavesNone DEF InPool
  <2>4. ASSUME NEW w \in Workers, RunChunk(w) PROVE NoTaskLeftBehind'
    BY <2>1, <2>4, WorkerLeavesNone DEF RunChunk
  <2>5. CASE EnqueueChunk
    <3>1. next \in Task
      BY <2>5, Constants DEF EnqueueChunk, IInv, TypeOK
    <3> QED BY <2>1, <2>5, <3>1, ClientLeavesNone DEF EnqueueChunk
  <2>6. CASE WaitForChunks
    BY <2>1, <2>6, ClientLeavesNone DEF WaitForChunks
  <2>7. CASE ProgramEnds
    BY <2>1, <2>7, ClientLeavesNone DEF ProgramEnds
  <2>8. CASE Begin \/ ConvertSerially \/ Converted \/ Return \/ UNCHANGED vars
    BY <2>2, <2>8 DEF Begin, ConvertSerially, Converted, Return, vars
  <2> QED BY <2>3, <2>4, <2>5, <2>6, <2>7, <2>8 DEF Next
<1> QED BY <1>1, <1>2, <1>3 DEF IInv

\* Division finds the chunk a row belongs to.
LEMMA RowInChunk ==
  ASSUME NEW r \in Nat, NEW d \in Nat, d > 0
  PROVE  r \div d \in Nat /\ (r \div d) * d <= r /\ r < (r \div d) * d + d
OBVIOUS

\* Below n * d there are only the first n chunks, of d rows each.
LEMMA ChunkBelow ==
  ASSUME NEW q \in Nat, NEW d \in Nat, NEW n \in Nat, NEW r \in Nat,
         d > 0, q * d <= r, r < n * d
  PROVE  q < n
<1>1. ASSUME q >= n PROVE FALSE
  <2>1. q * d >= n * d
    BY <1>1, SMT
  <2> QED BY <2>1
<1> QED BY <1>1

\* The chunks that are enqueued have between them every row that is to be covered.
LEMMA EveryRowInAChunk ==
  ASSUME TypeOK, ~Serial, next = NThreads \/ Start(next) >= height, NEW r \in Covered
  PROVE  \E t \in 0 .. next - 1 : r \in RowsOf(t)
<1> DEFINE d == RowsPerThread
           q == r \div d
<1>0. NThreads \in Nat /\ NThreads >= 2 /\ height \in Nat /\ r \in 0 .. height - 1
      /\ NThreads <= height /\ next \in 0 .. NThreads
  BY Constants, ConversionAssumption DEF TypeOK, Covered, Serial
<1>1. /\ d \in Nat /\ d > 0
      /\ converter = "decoder" => height <= NThreads * d
  <2>1. CASE converter = "encoder"
    <3> DEFINE k == height \div NThreads
    <3>1. k \in Nat /\ k >= 1
      <4>1. k \in Nat /\ height < k * NThreads + NThreads
        BY <1>0, RowInChunk
      <4> HIDE DEF k
      <4>2. CASE k = 0
        BY <1>0, <4>1, <4>2
      <4> QED BY <4>1, <4>2
    <3> HIDE DEF k
    <3>2. 2 * ((k + 1) \div 2) \in Nat /\ 2 * ((k + 1) \div 2) > 0
      BY <3>1
    <3>3. d = EvenRows
      BY <2>1 DEF RowsPerThread
    <3>4. EvenRows = 2 * ((k + 1) \div 2)
      BY DEF k, EvenRows
    <3> QED BY <2>1, <3>2, <3>3, <3>4
  <2>2. CASE converter = "decoder"
    <3> DEFINE m == height + NThreads - 1
    <3>1. d = m \div NThreads
      BY <2>2 DEF d, RowsPerThread, CeilRows
    <3>2. m \in Nat /\ m >= NThreads /\ height = m + 1 - NThreads
      BY <1>0
    <3> HIDE DEF m
    <3>3. d \in Nat /\ d * NThreads <= m /\ m < d * NThreads + NThreads
      BY <1>0, <3>1, <3>2, RowInChunk
    <3> HIDE DEF d
    <3>4. height <= NThreads * d
      BY <1>0, <3>2, <3>3
    <3>5. d > 0
      <4>1. CASE d = 0
        BY <1>0, <3>2, <3>3, <4>1
      <4> QED BY <3>3, <4>1
    <3> QED BY <3>3, <3>4, <3>5
  <2> QED BY <2>1, <2>2 DEF TypeOK
<1>2. r < NThreads * d
  <2> SUFFICES ASSUME converter = "decoder" PROVE r < NThreads * d
    BY DEF Covered
  <2> HIDE DEF d
  <2> QED BY <1>0, <1>1
<1>3. q \in Nat /\ q * d <= r /\ r < q * d + d
  BY <1>0, <1>1, RowInChunk
<1>4. q < next
  <2> HIDE DEF q, d
  <2>1. CASE next = NThreads
    BY <1>0, <1>1, <1>2, <1>3, <2>1, ChunkBelow
  <2>2. CASE Start(next) >= height
    <3>1. r < next * d
      BY <1>0, <1>1, <2>2 DEF Start, d
    <3> QED BY <1>0, <1>1, <1>3, <3>1, ChunkBelow
  <2> QED BY <2>1, <2>2
<1>5. r \in RowsOf(q)
  <2> HIDE DEF q
  <2> QED BY <1>0, <1>1, <1>3 DEF RowsOf, Start, End
<1>6. q \in 0 .. next - 1
  BY <1>0, <1>3, <1>4
<1> QED BY <1>5, <1>6

\* At the end the picture is whole.
LEMMA InvWhole == IInv => Whole
<1> SUFFICES ASSUME IInv, caller = "use", NEW r \in Covered PROVE rows[r] = picture
  BY DEF Whole
<1>1. CASE Serial
  BY <1>1 DEF IInv, AllDone, Covered
<1>2. CASE ~Serial
  <2>1. next = NThreads \/ Start(next) >= height
    BY <1>2 DEF IInv, CallerTracked
  <2>2. PICK t \in 0 .. next - 1 : r \in RowsOf(t)
    BY <1>2, <2>1, EveryRowInAChunk DEF IInv
  <2> QED BY <1>2, <2>2 DEF IInv, AllDone, Done
<1> QED BY <1>1, <1>2

----------------------------------------------------------------------------
(* Theorems *)

\* The state has its type: in particular m_pending never falls below 0.
THEOREM TypeCorrect == Spec => []TypeOK
<1>1. IInv => TypeOK
  BY DEF IInv
<1> QED BY <1>1, InitInv, NextInv, PTL DEF Spec

\* WorkerThreadPool: no task stays in the queue while the workers sleep, and
\* WaitAll does not sleep with nobody left to wake it.
THEOREM NoTaskIsLeftBehind == Spec => []NoTaskLeftBehind
<1>1. IInv => NoTaskLeftBehind
  BY DEF IInv
<1> QED BY <1>1, InitInv, NextInv, PTL DEF Spec

\* BgraToNv12Parallel and Nv12ToBgraParallel: when they return, every covered
\* row is of the picture that was passed, for any number of threads.
THEOREM PictureIsWhole == Spec => []Whole
BY InvWhole, InitInv, NextInv, PTL DEF Spec
=============================================================================
