-------------------------- MODULE ColorConversion --------------------------
(***************************************************************************)
(* The conversion of a picture between BGRA and NV12 on the CPU, its rows  *)
(* split among the threads of a pool: BgraToNv12Parallel on the agent's    *)
(* encode thread, Nv12ToBgraParallel on the viewer's decode thread.        *)
(*                                                                         *)
(* A row's content is the number of the picture it was last converted      *)
(* from: the buffer is kept from one picture to the next.                  *)
(***************************************************************************)
EXTENDS WorkerThreadPool, Integers

CONSTANTS Heights,      \* heights of pictures
          SerialBelow,  \* pictures with fewer rows are converted by the caller (120)
          MaxPictures   \* bound: pictures converted

NThreads == Cardinality(Workers)

ASSUME ConversionAssumption ==
    /\ NThreads >= 2 /\ SerialBelow \in Nat
    /\ NThreads <= SerialBelow
    /\ Heights \subseteq Nat \ {0} /\ MaxPictures \in Nat
    /\ Task = 0 .. NThreads - 1

VARIABLES converter,    \* "encoder" or "decoder", fixed
          height,       \* of the picture being converted; 0 before the first
          picture,      \* its number
          next,         \* the next chunk to enqueue
          caller,       \* "idle", "enqueue", "wait" or "use"
          rows          \* the picture each row of the buffer was converted from

callVars == <<converter, height, picture>>
vars == <<poolVars, callVars, next, caller, rows>>

Init ==
    /\ PoolInit
    /\ converter \in {"encoder", "decoder"}
    /\ height = 0 /\ picture = 0 /\ next = 0 /\ caller = "idle"
    /\ rows = [r \in 0 .. height - 1 |-> 0]

----------------------------------------------------------------------------
(* Chunks *)

EvenRows == 2 * ((height \div NThreads + 1) \div 2)    \* & ~1
CeilRows == (height + NThreads - 1) \div NThreads
RowsPerThread == IF converter = "encoder" THEN EvenRows ELSE CeilRows

Start(t) == t * RowsPerThread
End(t)   == IF Start(t) + RowsPerThread < height THEN Start(t) + RowsPerThread ELSE height
RowsOf(t) == {r \in 0 .. height - 1 : Start(t) <= r /\ r < End(t)}

Serial == height < SerialBelow

Convert(s) == rows' = [r \in DOMAIN rows |-> IF r \in s THEN picture ELSE rows[r]]

----------------------------------------------------------------------------
(* The calling thread *)

\* A new picture, in place of one of any height: the buffer is resized.
Begin ==
    /\ caller = "idle" /\ client = "ready" /\ ~m_shutdown /\ picture < MaxPictures
    /\ picture' = picture + 1
    /\ height' \in Heights
    /\ rows' = [r \in 0 .. height' - 1 |-> IF r \in DOMAIN rows THEN rows[r] ELSE 0]
    /\ next' = 0 /\ caller' = "enqueue"
    /\ UNCHANGED <<poolVars, converter>>

ConvertSerially ==
    /\ caller = "enqueue" /\ Serial
    /\ Convert(0 .. height - 1)
    /\ caller' = "use"
    /\ UNCHANGED <<poolVars, callVars, next>>

EnqueueChunk ==
    /\ caller = "enqueue" /\ ~Serial
    /\ next < NThreads /\ Start(next) < height
    /\ Enqueue(next)
    /\ next' = next + 1
    /\ UNCHANGED <<callVars, caller, rows>>

\* The loop ends, at the last thread or past the last row.
WaitForChunks ==
    /\ caller = "enqueue" /\ ~Serial
    /\ next = NThreads \/ Start(next) >= height
    /\ WaitAll
    /\ caller' = "wait"
    /\ UNCHANGED <<callVars, next, rows>>

Converted ==
    /\ caller = "wait" /\ client = "ready"
    /\ caller' = "use"
    /\ UNCHANGED <<poolVars, callVars, next, rows>>

\* The caller has read the buffer.
Return ==
    /\ caller = "use"
    /\ caller' = "idle"
    /\ UNCHANGED <<poolVars, callVars, next, rows>>

\* The pool is a static object: the program ends.
ProgramEnds ==
    /\ caller = "idle" /\ Destroy
    /\ UNCHANGED <<callVars, next, caller, rows>>

RunChunk(w) ==
    /\ Run(w)
    /\ Convert(RowsOf(task[w]))
    /\ UNCHANGED <<callVars, next, caller>>

InPool ==
    /\ ClientSteps \/ SpuriousWake \/ \E w \in Workers : WorkerStep(w)
    /\ UNCHANGED <<callVars, next, caller, rows>>

Next ==
    \/ Begin \/ ConvertSerially \/ EnqueueChunk \/ WaitForChunks \/ Converted \/ Return
    \/ ProgramEnds \/ InPool \/ \E w \in Workers : RunChunk(w)

\* Every thread that can take a step is scheduled; wake-ups for no reason,
\* further pictures and the end of the program need not come.
Fairness ==
    /\ WF_vars(ConvertSerially \/ EnqueueChunk \/ WaitForChunks \/ Converted)
    /\ WF_vars(ClientSteps /\ UNCHANGED <<callVars, next, caller, rows>>)
    /\ \A w \in Workers :
           /\ WF_vars(RunChunk(w))
           /\ WF_vars(WorkerStep(w) /\ UNCHANGED <<callVars, next, caller, rows>>)

Spec == Init /\ [][Next]_vars
FairSpec == Spec /\ Fairness

----------------------------------------------------------------------------
(* Properties *)

TypeOK ==
    /\ PoolTypeOK
    /\ converter \in {"encoder", "decoder"}
    /\ height \in Nat /\ picture \in Nat /\ next \in 0 .. NThreads
    /\ caller \in {"idle", "enqueue", "wait", "use"}
    /\ rows \in [0 .. height - 1 -> Nat]

\* The rows the chunks are to cover: the encoder rounds the rows per thread
\* down, and leaves the rows below the last chunk as they were.
Covered == {r \in 0 .. height - 1 : converter = "decoder" \/ Serial
                                    \/ r < NThreads * RowsPerThread}

\* When WaitAll has returned, every row that is covered holds the picture the
\* caller passed, although the chunks ran on other threads and in any order.
Whole == caller = "use" => \A r \in Covered : rows[r] = picture

\* A conversion that was begun ends, and so does the destructor of the pool.
ConversionEnds ==
    /\ caller = "enqueue" ~> caller = "use"
    /\ m_shutdown ~> client = "gone"
=============================================================================
