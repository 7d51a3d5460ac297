----------------------- MODULE CapturePipelineProofs -----------------------
(***************************************************************************)
(* What is proved of the capture pipeline for every size of the ring and   *)
(* of the encoder's queue: that references are counted, and that a texture *)
(* of the ring is not written again before a full turn.                    *)
(***************************************************************************)
EXTENDS CapturePipeline, Integers, FiniteSetTheorems, TLAPS

QueueEntries == [tex : Textures, frame : Frames]
QueueIdx == 1 .. Len(videoInputQueue)

\* Types; refs may be any integers here: that they are not negative follows
\* from their being counts.
Types ==
    /\ m_clientConnected \in BOOLEAN /\ desktop \in {"up", "away"}
    /\ duplication \in {"ok", "lost", "none"}
    /\ format \in Formats /\ formatOf \in Seq(Formats) /\ Len(formatOf) \in 1 .. MaxPools + 1
    /\ failed \subseteq Frames /\ frameCounter \in 0 .. SampleEvery - 1
    /\ safePool \in [Slots -> Textures \cup {NoTex}] /\ poolIndex \in Slots
    /\ frames \in 0 .. MaxFrames
    /\ content \in [Textures -> 0 .. MaxFrames]
    /\ refs \in [Textures -> Int]
    /\ videoInputQueue \in Seq(QueueEntries) /\ Len(videoInputQueue) <= QueueSize
    /\ capture \in HeldFrame /\ encode \in HeldFrame

\* A texture of one of the first n makings of the pool.
Made(t, n) == t \in Textures /\ t[1] < n

\* Slot i holds a texture created for slot i, so no texture is in two slots,
\* and every texture anyone has in hand has been made.
OwnSlots ==
    /\ \A i \in Slots : safePool[i] # NoTex => Made(safePool[i], Len(formatOf)) /\ safePool[i][2] = i
    /\ \A k \in QueueIdx : Made(videoInputQueue[k].tex, Len(formatOf))
    /\ capture.at = "have" => Made(capture.tex, Len(formatOf))
    /\ encode.at = "have" => Made(encode.tex, Len(formatOf))

\* What has not been made has not been written, no copy is newer than the
\* last, and nothing is written to a pool whose first slot is empty.
Unwritten ==
    /\ \A t \in Textures : ~Made(t, Len(formatOf)) => content[t] = 0
    /\ \A t \in Textures : content[t] <= frames
    /\ safePool[0] = NoTex => \A i \in Slots : safePool[i] # NoTex => content[safePool[i]] = 0

\* Copies until the turn of slot i comes, with the next copy as 0.
Turns(i) == IF i >= poolIndex THEN i - poolIndex ELSE i - poolIndex + PoolSize

\* A written texture of the ring is written again a full turn later at least.
Ring ==
    \A i \in Slots :
        safePool[i] # NoTex /\ content[safePool[i]] > 0
        => content[safePool[i]] + PoolSize <= frames + 1 + Turns(i)

\* What a texture in flight holds for the frame it was copied for.
Turned(t, n) == \/ content[t] = n /\ n > 0
                \/ n \in failed
                \/ content[t] >= n + PoolSize

InFlight ==
    /\ \A k \in QueueIdx : Turned(videoInputQueue[k].tex, videoInputQueue[k].frame)
    /\ capture.at = "have" => Turned(capture.tex, capture.frame)
    /\ encode.at = "have" => Turned(encode.tex, encode.frame)

IInv == Types /\ OwnSlots /\ Unwritten /\ Ring /\ InFlight /\ TexturesCounted /\ FullTurn

----------------------------------------------------------------------------
(* Counting *)

One(b) == IF b THEN 1 ELSE 0

\* How many entries of queue q are of texture t.
QueueCount(q, t) == Cardinality({k \in DOMAIN q : q[k].tex = t})

\* How many slots of pool p hold texture t.
PoolCount(p, t) == Cardinality({i \in Slots : p[i] = t})

LEMMA IndicesFinite ==
  ASSUME NEW n \in Nat, NEW T \in SUBSET (1 .. n)
  PROVE  IsFiniteSet(T) /\ Cardinality(T) \in Nat
<1>1. IsFiniteSet(1 .. n)
  BY FS_Interval
<1> QED BY <1>1, FS_Subset, FS_CardinalityType

\* The entry that is appended is counted for its texture.
LEMMA QueueAppend ==
  ASSUME NEW S, NEW q \in Seq(S), NEW e \in S, NEW t
  PROVE  /\ QueueCount(q, t) \in Nat
         /\ QueueCount(Append(q, e), t) = QueueCount(q, t) + One(e.tex = t)
<1> DEFINE T == {k \in 1 .. Len(q) : q[k].tex = t}
           U == {k \in 1 .. Len(q) + 1 : Append(q, e)[k].tex = t}
<1>1. /\ Len(q) \in Nat /\ DOMAIN q = 1 .. Len(q)
      /\ DOMAIN Append(q, e) = 1 .. Len(q) + 1
      /\ Append(q, e)[Len(q) + 1] = e
      /\ \A k \in 1 .. Len(q) : Append(q, e)[k] = q[k]
  OBVIOUS
<1>2. IsFiniteSet(T) /\ Cardinality(T) \in Nat
  <2>1. T \in SUBSET (1 .. Len(q))
    OBVIOUS
  <2> QED BY <1>1, <2>1, IndicesFinite
<1>3. \A k \in 1 .. Len(q) + 1 : k \in 1 .. Len(q) \/ k = Len(q) + 1
  BY <1>1
<1>4. Len(q) + 1 \notin T /\ Len(q) + 1 \in 1 .. Len(q) + 1
      /\ \A k \in 1 .. Len(q) : k \in 1 .. Len(q) + 1
  BY <1>1
<1>5. U = IF e.tex = t THEN T \cup {Len(q) + 1} ELSE T
  BY <1>1, <1>3, <1>4
<1>6. Cardinality(T \cup {Len(q) + 1}) = Cardinality(T) + 1
  BY <1>2, <1>4, FS_AddElement
<1> HIDE DEF T, U
<1>7. Cardinality(U) = Cardinality(T) + One(e.tex = t)
  BY <1>2, <1>5, <1>6 DEF One
<1> QED BY <1>1, <1>2, <1>7 DEF QueueCount, T, U

\* The entry that is taken from the front is not counted any more.
LEMMA QueueTail ==
  ASSUME NEW S, NEW q \in Seq(S), q # <<>>, NEW t
  PROVE  /\ QueueCount(q, t) \in Nat
         /\ QueueCount(Tail(q), t) = QueueCount(q, t) - One(Head(q).tex = t)
<1> DEFINE n == Len(q)
           T == {k \in 1 .. n : q[k].tex = t}
           U == {k \in 1 .. n - 1 : Tail(q)[k].tex = t}
           V == {k \in 2 .. n : q[k].tex = t}
           f == [k \in U |-> k + 1]
<1>1. /\ n \in Nat /\ n >= 1 /\ DOMAIN q = 1 .. n /\ DOMAIN Tail(q) = 1 .. n - 1
      /\ Head(q) = q[1] /\ \A k \in 1 .. n - 1 : Tail(q)[k] = q[k + 1]
  OBVIOUS
<1> HIDE DEF n
<1>2. IsFiniteSet(T) /\ Cardinality(T) \in Nat /\ IsFiniteSet(V) /\ Cardinality(V) \in Nat
  <2>1. T \in SUBSET (1 .. n) /\ V \in SUBSET (1 .. n)
    BY <1>1
  <2> QED BY <1>1, <2>1, IndicesFinite
<1>3. Cardinality(T) = Cardinality(V) + One(Head(q).tex = t)
  <2>1. 1 \notin V
    BY <1>1
  <2>2. T = IF q[1].tex = t THEN V \cup {1} ELSE V
    BY <1>1
  <2>3. Cardinality(V \cup {1}) = Cardinality(V) + 1
    BY <1>2, <2>1, FS_AddElement
  <2> HIDE DEF T, V
  <2> QED BY <1>1, <1>2, <2>2, <2>3 DEF One
<1>4. Cardinality(U) = Cardinality(V)
  <2>1. \A k \in U : k + 1 \in V
    BY <1>1
  <2>2. \A k \in V : k - 1 \in U /\ (k - 1) + 1 = k
    BY <1>1
  <2>3. \A j, k \in U : j + 1 = k + 1 => j = k
    BY <1>1
  <2> HIDE DEF U, V
  <2>4. f \in Injection(U, V)
    BY <2>1, <2>3 DEF Injection, IsInjective
  <2>5. f \in Surjection(U, V)
    BY <2>1, <2>2 DEF Surjection
  <2> HIDE DEF f
  <2> QED BY <1>2, <2>4, <2>5, FS_Injection
<1> HIDE DEF T, U, V
<1>5. QueueCount(q, t) = Cardinality(T) /\ QueueCount(Tail(q), t) = Cardinality(U)
  BY <1>1 DEF QueueCount, T, U
<1>6. \A x, y, z \in Int : x = y + z => y = x - z
  OBVIOUS
<1>7. One(Head(q).tex = t) \in Int
  BY DEF One
<1> QED BY <1>2, <1>3, <1>4, <1>5, <1>6, <1>7

\* A texture is in its own slot or in none.
LEMMA PoolOne ==
  ASSUME NEW p, NEW t, NEW j \in Slots, \A i \in Slots : p[i] = t => i = j
  PROVE  PoolCount(p, t) = One(p[j] = t)
<1>1. CASE p[j] = t
  <2>1. {i \in Slots : p[i] = t} = {j}
    BY <1>1
  <2> QED BY <1>1, <2>1, FS_Singleton DEF PoolCount, One
<1>2. CASE p[j] # t
  <2>1. {i \in Slots : p[i] = t} = {}
    BY <1>2
  <2> QED BY <1>2, <2>1, FS_EmptySet DEF PoolCount, One
<1> QED BY <1>1, <1>2

----------------------------------------------------------------------------
(* Constants, threads and textures *)

LEMMA ConstantFacts ==
  /\ PoolSize \in Nat /\ PoolSize > 0 /\ QueueSize \in Nat /\ SampleEvery \in Nat
  /\ SampleEvery > 0 /\ MaxFrames \in Nat /\ MaxPools \in Nat /\ Bgra \in Formats
  /\ 0 \in Slots /\ \A i \in Slots : i \in Nat /\ i < PoolSize
  /\ \A i \in Slots : (i + 1) % PoolSize \in Slots
  /\ NoTex \notin Textures
BY PipelineAssumption DEF Slots, Textures

LEMMA NextTurn ==
  ASSUME NEW i \in Slots
  PROVE  (i + 1) % PoolSize = IF i + 1 = PoolSize THEN 0 ELSE i + 1
BY PipelineAssumption DEF Slots

LEMMA TextureFacts ==
  ASSUME NEW t \in Textures
  PROVE  t[1] \in 0 .. MaxPools /\ t[2] \in Slots /\ t = <<t[1], t[2]>> /\ t # NoTex
BY ConstantFacts DEF Textures

LEMMA HeldFacts ==
  /\ Idle \in HeldFrame /\ Idle.at = "top" /\ Idle.tex = NoTex
  /\ \A t \in Textures, n \in Frames :
        /\ Busy(t, n) \in HeldFrame /\ Busy(t, n).at = "have"
        /\ Busy(t, n).tex = t /\ Busy(t, n).frame = n
  /\ \A h \in HeldFrame :
        /\ h.at = "have" => h.tex \in Textures /\ h.frame \in Frames
        /\ h.at # "have" => h = Idle
<1>1. Idle \in HeldFrame /\ Idle.at = "top" /\ Idle.tex = NoTex
  BY DEF HeldFrame, Idle
<1>2. ASSUME NEW t \in Textures, NEW n \in Frames
      PROVE  /\ Busy(t, n) \in HeldFrame /\ Busy(t, n).at = "have"
             /\ Busy(t, n).tex = t /\ Busy(t, n).frame = n
  <2>1. Busy(t, n) \in HeldFrame
    BY DEF HeldFrame
  <2>2. Busy(t, n).at = "have" /\ Busy(t, n).tex = t /\ Busy(t, n).frame = n
    BY DEF Busy
  <2> QED BY <2>1, <2>2
<1>3. ASSUME NEW h \in HeldFrame
      PROVE  /\ h.at = "have" => h.tex \in Textures /\ h.frame \in Frames
             /\ h.at # "have" => h = Idle
  <2>1. CASE h = Idle
    BY <1>1, <2>1
  <2>2. CASE \E t \in Textures, n \in Frames : h = Busy(t, n)
    BY <1>2, <2>2
  <2> QED BY <2>1, <2>2 DEF HeldFrame
<1> QED BY <1>1, <1>2, <1>3

LEMMA FrameFacts ==
  ASSUME Types
  PROVE  /\ frames \in Nat /\ MaxFrames \in Nat
         /\ frames < MaxFrames => frames + 1 \in Frames /\ frames + 1 \in 0 .. MaxFrames
         /\ \A n \in Frames : n \in Nat /\ n > 0
         /\ \A t \in Textures : content[t] \in Nat
BY ConstantFacts DEF Types, Frames

\* What the filled pool is.
LEMMA FillFacts ==
  ASSUME Types, Len(formatOf) <= MaxPools, NEW p \in [Slots -> Textures \cup {NoTex}], NEW F
  PROVE  /\ Fill(p, F) \in [Slots -> Textures \cup {NoTex}]
         /\ \A i \in Slots : \/ Fill(p, F)[i] = p[i]
                             \/ p[i] = NoTex /\ Fill(p, F)[i] = <<Len(formatOf), i>>
         /\ \A i \in Slots : p[i] # NoTex => Fill(p, F)[i] = p[i]
<1>1. Len(formatOf) \in 0 .. MaxPools
  BY ConstantFacts DEF Types
<1>2. \A i \in Slots : <<Len(formatOf), i>> \in Textures
  BY <1>1 DEF Textures
<1> QED BY <1>2 DEF Fill

LEMMA HeldBySlots ==
  ASSUME NEW p, NEW t \in Textures
  PROVE  t \in Held(p) <=> \E i \in Slots : p[i] = t
BY ConstantFacts DEF Held

LEMMA MoreFormats ==
  ASSUME Types, NEW f \in Formats, Len(formatOf) <= MaxPools, formatOf' = Append(formatOf, f)
  PROVE  /\ formatOf' \in Seq(Formats) /\ Len(formatOf') \in 1 .. MaxPools + 1
         /\ Len(formatOf') = Len(formatOf) + 1
<1>1. formatOf \in Seq(Formats) /\ Len(formatOf) \in 1 .. MaxPools + 1 /\ MaxPools \in Nat
  BY ConstantFacts DEF Types
<1>2. /\ Append(formatOf, f) \in Seq(Formats) /\ Len(formatOf) \in Nat
      /\ Len(Append(formatOf, f)) = Len(formatOf) + 1
  BY <1>1
<1> QED BY <1>1, <1>2

----------------------------------------------------------------------------
(* Types *)

LEMMA InitTypes == Init => Types
<1> SUFFICES ASSUME Init PROVE Types
  OBVIOUS
<1>1. /\ formatOf = <<Bgra>> /\ videoInputQueue = <<>>
      /\ safePool \in [Slots -> Textures \cup {NoTex}]
  <2>1. \A i \in Slots : <<0, i>> \in Textures
    BY ConstantFacts DEF Textures
  <2> QED BY <2>1 DEF Init
<1>2. /\ formatOf \in Seq(Formats) /\ Len(formatOf) = 1
      /\ videoInputQueue \in Seq(QueueEntries) /\ Len(videoInputQueue) = 0
  BY <1>1, ConstantFacts
<1>3. content \in [Textures -> 0 .. MaxFrames] /\ refs \in [Textures -> Int]
  BY ConstantFacts DEF Init
<1>4. capture \in HeldFrame /\ encode \in HeldFrame
  BY HeldFacts DEF Init
<1>5. /\ m_clientConnected \in BOOLEAN /\ desktop \in {"up", "away"}
      /\ duplication \in {"ok", "lost", "none"} /\ format \in Formats
      /\ failed \subseteq Frames /\ frameCounter \in 0 .. SampleEvery - 1
      /\ poolIndex \in Slots /\ frames \in 0 .. MaxFrames
  <2>1. 0 \in Slots /\ 0 \in 0 .. MaxFrames /\ 0 \in 0 .. SampleEvery - 1
    BY ConstantFacts
  <2> QED BY <2>1 DEF Init
<1>6. Len(formatOf) \in 1 .. MaxPools + 1 /\ Len(videoInputQueue) <= QueueSize
  BY <1>2, ConstantFacts
<1> QED BY <1>1, <1>2, <1>3, <1>4, <1>5, <1>6 DEF Types

\* A copy: the frame counter, the texture's content and the capture thread.
LEMMA CopyIntoTypes ==
  ASSUME Types, NEW t \in Textures, NEW f, frames < MaxFrames, CopyInto(t, frames + 1, f)
  PROVE  /\ frames' \in 0 .. MaxFrames /\ failed' \subseteq Frames
         /\ content' \in [Textures -> 0 .. MaxFrames] /\ capture' \in HeldFrame
<1>1. frames + 1 \in Frames /\ frames + 1 \in 0 .. MaxFrames
  BY FrameFacts
<1>2. /\ content \in [Textures -> 0 .. MaxFrames] /\ failed \subseteq Frames
  BY DEF Types
<1>3. capture' \in HeldFrame
  BY <1>1, HeldFacts DEF CopyInto
<1> QED BY <1>1, <1>2, <1>3 DEF CopyInto

\* Steps that touch neither the textures nor what is in flight.
Quiet == /\ UNCHANGED <<formatOf, safePool, poolIndex, frames, content, failed, refs>>
         /\ UNCHANGED <<capture, videoInputQueue, encode, encoded>>

\* The fields of the desktop and the client.
WorldTypes == /\ m_clientConnected \in BOOLEAN /\ desktop \in {"up", "away"}
              /\ duplication \in {"ok", "lost", "none"}
              /\ format \in Formats /\ frameCounter \in 0 .. SampleEvery - 1

LEMMA WorldStep ==
  ASSUME Types, Next
  PROVE  WorldTypes'
<1> USE DEF Types, WorldTypes, world, pool
<1>1. CASE Client \/ DesktopGoes \/ DesktopReturns \/ FormatChanges \/ Submit \/ EncodeStep
  BY <1>1 DEF Client, DesktopGoes, DesktopReturns, FormatChanges, Submit, EncodeStep, Take, Encode
<1>2. CASE SampleIdentical \/ EmptySlot \/ Copy \/ MakePool
  <2>1. frameCounter' = (frameCounter + 1) % SampleEvery
    BY <1>2 DEF SampleIdentical, EmptySlot, Copy, MakePool
  <2>2. frameCounter' \in 0 .. SampleEvery - 1
    BY <2>1, ConstantFacts
  <2>3. UNCHANGED <<world, duplication>>
    BY <1>2 DEF SampleIdentical, EmptySlot, Copy, MakePool
  <2> QED BY <2>2, <2>3
<1>3. CASE Reinitialize
  BY <1>3 DEF Reinitialize
<1> QED BY <1>1, <1>2, <1>3 DEF Next, CaptureStep

\* The empty slots of the pool are filled and its index is set back.
Refill ==
    /\ safePool[0] = NoTex /\ Len(formatOf) <= MaxPools
    /\ formatOf' = Append(formatOf, Bgra)
    /\ \E F \in SUBSET Slots : safePool' = Fill(safePool, F)
    /\ poolIndex' = 0
    /\ refs' = [t \in Textures |->
                  IF t \in Held(safePool') \ Held(safePool) THEN 1 ELSE refs[t]]
    /\ UNCHANGED <<frames, content, failed, capture, videoInputQueue, encode, encoded>>

LEMMA StepKinds ==
  ASSUME Next
  PROVE  Quiet \/ Refill \/ Copy \/ MakePool \/ Submit \/ Take \/ Encode
<1>1. CASE Client \/ DesktopGoes \/ DesktopReturns \/ FormatChanges
  BY <1>1 DEF Client, DesktopGoes, DesktopReturns, FormatChanges, Quiet, pool, copies
<1>2. CASE SampleIdentical \/ EmptySlot
  BY <1>2 DEF SampleIdentical, EmptySlot, Quiet, copies
<1>3. CASE Reinitialize
  BY <1>3 DEF Reinitialize, Quiet, Refill, copies
<1> QED BY <1>1, <1>2, <1>3 DEF Next, CaptureStep, EncodeStep

\* The pool, and what remains of it, that MakePool fills.
Emptied == IF safePool[0] = NoTex THEN safePool ELSE [i \in Slots |-> NoTex]

\* MakePool, with its definitions expanded.
LEMMA MakePoolFacts ==
  ASSUME Types, MakePool
  PROVE  /\ frames < MaxFrames /\ Len(formatOf) <= MaxPools
         /\ formatOf' = Append(formatOf, format)
         /\ Emptied \in [Slots -> Textures \cup {NoTex}] /\ Emptied[0] = NoTex
         /\ \E F \in SUBSET Slots : safePool' = Fill(Emptied, F)
         /\ \A t \in Textures :
               refs'[t] = (CASE t \in Held(safePool') \ Held(safePool) -> 1
                             [] t \in Held(safePool) \ Held(safePool') -> refs[t] - 1
                             [] OTHER -> refs[t])
                          + One(safePool'[0] = t)
         /\ \/ /\ safePool'[0] = NoTex /\ poolIndex' = 0
               /\ UNCHANGED <<frames, content, failed, capture>>
            \/ /\ safePool'[0] \in Textures /\ poolIndex' = 1 % PoolSize
               /\ CopyInto(safePool'[0], frames + 1, format)
         /\ UNCHANGED <<videoInputQueue, encode, encoded>>
         /\ refs' \in [Textures -> Int]
<1> DEFINE made(F) == Fill(Emptied, F)
           used(F) == IF made(F)[0] = NoTex THEN {} ELSE {made(F)[0]}
           poolRefs(F) == [t \in Textures |->
                             CASE t \in Held(made(F)) \ Held(safePool) -> 1
                               [] t \in Held(safePool) \ Held(made(F)) -> refs[t] - 1
                               [] OTHER -> refs[t]]
<1>1. /\ frames < MaxFrames /\ Len(formatOf) <= MaxPools /\ formatOf' = Append(formatOf, format)
      /\ UNCHANGED <<videoInputQueue, encode, encoded>>
  BY DEF MakePool
<1>2. PICK F \in SUBSET Slots :
        /\ safePool' = made(F)
        /\ refs' = [t \in Textures |-> poolRefs(F)[t] + (IF t \in used(F) THEN 1 ELSE 0)]
        /\ IF used(F) = {}
           THEN poolIndex' = 0 /\ UNCHANGED <<copies, capture>>
           ELSE poolIndex' = 1 % PoolSize /\ CopyInto(made(F)[0], frames + 1, format)
  BY DEF MakePool, Emptied
<1>3. Emptied \in [Slots -> Textures \cup {NoTex}] /\ Emptied[0] = NoTex
  BY ConstantFacts DEF Emptied, Types
<1>4. made(F) \in [Slots -> Textures \cup {NoTex}]
  BY <1>1, <1>3, FillFacts
<1> HIDE DEF made
<1>5. /\ \A t \in Textures : (t \in used(F)) <=> made(F)[0] = t
      /\ used(F) = {} <=> made(F)[0] = NoTex
      /\ made(F)[0] = NoTex \/ made(F)[0] \in Textures
  BY <1>4, ConstantFacts
<1>6. \A t \in Textures :
        refs'[t] = poolRefs(F)[t] + One(made(F)[0] = t)
  BY <1>2, <1>5 DEF One
<1>7. refs' \in [Textures -> Int]
  <2>1. \A t \in Textures : poolRefs(F)[t] \in Int
    BY DEF Types
  <2>2. \A t \in Textures : poolRefs(F)[t] + (IF t \in used(F) THEN 1 ELSE 0) \in Int
    BY <2>1
  <2> HIDE DEF poolRefs, used
  <2> QED BY <1>2, <2>2
<1>8. \/ /\ safePool'[0] = NoTex /\ poolIndex' = 0
         /\ UNCHANGED <<frames, content, failed, capture>>
      \/ /\ safePool'[0] \in Textures /\ poolIndex' = 1 % PoolSize
         /\ CopyInto(safePool'[0], frames + 1, format)
  BY <1>2, <1>5 DEF copies
<1>9. safePool' = Fill(Emptied, F)
  BY <1>2 DEF made
<1> QED BY <1>1, <1>2, <1>3, <1>6, <1>7, <1>8, <1>9

LEMMA CopyFacts ==
  ASSUME Types, Copy
  PROVE  /\ frames < MaxFrames /\ safePool[poolIndex] \in Textures /\ safePool[0] # NoTex
         /\ capture.at = "top"
         /\ CopyInto(safePool[poolIndex], frames + 1, FormatOf(safePool[poolIndex]))
         /\ refs' \in [Textures -> Int]
         /\ \A t \in Textures : refs'[t] = refs[t] + One(safePool[poolIndex] = t)
         /\ poolIndex' = (poolIndex + 1) % PoolSize
         /\ UNCHANGED <<safePool, formatOf, videoInputQueue, encode, encoded>>
<1>1. /\ frames < MaxFrames /\ safePool[poolIndex] # NoTex /\ safePool[0] # NoTex
      /\ capture.at = "top"
      /\ CopyInto(safePool[poolIndex], frames + 1, FormatOf(safePool[poolIndex]))
      /\ refs' = [refs EXCEPT ![safePool[poolIndex]] = @ + 1]
      /\ poolIndex' = (poolIndex + 1) % PoolSize
      /\ UNCHANGED <<safePool, formatOf, videoInputQueue, encode, encoded>>
  BY DEF Copy, Acquiring, PoolFits, AddRef
<1>2. safePool[poolIndex] \in Textures /\ refs \in [Textures -> Int]
  BY <1>1 DEF Types
<1>3. refs' \in [Textures -> Int]
  BY <1>1, <1>2
<1>4. \A t \in Textures : refs'[t] = refs[t] + One(safePool[poolIndex] = t)
  BY <1>1, <1>2 DEF One
<1> QED BY <1>1, <1>2, <1>3, <1>4

LEMMA SubmitFacts ==
  ASSUME Types, Submit
  PROVE  /\ capture.at = "have" /\ capture.tex \in Textures /\ capture' = Idle
         /\ \/ /\ Len(videoInputQueue) < QueueSize /\ UNCHANGED refs
               /\ \E e \in QueueEntries :
                     /\ e.tex = capture.tex /\ e.frame = capture.frame
                     /\ videoInputQueue' = Append(videoInputQueue, e)
            \/ /\ UNCHANGED videoInputQueue /\ refs' \in [Textures -> Int]
               /\ \A t \in Textures : refs'[t] = refs[t] - One(capture.tex = t)
         /\ UNCHANGED <<safePool, poolIndex, formatOf, frames, content, failed, encode, encoded>>
<1>1. /\ capture.at = "have" /\ capture' = Idle
      /\ \/ /\ Len(videoInputQueue) < QueueSize /\ UNCHANGED refs
            /\ videoInputQueue' = Append(videoInputQueue,
                                         [tex |-> capture.tex, frame |-> capture.frame])
         \/ /\ UNCHANGED videoInputQueue /\ refs' = [refs EXCEPT ![capture.tex] = @ - 1]
      /\ UNCHANGED <<safePool, poolIndex, formatOf, frames, content, failed, encode, encoded>>
  BY DEF Submit, Release, pool, copies
<1>2. capture.tex \in Textures /\ capture.frame \in Frames /\ refs \in [Textures -> Int]
  BY <1>1, HeldFacts DEF Types
<1>3. PICK e \in QueueEntries : e = [tex |-> capture.tex, frame |-> capture.frame]
  BY <1>2 DEF QueueEntries
<1>4. e.tex = capture.tex /\ e.frame = capture.frame
  BY <1>3
<1>5. CASE UNCHANGED refs /\ Len(videoInputQueue) < QueueSize
           /\ videoInputQueue' = Append(videoInputQueue, e)
  BY <1>1, <1>2, <1>4, <1>5
<1>6. CASE UNCHANGED videoInputQueue /\ refs' = [refs EXCEPT ![capture.tex] = @ - 1]
  <2>1. refs' \in [Textures -> Int]
    BY <1>2, <1>6
  <2>2. \A t \in Textures : refs'[t] = refs[t] - One(capture.tex = t)
    BY <1>2, <1>6 DEF One
  <2> QED BY <1>1, <1>2, <1>6, <2>1, <2>2
<1> QED BY <1>1, <1>3, <1>5, <1>6

LEMMA TakeFacts ==
  ASSUME Types, Take
  PROVE  /\ encode.at = "top" /\ videoInputQueue # <<>>
         /\ videoInputQueue' = Tail(videoInputQueue)
         /\ encode' \in HeldFrame /\ encode'.at = "have"
         /\ encode'.tex = videoInputQueue[1].tex /\ encode'.frame = videoInputQueue[1].frame
         /\ Head(videoInputQueue) = videoInputQueue[1] /\ 1 \in QueueIdx
         /\ UNCHANGED <<safePool, poolIndex, formatOf, frames, content, failed, refs, capture,
                        encoded>>
<1>1. /\ encode.at = "top" /\ videoInputQueue # <<>> /\ videoInputQueue' = Tail(videoInputQueue)
      /\ encode' = Busy(Head(videoInputQueue).tex, Head(videoInputQueue).frame)
      /\ UNCHANGED <<safePool, poolIndex, formatOf, frames, content, failed, refs, capture,
                     encoded>>
  BY DEF Take, pool, copies
<1>2. /\ Head(videoInputQueue) = videoInputQueue[1] /\ 1 \in QueueIdx
      /\ videoInputQueue[1] \in QueueEntries
  <2>1. videoInputQueue \in Seq(QueueEntries)
    BY DEF Types
  <2> HIDE DEF QueueEntries
  <2> QED BY <1>1, <2>1 DEF QueueIdx
<1>3. videoInputQueue[1].tex \in Textures /\ videoInputQueue[1].frame \in Frames
  BY <1>2 DEF QueueEntries
<1> QED BY <1>1, <1>2, <1>3, HeldFacts

LEMMA EncodeFacts ==
  ASSUME Types, Encode
  PROVE  /\ encode.at = "have" /\ encode.tex \in Textures /\ encode' = Idle
         /\ encoded' = encoded \cup {[frame |-> encode.frame, content |-> content[encode.tex]]}
         /\ refs' \in [Textures -> Int]
         /\ \A t \in Textures : refs'[t] = refs[t] - One(encode.tex = t)
         /\ UNCHANGED <<safePool, poolIndex, formatOf, frames, content, failed, capture,
                        videoInputQueue>>
<1>1. /\ encode.at = "have" /\ encode' = Idle
      /\ encoded' = encoded \cup {[frame |-> encode.frame, content |-> content[encode.tex]]}
      /\ refs' = [refs EXCEPT ![encode.tex] = @ - 1]
      /\ UNCHANGED <<safePool, poolIndex, formatOf, frames, content, failed, capture,
                     videoInputQueue>>
  BY DEF Encode, Release, pool, copies
<1>2. encode.tex \in Textures /\ refs \in [Textures -> Int]
  BY <1>1, HeldFacts DEF Types
<1>3. refs' \in [Textures -> Int]
  BY <1>1, <1>2
<1>4. \A t \in Textures : refs'[t] = refs[t] - One(encode.tex = t)
  BY <1>1, <1>2 DEF One
<1> QED BY <1>1, <1>2, <1>3, <1>4

LEMMA QueueFacts ==
  ASSUME Types
  PROVE  /\ \A k \in QueueIdx : /\ videoInputQueue[k].tex \in Textures
                               /\ videoInputQueue[k].frame \in Frames
         /\ Len(videoInputQueue) \in Nat /\ DOMAIN videoInputQueue = QueueIdx
<1>1. videoInputQueue \in Seq(QueueEntries)
  BY DEF Types
<1> HIDE DEF QueueEntries
<1>2. /\ \A k \in QueueIdx : videoInputQueue[k] \in QueueEntries
      /\ Len(videoInputQueue) \in Nat /\ DOMAIN videoInputQueue = QueueIdx
  BY <1>1 DEF QueueIdx
<1> QED BY <1>2 DEF QueueEntries

LEMMA QueueAppendIdx ==
  ASSUME Types, NEW e \in QueueEntries, videoInputQueue' = Append(videoInputQueue, e)
  PROVE  \A k \in QueueIdx' : \/ k \in QueueIdx /\ videoInputQueue'[k] = videoInputQueue[k]
                             \/ videoInputQueue'[k] = e
<1>1. videoInputQueue \in Seq(QueueEntries)
  BY DEF Types
<1> HIDE DEF QueueEntries
<1> QED BY <1>1 DEF QueueIdx

LEMMA QueueTailIdx ==
  ASSUME Types, videoInputQueue # <<>>, videoInputQueue' = Tail(videoInputQueue)
  PROVE  \A k \in QueueIdx' : k + 1 \in QueueIdx /\ videoInputQueue'[k] = videoInputQueue[k + 1]
<1>1. videoInputQueue \in Seq(QueueEntries)
  BY DEF Types
<1> HIDE DEF QueueEntries
<1> QED BY <1>1 DEF QueueIdx

LEMMA QueueTypes ==
  ASSUME Types, Next
  PROVE  videoInputQueue' \in Seq(QueueEntries) /\ Len(videoInputQueue') <= QueueSize
<1>1. /\ videoInputQueue \in Seq(QueueEntries) /\ Len(videoInputQueue) <= QueueSize
      /\ QueueSize \in Nat
  BY ConstantFacts DEF Types
<1> HIDE DEF QueueEntries
<1>2. ASSUME NEW e \in QueueEntries, Len(videoInputQueue) < QueueSize,
             videoInputQueue' = Append(videoInputQueue, e)
      PROVE  videoInputQueue' \in Seq(QueueEntries) /\ Len(videoInputQueue') <= QueueSize
  BY <1>1, <1>2
<1>3. ASSUME videoInputQueue # <<>>, videoInputQueue' = Tail(videoInputQueue)
      PROVE  videoInputQueue' \in Seq(QueueEntries) /\ Len(videoInputQueue') <= QueueSize
  BY <1>1, <1>3
<1>4. CASE Submit
  BY <1>1, <1>2, <1>4, SubmitFacts
<1>5. CASE Take
  BY <1>3, <1>5, TakeFacts
<1>6. CASE UNCHANGED videoInputQueue
  BY <1>1, <1>6
<1> QED BY <1>4, <1>5, <1>6, StepKinds, CopyFacts, MakePoolFacts, EncodeFacts DEF Quiet, Refill

LEMMA PoolTypes ==
  ASSUME Types, Next
  PROVE  /\ formatOf' \in Seq(Formats) /\ Len(formatOf') \in 1 .. MaxPools + 1
         /\ safePool' \in [Slots -> Textures \cup {NoTex}] /\ poolIndex' \in Slots
<1>1. /\ formatOf \in Seq(Formats) /\ Len(formatOf) \in 1 .. MaxPools + 1 /\ format \in Formats
      /\ safePool \in [Slots -> Textures \cup {NoTex}] /\ poolIndex \in Slots
      /\ 0 \in Slots /\ Bgra \in Formats /\ \A i \in Slots : (i + 1) % PoolSize \in Slots
      /\ 1 % PoolSize \in Slots
  <2>1. 1 % PoolSize \in Slots
    BY ConstantFacts DEF Slots
  <2> QED BY <2>1, ConstantFacts DEF Types
<1>2. CASE Refill
  BY <1>1, <1>2, FillFacts, MoreFormats DEF Refill
<1>3. CASE MakePool
  <2>1. safePool' \in [Slots -> Textures \cup {NoTex}]
    BY <1>3, MakePoolFacts, FillFacts
  <2> QED BY <1>1, <1>3, <2>1, MakePoolFacts, MoreFormats
<1>4. CASE UNCHANGED <<formatOf, safePool>> /\ poolIndex' \in {poolIndex, (poolIndex + 1) % PoolSize}
  BY <1>1, <1>4
<1> QED BY <1>2, <1>3, <1>4, StepKinds, CopyFacts, SubmitFacts, TakeFacts, EncodeFacts DEF Quiet

LEMMA TypesStep ==
  ASSUME Types, Next
  PROVE  Types'
<1>1. refs' \in [Textures -> Int]
  <2>1. CASE Refill
    BY <2>1 DEF Refill, Types
  <2>2. CASE UNCHANGED refs
    BY <2>2 DEF Types
  <2> QED BY <2>1, <2>2, StepKinds, CopyFacts, MakePoolFacts, SubmitFacts, TakeFacts, EncodeFacts
          DEF Quiet
<1>2. /\ frames' \in 0 .. MaxFrames /\ failed' \subseteq Frames
      /\ content' \in [Textures -> 0 .. MaxFrames] /\ capture' \in HeldFrame
  <2>1. CASE \E t \in Textures : \E f : frames < MaxFrames /\ CopyInto(t, frames + 1, f)
    BY <2>1, CopyIntoTypes
  <2>2. CASE UNCHANGED <<frames, failed, content>> /\ capture' \in {capture, Idle}
    BY <2>2, HeldFacts DEF Types
  <2>3. CASE Copy \/ MakePool
    BY <2>1, <2>2, <2>3, CopyFacts, MakePoolFacts
  <2>4. CASE Quiet \/ Refill \/ Submit \/ Take \/ Encode
    BY <2>2, <2>4, SubmitFacts, TakeFacts, EncodeFacts DEF Quiet, Refill
  <2> QED BY <2>3, <2>4, StepKinds
<1>3. encode' \in HeldFrame
  <2>1. encode \in HeldFrame
    BY DEF Types
  <2> QED BY <2>1, StepKinds, HeldFacts, CopyFacts, MakePoolFacts, SubmitFacts, TakeFacts,
             EncodeFacts DEF Quiet, Refill
<1> QED BY <1>1, <1>2, <1>3, WorldStep, QueueTypes, PoolTypes DEF Types, WorldTypes

----------------------------------------------------------------------------
(* A texture is in its own slot *)

\* What a making of the pool leaves in a slot: nothing, the texture created for
\* it, or, when slot 0 was empty, what was there.
LEMMA NewPool ==
  ASSUME Types, Refill \/ MakePool
  PROVE  /\ Len(formatOf') = Len(formatOf) + 1 /\ Len(formatOf) \in 0 .. MaxPools
         /\ \A i \in Slots : /\ <<Len(formatOf), i>> \in Textures
                             /\ ~Made(<<Len(formatOf), i>>, Len(formatOf))
                             /\ Made(<<Len(formatOf), i>>, Len(formatOf'))
         /\ \A i \in Slots : \/ safePool'[i] = NoTex
                             \/ safePool'[i] = <<Len(formatOf), i>>
                             \/ safePool[0] = NoTex /\ safePool'[i] = safePool[i]
         /\ \/ safePool'[0] = NoTex
            \/ safePool'[0] = <<Len(formatOf), 0>>
         /\ safePool' \in [Slots -> Textures \cup {NoTex}]
<1> USE ConstantFacts
<1>1. /\ Len(formatOf) <= MaxPools /\ Len(formatOf') = Len(formatOf) + 1
      /\ Len(formatOf) \in 0 .. MaxPools
  <2>1. Len(formatOf) <= MaxPools /\ \E f \in Formats : formatOf' = Append(formatOf, f)
    BY MakePoolFacts DEF Refill, Types
  <2>2. Len(formatOf) \in 1 .. MaxPools + 1
    BY DEF Types
  <2> QED BY <2>1, <2>2, MoreFormats
<1>2. \A i \in Slots : /\ <<Len(formatOf), i>> \in Textures
                       /\ ~Made(<<Len(formatOf), i>>, Len(formatOf))
                       /\ Made(<<Len(formatOf), i>>, Len(formatOf'))
  <2> SUFFICES ASSUME NEW i \in Slots
               PROVE  /\ <<Len(formatOf), i>> \in Textures
                      /\ ~Made(<<Len(formatOf), i>>, Len(formatOf))
                      /\ Made(<<Len(formatOf), i>>, Len(formatOf'))
    OBVIOUS
  <2>1. <<Len(formatOf), i>> \in Textures
    BY <1>1 DEF Textures
  <2>2. <<Len(formatOf), i>>[1] = Len(formatOf)
    OBVIOUS
  <2> QED BY <1>1, <2>1, <2>2 DEF Made
<1>3. PICK p \in [Slots -> Textures \cup {NoTex}] :
        /\ \E F \in SUBSET Slots : safePool' = Fill(p, F)
        /\ p[0] = NoTex
        /\ \A i \in Slots : p[i] = NoTex \/ (safePool[0] = NoTex /\ p[i] = safePool[i])
  <2>1. CASE Refill
    BY <2>1 DEF Refill, Types
  <2>2. CASE MakePool
    <3>1. \A i \in Slots : Emptied[i] = NoTex \/ (safePool[0] = NoTex /\ Emptied[i] = safePool[i])
      BY DEF Emptied
    <3> QED BY <2>2, <3>1, MakePoolFacts
  <2> QED BY <2>1, <2>2
<1>4. /\ safePool' \in [Slots -> Textures \cup {NoTex}]
      /\ \A i \in Slots : safePool'[i] = p[i]
                          \/ (p[i] = NoTex /\ safePool'[i] = <<Len(formatOf), i>>)
  BY <1>1, <1>3, FillFacts
<1> QED BY <1>1, <1>2, <1>3, <1>4

\* What a copy leaves, in the pool the capture thread then has.
LEMMA Copied ==
  ASSUME Types, NEW t \in Textures, NEW f, frames < MaxFrames, CopyInto(t, frames + 1, f)
  PROVE  /\ capture'.at = "have" /\ capture'.tex = t /\ capture'.frame = frames + 1
         /\ frames' = frames + 1
         /\ content' \in [Textures -> Nat]
         /\ \A u \in Textures : u # t => content'[u] = content[u]
         /\ \/ content'[t] = frames + 1 /\ failed' = failed
            \/ content'[t] = content[t] /\ failed' = failed \cup {frames + 1}
         /\ f = format => content'[t] = frames + 1
<1>1. capture'.at = "have" /\ capture'.tex = t /\ capture'.frame = frames + 1
  BY FrameFacts, HeldFacts DEF CopyInto
<1>2. content \in [Textures -> 0 .. MaxFrames] /\ MaxFrames \in Nat /\ frames \in Nat
  BY ConstantFacts DEF Types
<1> QED BY <1>1, <1>2 DEF CopyInto

\* What has been made stays made.
LEMMA StaysMade ==
  ASSUME Types, Next, NEW t, Made(t, Len(formatOf))
  PROVE  Made(t, Len(formatOf'))
<1>1. Len(formatOf) \in Nat /\ t \in Textures /\ t[1] < Len(formatOf)
  BY DEF Types, Made
<1>2. t[1] \in Nat
  BY <1>1, TextureFacts
<1>3. Len(formatOf') = Len(formatOf) \/ Len(formatOf') = Len(formatOf) + 1
  <2>1. CASE Refill \/ MakePool
    BY <2>1, NewPool
  <2>2. CASE UNCHANGED formatOf
    BY <2>2
  <2> QED BY <2>1, <2>2, StepKinds, CopyFacts, SubmitFacts, TakeFacts, EncodeFacts DEF Quiet
<1> QED BY <1>1, <1>2, <1>3 DEF Made

LEMMA OwnSlotsStep ==
  ASSUME Types, OwnSlots, Next
  PROVE  OwnSlots'
<1> USE DEF OwnSlots
<1>1. \A i \in Slots : safePool'[i] # NoTex => Made(safePool'[i], Len(formatOf')) /\ safePool'[i][2] = i
  <2>1. CASE Refill \/ MakePool
    <3> SUFFICES ASSUME NEW i \in Slots, safePool'[i] # NoTex
                 PROVE  Made(safePool'[i], Len(formatOf')) /\ safePool'[i][2] = i
      OBVIOUS
    <3>1. CASE safePool'[i] = <<Len(formatOf), i>>
      <4>1. safePool'[i][2] = i
        BY <3>1
      <4>2. Made(<<Len(formatOf), i>>, Len(formatOf'))
        BY <2>1, NewPool
      <4> QED BY <3>1, <4>1, <4>2
    <3>2. CASE safePool'[i] = safePool[i]
      BY <3>2, StaysMade
    <3> QED BY <2>1, <3>1, <3>2, NewPool
  <2>2. CASE UNCHANGED safePool
    BY <2>2, StaysMade
  <2> QED BY <2>1, <2>2, StepKinds, CopyFacts, SubmitFacts, TakeFacts, EncodeFacts DEF Quiet
<1>2. capture'.at = "have" => Made(capture'.tex, Len(formatOf'))
  <2>1. CASE capture' = capture
    BY <2>1, StaysMade
  <2>2. CASE capture' = Idle
    BY <2>2, HeldFacts
  <2>3. CASE Copy
    <3>1. Made(safePool[poolIndex], Len(formatOf))
      BY <2>3, CopyFacts, ConstantFacts DEF Types
    <3>2. capture'.tex = safePool[poolIndex]
      BY <2>3, CopyFacts, Copied
    <3> QED BY <3>1, <3>2, StaysMade
  <2>4. CASE MakePool
    <3>1. CASE UNCHANGED capture
      BY <2>1, <3>1
    <3>2. CASE safePool'[0] \in Textures /\ CopyInto(safePool'[0], frames + 1, format)
      <4>1. capture'.tex = safePool'[0]
        BY <2>4, <3>2, MakePoolFacts, Copied
      <4> QED BY <1>1, <3>2, <4>1, ConstantFacts
    <3> QED BY <2>4, <3>1, <3>2, MakePoolFacts
  <2> QED BY <2>1, <2>2, <2>3, <2>4, StepKinds, SubmitFacts, TakeFacts, EncodeFacts
          DEF Quiet, Refill
<1>3. encode'.at = "have" => Made(encode'.tex, Len(formatOf'))
  <2>1. CASE encode' = encode
    BY <2>1, StaysMade
  <2>2. CASE encode' = Idle
    BY <2>2, HeldFacts
  <2>3. CASE Take
    BY <2>3, TakeFacts, StaysMade
  <2> QED BY <2>1, <2>2, <2>3, StepKinds, CopyFacts, MakePoolFacts, SubmitFacts, EncodeFacts
          DEF Quiet, Refill
<1>4. \A k \in QueueIdx' : Made(videoInputQueue'[k].tex, Len(formatOf'))
  <2>1. CASE UNCHANGED videoInputQueue
    BY <2>1, StaysMade DEF QueueIdx
  <2>2. CASE Take
    <3>1. videoInputQueue' = Tail(videoInputQueue) /\ videoInputQueue # <<>>
      BY <2>2, TakeFacts
    <3>2. \A k \in QueueIdx' : k + 1 \in QueueIdx /\ videoInputQueue'[k] = videoInputQueue[k + 1]
      BY <3>1, QueueTailIdx
    <3> QED BY <3>2, StaysMade
  <2>3. CASE Submit
    <3>1. CASE \E e \in QueueEntries : /\ e.tex = capture.tex
                                       /\ videoInputQueue' = Append(videoInputQueue, e)
      <4>1. PICK e \in QueueEntries : /\ e.tex = capture.tex
                                      /\ videoInputQueue' = Append(videoInputQueue, e)
        BY <3>1
      <4>2. \A k \in QueueIdx' : \/ k \in QueueIdx /\ videoInputQueue'[k] = videoInputQueue[k]
                                \/ videoInputQueue'[k] = e
        BY <4>1, QueueAppendIdx
      <4>3. Made(capture.tex, Len(formatOf'))
        BY <2>3, SubmitFacts, StaysMade
      <4> QED BY <4>1, <4>2, <4>3, StaysMade
    <3> QED BY <2>1, <2>3, <3>1, SubmitFacts
  <2> QED BY <2>1, <2>2, <2>3, StepKinds, CopyFacts, MakePoolFacts, EncodeFacts DEF Quiet, Refill
<1> QED BY <1>1, <1>2, <1>3, <1>4
----------------------------------------------------------------------------
(* What is written, and when *)

LEMMA OwnSlot ==
  ASSUME Types, OwnSlots, NEW i \in Slots, NEW j \in Slots, safePool[i] # NoTex, i # j
  PROVE  safePool[i] # safePool[j]
BY DEF OwnSlots

\* A pool that has just been made has not been written.
LEMMA FreshPool ==
  ASSUME Types, OwnSlots, Unwritten, Refill \/ MakePool
  PROVE  \A i \in Slots : safePool'[i] # NoTex => content[safePool'[i]] = 0
BY NewPool DEF Unwritten

\* The steps that copy: where to, and into what.
LEMMA CopySteps ==
  ASSUME Types, OwnSlots, Next
  PROVE  \/ UNCHANGED <<frames, content, failed>> /\ capture' \in {capture, Idle}
         \/ /\ Copy \/ MakePool
            /\ \E i \in Slots :
                 /\ safePool'[i] \in Textures /\ Made(safePool'[i], Len(formatOf'))
                 /\ frames < MaxFrames
                 /\ \E f : CopyInto(safePool'[i], frames + 1, f)
                 /\ Copy => i = poolIndex /\ poolIndex' = (i + 1) % PoolSize
                 /\ MakePool => /\ i = 0 /\ poolIndex' = 1 % PoolSize
                                /\ ~Made(safePool'[i], Len(formatOf))
                                /\ CopyInto(safePool'[i], frames + 1, format)
<1>1. OwnSlots'
  BY OwnSlotsStep
<1>2. CASE Copy
  <2>1. poolIndex \in Slots /\ safePool'[poolIndex] # NoTex /\ safePool' = safePool
    BY <1>2, CopyFacts, ConstantFacts DEF Types
  <2>2. Made(safePool'[poolIndex], Len(formatOf'))
    BY <1>1, <2>1 DEF OwnSlots
  <2>3. ~MakePool
    BY <1>2 DEF Copy, MakePool
  <2> QED BY <1>2, <2>1, <2>2, <2>3, CopyFacts
<1>3. CASE MakePool
  <2>1. CASE safePool'[0] \in Textures /\ poolIndex' = 1 % PoolSize
             /\ CopyInto(safePool'[0], frames + 1, format)
    <3>1. 0 \in Slots /\ safePool'[0] # NoTex
      BY <2>1, ConstantFacts
    <3>2. Made(safePool'[0], Len(formatOf')) /\ ~Made(safePool'[0], Len(formatOf))
      BY <1>1, <1>3, <3>1, NewPool DEF OwnSlots
    <3>3. ~Copy
      BY <1>3 DEF Copy, MakePool
    <3> QED BY <1>3, <2>1, <3>1, <3>2, <3>3, MakePoolFacts
  <2> QED BY <1>3, <2>1, MakePoolFacts
<1> QED BY <1>2, <1>3, StepKinds, SubmitFacts, TakeFacts, EncodeFacts DEF Quiet, Refill

LEMMA UnwrittenStep ==
  ASSUME Types, OwnSlots, Unwritten, Next
  PROVE  Unwritten'
<1>1. /\ \A t \in Textures : ~Made(t, Len(formatOf')) => content'[t] = 0
      /\ \A t \in Textures : content'[t] <= frames'
  <2>1. \A t \in Textures : ~Made(t, Len(formatOf')) => ~Made(t, Len(formatOf))
    BY StaysMade
  <2>2. CASE UNCHANGED <<frames, content, failed>>
    BY <2>1, <2>2 DEF Unwritten
  <2>3. ASSUME NEW i \in Slots, NEW f, safePool'[i] \in Textures,
               Made(safePool'[i], Len(formatOf')), frames < MaxFrames,
               CopyInto(safePool'[i], frames + 1, f)
        PROVE  /\ \A t \in Textures : ~Made(t, Len(formatOf')) => content'[t] = 0
               /\ \A t \in Textures : content'[t] <= frames'
    <3>1. PICK u \in Textures : u = safePool'[i]
      BY <2>3
    <3>2. /\ frames' = frames + 1 /\ frames \in Nat
          /\ \A t \in Textures : t # u => content'[t] = content[t]
          /\ content'[u] = frames + 1 \/ content'[u] = content[u]
          /\ \A t \in Textures : content[t] \in Nat
      BY <2>3, <3>1, Copied, FrameFacts
    <3> QED BY <2>1, <2>3, <3>1, <3>2 DEF Unwritten
  <2> QED BY <2>2, <2>3, CopySteps
<1>2. ASSUME safePool'[0] = NoTex, NEW i \in Slots, safePool'[i] # NoTex
      PROVE  content'[safePool'[i]] = 0
  <2>1. CASE UNCHANGED <<safePool, content>>
    BY <1>2, <2>1 DEF Unwritten
  <2>2. CASE Refill \/ MakePool
    <3>1. content' = content
      BY <1>2, <2>2, MakePoolFacts, ConstantFacts DEF Refill
    <3> QED BY <1>2, <2>2, <3>1, FreshPool
  <2>3. ~Copy
    BY <1>2, CopyFacts
  <2> QED BY <2>1, <2>2, <2>3, StepKinds, SubmitFacts, TakeFacts, EncodeFacts DEF Quiet
<1> QED BY <1>1, <1>2 DEF Unwritten

\* A turn is at most a whole one, and comes one copy nearer with each copy.
LEMMA TurnFacts ==
  ASSUME Types
  PROVE  /\ \A i \in Slots : Turns(i) \in 0 .. PoolSize - 1
         /\ Turns(poolIndex) = 0
BY ConstantFacts DEF Types, Slots, Turns

LEMMA TurnStep ==
  ASSUME Types, poolIndex' = (poolIndex + 1) % PoolSize, NEW i \in Slots
  PROVE  Turns(i)' = IF i = poolIndex THEN PoolSize - 1 ELSE Turns(i) - 1
<1>1. poolIndex \in Slots /\ poolIndex \in Nat /\ i \in Nat /\ i < PoolSize /\ poolIndex < PoolSize
      /\ PoolSize \in Nat
  BY ConstantFacts DEF Types
<1>2. poolIndex' = IF poolIndex + 1 = PoolSize THEN 0 ELSE poolIndex + 1
  BY <1>1, NextTurn
<1> QED BY <1>1, <1>2 DEF Turns

LEMMA RingStep ==
  ASSUME Types, OwnSlots, Unwritten, Ring, Next
  PROVE  Ring'
<1> SUFFICES ASSUME NEW i \in Slots, safePool'[i] # NoTex, content'[safePool'[i]] > 0
             PROVE  content'[safePool'[i]] + PoolSize <= frames' + 1 + Turns(i)'
  BY DEF Ring
<1>1. Types' /\ OwnSlots' /\ frames \in Nat /\ PoolSize \in Nat
  BY TypesStep, OwnSlotsStep, FrameFacts, ConstantFacts
<1>2. CASE UNCHANGED <<safePool, content, frames, poolIndex>>
  BY <1>2 DEF Ring, Turns
<1>3. CASE (Refill \/ MakePool) /\ UNCHANGED <<frames, content, failed>>
  BY <1>3, FreshPool
<1>4. CASE MakePool /\ ~UNCHANGED <<frames, content, failed>>
  <2>1. /\ poolIndex' = 1 % PoolSize /\ safePool'[0] \in Textures /\ frames < MaxFrames
        /\ CopyInto(safePool'[0], frames + 1, format)
    BY <1>4, MakePoolFacts
  <2>2. /\ frames' = frames + 1
        /\ content'[safePool'[0]] = frames + 1
        /\ \A t \in Textures : t # safePool'[0] => content'[t] = content[t]
    BY <2>1, Copied
  <2>3. CASE i = 0
    <3>1. Turns(0)' = PoolSize - 1
      <4>1. PoolSize = 1 => poolIndex' = 0
        BY <2>1
      <4>2. PoolSize > 1 => poolIndex' = 1
        BY <1>1, <2>1
      <4>3. PoolSize = 1 \/ PoolSize > 1
        BY ConstantFacts
      <4> QED BY <1>1, <4>1, <4>2, <4>3 DEF Turns
    <3> QED BY <1>1, <2>2, <2>3, <3>1
  <2>4. CASE i # 0
    <3>1. safePool'[i] # safePool'[0] /\ safePool'[i] \in Textures
      BY <1>1, <2>1, <2>4, ConstantFacts DEF OwnSlots, Types
    <3>2. content'[safePool'[i]] = 0
      BY <1>4, <2>2, <3>1, FreshPool
    <3> QED BY <3>2
  <2> QED BY <2>3, <2>4
<1>5. CASE Copy
  <2>1. /\ poolIndex \in Slots /\ safePool[poolIndex] \in Textures /\ frames < MaxFrames
        /\ safePool' = safePool /\ poolIndex' = (poolIndex + 1) % PoolSize
        /\ \E f : CopyInto(safePool[poolIndex], frames + 1, f)
    BY <1>5, CopyFacts DEF Types
  <2>2. /\ frames' = frames + 1
        /\ \A t \in Textures : t # safePool[poolIndex] => content'[t] = content[t]
        /\ \/ content'[safePool[poolIndex]] = frames + 1
           \/ content'[safePool[poolIndex]] = content[safePool[poolIndex]]
    BY <2>1, Copied
  <2>3. Turns(i) \in 0 .. PoolSize - 1 /\ Turns(poolIndex) = 0 /\ safePool[i] \in Textures
        /\ content[safePool[i]] \in Nat
    <3>1. safePool[i] \in Textures
      BY <2>1 DEF Types
    <3> QED BY <3>1, TurnFacts, FrameFacts
  <2>4. CASE i = poolIndex
    <3>1. Turns(i)' = PoolSize - 1
      BY <2>1, <2>4, TurnStep
    <3>2. CASE content'[safePool[i]] = frames + 1
      BY <1>1, <2>1, <2>2, <3>1, <3>2
    <3>3. CASE content'[safePool[i]] = content[safePool[i]]
      <4>1. content[safePool[i]] + PoolSize <= frames + 1 + 0
        BY <2>1, <2>3, <2>4, <3>3 DEF Ring
      <4> QED BY <1>1, <2>1, <2>2, <2>3, <3>1, <3>3, <4>1
    <3> QED BY <2>2, <2>4, <3>2, <3>3
  <2>5. CASE i # poolIndex
    <3>1. Turns(i)' = Turns(i) - 1
      BY <2>1, <2>5, TurnStep
    <3>2. content'[safePool[i]] = content[safePool[i]]
      BY <2>1, <2>2, <2>3, <2>5, OwnSlot
    <3>3. content[safePool[i]] + PoolSize <= frames + 1 + Turns(i)
      BY <2>1, <3>2 DEF Ring
    <3> QED BY <1>1, <2>1, <2>2, <2>3, <3>1, <3>2, <3>3
  <2> QED BY <2>4, <2>5
<1> QED BY <1>2, <1>3, <1>4, <1>5, StepKinds, SubmitFacts, TakeFacts, EncodeFacts
        DEF Quiet, Refill
----------------------------------------------------------------------------
(* What is in flight *)

\* A frame in flight, or read, is its own or a whole turn later, and stays so.
LEMMA TurnedStep ==
  ASSUME Types, OwnSlots, Unwritten, Ring, Next,
         NEW t, Made(t, Len(formatOf)), NEW n \in Frames, Turned(t, n)
  PROVE  Turned(t, n)'
<1>1. t \in Textures /\ n \in Nat /\ n > 0 /\ PoolSize \in Nat
      /\ frames \in Nat /\ content[t] \in Nat
  BY FrameFacts, ConstantFacts DEF Made
<1>2. CASE UNCHANGED <<frames, content, failed>>
  BY <1>2 DEF Turned
<1>3. ASSUME NEW u \in Textures, NEW f, frames < MaxFrames, CopyInto(u, frames + 1, f),
             u = t => content[t] + PoolSize <= frames + 1 \/ content[t] = 0
      PROVE  Turned(t, n)'
  <2>1. /\ \A v \in Textures : v # u => content'[v] = content[v]
        /\ content'[u] = frames + 1 \/ content'[u] = content[u]
        /\ failed' = failed \/ failed' = failed \cup {frames + 1}
    BY <1>3, Copied
  <2>2. content[t] <= frames
    BY <1>1 DEF Unwritten
  <2>3. CASE content'[t] = content[t]
    BY <2>1, <2>3 DEF Turned
  <2>4. CASE u = t /\ content'[t] = frames + 1
    BY <1>1, <1>3, <2>1, <2>2, <2>4 DEF Turned
  <2> QED BY <1>1, <2>1, <2>3, <2>4
<1>4. CASE Copy /\ ~UNCHANGED <<frames, content, failed>>
  <2>1. /\ poolIndex \in Slots /\ safePool[poolIndex] \in Textures /\ frames < MaxFrames
        /\ \E f : CopyInto(safePool[poolIndex], frames + 1, f)
    BY <1>4, CopyFacts DEF Types
  <2>2. content[safePool[poolIndex]] > 0
        => content[safePool[poolIndex]] + PoolSize <= frames + 1 + 0
    BY <2>1, TurnFacts, ConstantFacts DEF Ring
  <2>3. safePool[poolIndex] = t => content[t] + PoolSize <= frames + 1 \/ content[t] = 0
    BY <1>1, <2>2
  <2> QED BY <1>3, <2>1, <2>3
<1>5. CASE MakePool /\ ~UNCHANGED <<frames, content, failed>>
  <2>1. PICK i \in Slots : /\ safePool'[i] \in Textures /\ frames < MaxFrames
                           /\ ~Made(safePool'[i], Len(formatOf))
                           /\ CopyInto(safePool'[i], frames + 1, format)
    BY <1>5, CopySteps
  <2> QED BY <1>3, <2>1
<1> QED BY <1>2, <1>4, <1>5, CopySteps

LEMMA InFlightStep ==
  ASSUME Types, OwnSlots, Unwritten, Ring, InFlight, Next
  PROVE  InFlight'
<1>1. \A t \in Textures, n \in Frames :
        Made(t, Len(formatOf)) /\ Turned(t, n) => Turned(t, n)'
  BY TurnedStep
<1>2. /\ capture.at = "have" => /\ capture.tex \in Textures /\ capture.frame \in Frames
                                /\ Made(capture.tex, Len(formatOf))
                                /\ Turned(capture.tex, capture.frame)
      /\ encode.at = "have" => /\ encode.tex \in Textures /\ encode.frame \in Frames
                               /\ Made(encode.tex, Len(formatOf))
                               /\ Turned(encode.tex, encode.frame)
      /\ \A k \in QueueIdx : /\ videoInputQueue[k].tex \in Textures
                             /\ videoInputQueue[k].frame \in Frames
                             /\ Made(videoInputQueue[k].tex, Len(formatOf))
                             /\ Turned(videoInputQueue[k].tex, videoInputQueue[k].frame)
  BY HeldFacts, QueueFacts DEF Types, OwnSlots, InFlight
<1>3. capture'.at = "have" => Turned(capture.tex, capture.frame)'
  <2>1. CASE capture' = capture
    BY <1>1, <1>2, <2>1 DEF Turned
  <2>2. CASE capture' = Idle
    BY <2>2, HeldFacts
  <2>3. ASSUME NEW u \in Textures, NEW f, frames < MaxFrames, CopyInto(u, frames + 1, f)
        PROVE  Turned(capture.tex, capture.frame)'
    <3>1. /\ capture'.tex = u /\ capture'.frame = frames + 1
          /\ content'[u] = frames + 1 \/ frames + 1 \in failed'
      BY <2>3, Copied
    <3> QED BY <3>1, FrameFacts DEF Turned
  <2> QED BY <2>1, <2>2, <2>3, CopySteps
<1>4. encode'.at = "have" => Turned(encode.tex, encode.frame)'
  <2>1. CASE encode' = encode
    BY <1>1, <1>2, <2>1 DEF Turned
  <2>2. CASE encode' = Idle
    BY <2>2, HeldFacts
  <2>3. CASE Take
    <3>1. /\ 1 \in QueueIdx /\ encode'.tex = videoInputQueue[1].tex
          /\ encode'.frame = videoInputQueue[1].frame
      BY <2>3, TakeFacts
    <3> QED BY <1>1, <1>2, <3>1 DEF Turned
  <2> QED BY <2>1, <2>2, <2>3, StepKinds, CopyFacts, MakePoolFacts, SubmitFacts, EncodeFacts
          DEF Quiet, Refill
<1>5. \A k \in QueueIdx' : Turned(videoInputQueue[k].tex, videoInputQueue[k].frame)'
  <2>1. CASE UNCHANGED videoInputQueue
    BY <1>1, <1>2, <2>1 DEF QueueIdx, Turned
  <2>2. CASE Take
    <3>1. \A k \in QueueIdx' : k + 1 \in QueueIdx /\ videoInputQueue'[k] = videoInputQueue[k + 1]
      BY <2>2, TakeFacts, QueueTailIdx
    <3> QED BY <1>1, <1>2, <3>1 DEF Turned
  <2>3. ASSUME Submit, NEW e \in QueueEntries, e.tex = capture.tex, e.frame = capture.frame,
               videoInputQueue' = Append(videoInputQueue, e)
        PROVE  \A k \in QueueIdx' : Turned(videoInputQueue[k].tex, videoInputQueue[k].frame)'
    <3>1. \A k \in QueueIdx' : \/ k \in QueueIdx /\ videoInputQueue'[k] = videoInputQueue[k]
                              \/ videoInputQueue'[k] = e
      BY <2>3, QueueAppendIdx
    <3>2. capture.at = "have"
      BY <2>3, SubmitFacts
    <3> QED BY <1>1, <1>2, <2>3, <3>1, <3>2 DEF Turned
  <2> QED BY <2>1, <2>2, <2>3, StepKinds, CopyFacts, MakePoolFacts, SubmitFacts, EncodeFacts
          DEF Quiet, Refill
<1> QED BY <1>3, <1>4, <1>5 DEF InFlight

\* What the encoder reads it reads of the texture it has in hand.
LEMMA FullTurnStep ==
  ASSUME Types, InFlight, FullTurn, Next
  PROVE  FullTurn'
<1>1. \A n \in failed : n \in failed'
  BY StepKinds, CopyFacts, MakePoolFacts, SubmitFacts, TakeFacts, EncodeFacts
     DEF Quiet, Refill, CopyInto
<1>2. CASE Encode
  <2>1. /\ encode.at = "have" /\ failed' = failed
        /\ encoded' = encoded \cup {[frame |-> encode.frame, content |-> content[encode.tex]]}
    BY <1>2, EncodeFacts
  <2>2. Turned(encode.tex, encode.frame)
    BY <2>1 DEF InFlight
  <2> QED BY <2>1, <2>2 DEF FullTurn, Turned
<1>3. CASE UNCHANGED encoded
  BY <1>1, <1>3 DEF FullTurn
<1> QED BY <1>2, <1>3, StepKinds, CopyFacts, MakePoolFacts, SubmitFacts, TakeFacts DEF Quiet, Refill
----------------------------------------------------------------------------
(* Every reference has a holder *)

LEMMA QueueCountType ==
  ASSUME NEW S, NEW q \in Seq(S), NEW t
  PROVE  QueueCount(q, t) \in Nat
<1>1. {k \in DOMAIN q : q[k].tex = t} \in SUBSET (1 .. Len(q)) /\ Len(q) \in Nat
  OBVIOUS
<1> QED BY <1>1, IndicesFinite DEF QueueCount

\* A pool holds a texture in the texture's own slot or not at all.
LEMMA PoolCounts ==
  ASSUME NEW p, \A i \in Slots : p[i] # NoTex => p[i][2] = i, NEW t \in Textures
  PROVE  /\ PoolCount(p, t) = One(p[t[2]] = t)
         /\ t \in Held(p) <=> p[t[2]] = t
<1>1. t[2] \in Slots /\ t # NoTex
  BY TextureFacts
<1>2. \A i \in Slots : p[i] = t => i = t[2]
  BY <1>1
<1> QED BY <1>1, <1>2, PoolOne, HeldBySlots

\* No one has a texture in hand that has not been made.
LEMMA NotHeld ==
  ASSUME Types, OwnSlots, NEW t \in Textures, ~Made(t, Len(formatOf))
  PROVE  /\ safePool[t[2]] # t /\ QueueCount(videoInputQueue, t) = 0
         /\ capture.tex # t /\ encode.tex # t
<1>1. t[2] \in Slots /\ t # NoTex
  BY TextureFacts
<1>2. safePool[t[2]] # t
  BY <1>1 DEF OwnSlots
<1>3. capture.tex # t /\ encode.tex # t
  BY <1>1, HeldFacts DEF OwnSlots, Types
<1>4. {k \in DOMAIN videoInputQueue : videoInputQueue[k].tex = t} = {}
  BY QueueFacts DEF OwnSlots
<1> QED BY <1>2, <1>3, <1>4, FS_EmptySet DEF QueueCount

LEMMA CountedStep ==
  ASSUME Types, OwnSlots, TexturesCounted, Next
  PROVE  TexturesCounted'
<1> SUFFICES ASSUME NEW t \in Textures
             PROVE  refs'[t] = PoolCount(safePool', t) + QueueCount(videoInputQueue', t)
                               + One(capture'.tex = t) + One(encode'.tex = t)
  BY DEF TexturesCounted, PoolCount, QueueCount, One
<1> DEFINE R == refs[t]                           R1 == refs'[t]
           P == One(safePool[t[2]] = t)           P1 == One(safePool'[t[2]] = t)
           Q == QueueCount(videoInputQueue, t)    Q1 == QueueCount(videoInputQueue', t)
           C == One(capture.tex = t)              C1 == One(capture'.tex = t)
           E == One(encode.tex = t)               E1 == One(encode'.tex = t)
<1>1. OwnSlots' /\ Types'
  BY OwnSlotsStep, TypesStep
<1>2. PoolCount(safePool, t) = P /\ (t \in Held(safePool) <=> P = 1)
  BY PoolCounts DEF OwnSlots, One
<1>3. PoolCount(safePool', t) = P1 /\ (t \in Held(safePool') <=> P1 = 1)
  BY <1>1, PoolCounts DEF OwnSlots, One
<1>4. R = P + Q + C + E
  BY <1>2 DEF TexturesCounted, PoolCount, QueueCount, One
<1>5. /\ R \in Int /\ R1 \in Int /\ Q \in Int /\ Q1 \in Int
      /\ P \in {0, 1} /\ P1 \in {0, 1} /\ C \in {0, 1} /\ C1 \in {0, 1}
      /\ E \in {0, 1} /\ E1 \in {0, 1}
  <2>1. Q \in Nat /\ Q1 \in Nat
    BY <1>1, QueueCountType DEF Types
  <2>2. R \in Int /\ R1 \in Int
    BY <1>1 DEF Types
  <2> QED BY <2>1, <2>2 DEF One
<1>6. /\ t # NoTex /\ Idle.tex = NoTex
      /\ \A h \in HeldFrame : h.at = "top" => h.tex = NoTex
  BY TextureFacts, HeldFacts
<1>7. /\ capture.at = "top" => C = 0
      /\ encode.at = "top" => E = 0
      /\ capture' = Idle => C1 = 0
      /\ encode' = Idle => E1 = 0
  BY <1>6 DEF Types, One
<1>8. /\ UNCHANGED safePool => P1 = P
      /\ UNCHANGED videoInputQueue => Q1 = Q
      /\ UNCHANGED capture => C1 = C
      /\ UNCHANGED encode => E1 = E
      /\ UNCHANGED refs => R1 = R
  OBVIOUS
<1> SUFFICES R1 = P1 + Q1 + C1 + E1
  BY <1>3
<1>9. CASE Copy
  <2>1. R1 = R + C1 /\ C = 0
    BY <1>7, <1>9, CopyFacts, Copied
  <2>2. P1 = P /\ Q1 = Q /\ E1 = E
    BY <1>8, <1>9, CopyFacts
  <2> HIDE DEF R, P, Q, C, E, R1, P1, Q1, C1, E1
  <2> QED BY <1>4, <1>5, <2>1, <2>2
<1>10. CASE Refill \/ MakePool
  <2>1. Q1 = Q /\ E1 = E
    BY <1>8, <1>10, MakePoolFacts DEF Refill
  <2>2. P1 = 1 /\ P = 0 => R = 0
    <3> SUFFICES ASSUME P1 = 1, P = 0 PROVE R = 0
      OBVIOUS
    <3>1. t[2] \in Slots /\ safePool'[t[2]] = t /\ safePool[t[2]] # t
      BY TextureFacts DEF One
    <3>2. ~Made(t, Len(formatOf))
      BY <1>6, <1>10, <3>1, NewPool
    <3>3. C = 0 /\ E = 0 /\ P = 0 /\ Q = 0
      BY <3>2, NotHeld DEF One
    <3> HIDE DEF R, P, Q, C, E
    <3> QED BY <1>4, <3>3
  <2>3. CASE Refill
    <3>1. C1 = C /\ R1 = IF P1 = 1 /\ P # 1 THEN 1 ELSE R
      BY <1>2, <1>3, <1>8, <2>3 DEF Refill
    <3>2. P = 1 => P1 = 1
      <4>1. P = 1 => t[2] \in Slots /\ safePool[t[2]] = t
        BY TextureFacts DEF One
      <4>2. \A i \in Slots : safePool[i] # NoTex => safePool'[i] = safePool[i]
        BY <2>3, FillFacts DEF Refill, Types
      <4> QED BY <1>6, <4>1, <4>2 DEF One
    <3> HIDE DEF R, P, Q, C, E, R1, P1, Q1, C1, E1
    <3> QED BY <1>4, <1>5, <2>1, <2>2, <3>1, <3>2
  <2>4. CASE MakePool
    <3>1. C = 0
      BY <1>7, <2>4 DEF MakePool, Acquiring
    <3>2. C1 = One(safePool'[0] = t)
      <4>1. CASE safePool'[0] = NoTex /\ capture' = capture
        BY <1>6, <1>8, <3>1, <4>1 DEF One
      <4>2. CASE safePool'[0] \in Textures /\ CopyInto(safePool'[0], frames + 1, format)
        BY <2>4, <4>2, MakePoolFacts, Copied
      <4> QED BY <2>4, <4>1, <4>2, MakePoolFacts
    <3>3. R1 = (IF P1 = 1 /\ P # 1 THEN 1 ELSE IF P = 1 /\ P1 # 1 THEN R - 1 ELSE R) + C1
      BY <1>2, <1>3, <2>4, <3>2, MakePoolFacts
    <3> HIDE DEF R, P, Q, C, E, R1, P1, Q1, C1, E1
    <3> QED BY <1>4, <1>5, <2>1, <2>2, <3>1, <3>3
  <2> QED BY <1>10, <2>3, <2>4
<1>11. CASE Submit
  <2>1. C1 = 0 /\ E1 = E /\ P1 = P
    BY <1>7, <1>8, <1>11, SubmitFacts
  <2>2. (R1 = R /\ Q1 = Q + C) \/ (Q1 = Q /\ R1 = R - C)
    <3>1. CASE UNCHANGED refs /\ \E e \in QueueEntries :
                 e.tex = capture.tex /\ videoInputQueue' = Append(videoInputQueue, e)
      BY <3>1, QueueAppend DEF Types
    <3>2. CASE UNCHANGED videoInputQueue /\ R1 = R - C
      BY <3>2
    <3> QED BY <1>11, <3>1, <3>2, SubmitFacts
  <2> HIDE DEF R, P, Q, C, E, R1, P1, Q1, C1, E1
  <2> QED BY <1>4, <1>5, <2>1, <2>2
<1>12. CASE Take
  <2>1. R1 = R /\ P1 = P /\ C1 = C /\ E = 0
    BY <1>7, <1>8, <1>12, TakeFacts
  <2>2. Q1 = Q - E1
    <3>1. /\ videoInputQueue \in Seq(QueueEntries) /\ videoInputQueue # <<>>
          /\ videoInputQueue' = Tail(videoInputQueue)
          /\ encode'.tex = Head(videoInputQueue).tex
      BY <1>12, TakeFacts DEF Types
    <3>2. QueueCount(Tail(videoInputQueue), t)
            = QueueCount(videoInputQueue, t) - One(Head(videoInputQueue).tex = t)
      BY <3>1, QueueTail
    <3> QED BY <3>1, <3>2
  <2> HIDE DEF R, P, Q, C, E, R1, P1, Q1, C1, E1
  <2> QED BY <1>4, <1>5, <2>1, <2>2
<1>13. CASE Encode
  <2>1. E1 = 0 /\ P1 = P /\ C1 = C /\ Q1 = Q /\ R1 = R - E
    BY <1>7, <1>8, <1>13, EncodeFacts
  <2> HIDE DEF R, P, Q, C, E, R1, P1, Q1, C1, E1
  <2> QED BY <1>4, <1>5, <2>1
<1>14. CASE Quiet
  <2>1. R1 = R /\ E1 = E /\ P1 = P /\ C1 = C /\ Q1 = Q
    BY <1>8, <1>14 DEF Quiet
  <2> HIDE DEF R, P, Q, C, E, R1, P1, Q1, C1, E1
  <2> QED BY <1>4, <2>1
<1> QED BY <1>9, <1>10, <1>11, <1>12, <1>13, <1>14, StepKinds

----------------------------------------------------------------------------
(* The invariant, and what it gives *)

LEMMA InitInv == Init => IInv
<1> SUFFICES ASSUME Init PROVE IInv
  OBVIOUS
<1>1. Types
  BY InitTypes
<1>2. /\ formatOf = <<Bgra>> /\ frames = 0 /\ content = [t \in Textures |-> 0]
      /\ capture = Idle /\ encode = Idle /\ videoInputQueue = <<>> /\ encoded = {}
      /\ refs = [t \in Textures |-> IF t \in Held(safePool) THEN 1 ELSE 0]
      /\ Len(formatOf) = 1 /\ QueueIdx = {} /\ DOMAIN videoInputQueue = {}
  <2>1. Len(<<Bgra>>) = 1 /\ 1 .. Len(<< >>) = {} /\ DOMAIN << >> = {}
    OBVIOUS
  <2> QED BY <2>1 DEF Init, QueueIdx
<1>3. \A i \in Slots : safePool[i] = NoTex \/ safePool[i] = <<0, i>>
  BY DEF Init
<1>4. OwnSlots
  <2>1. \A i \in Slots : safePool[i] # NoTex => Made(safePool[i], 1) /\ safePool[i][2] = i
    BY <1>1, <1>3, ConstantFacts DEF Types, Made
  <2> QED BY <1>2, <2>1, HeldFacts DEF OwnSlots
<1>5. Unwritten
  BY <1>1, <1>2 DEF Unwritten, Types
<1>6. Ring
  BY <1>1, <1>2 DEF Ring, Types
<1>7. InFlight
  BY <1>2, HeldFacts DEF InFlight
<1>8. TexturesCounted
  <2> SUFFICES ASSUME NEW t \in Textures
               PROVE  refs[t] = PoolCount(safePool, t) + QueueCount(videoInputQueue, t)
                                + One(capture.tex = t) + One(encode.tex = t)
    BY DEF TexturesCounted, PoolCount, QueueCount, One
  <2>1. QueueCount(videoInputQueue, t) = 0
    <3>1. {k \in DOMAIN videoInputQueue : videoInputQueue[k].tex = t} = {}
      BY <1>2
    <3> QED BY <3>1, FS_EmptySet DEF QueueCount
  <2>2. One(capture.tex = t) = 0 /\ One(encode.tex = t) = 0
    BY <1>2, HeldFacts, TextureFacts DEF One
  <2>3. PoolCount(safePool, t) = refs[t]
    BY <1>2, <1>4, PoolCounts DEF OwnSlots, One
  <2>4. refs[t] \in Int
    BY <1>1 DEF Types
  <2> QED BY <2>1, <2>2, <2>3, <2>4
<1>9. FullTurn
  BY <1>2 DEF FullTurn
<1> QED BY <1>1, <1>4, <1>5, <1>6, <1>7, <1>8, <1>9 DEF IInv

LEMMA Invariance == Spec => []IInv
<1>1. IInv /\ [Next]_vars => IInv'
  <2> SUFFICES ASSUME IInv, [Next]_vars PROVE IInv'
    OBVIOUS
  <2>1. CASE Next
    BY <2>1, TypesStep, OwnSlotsStep, UnwrittenStep, RingStep, InFlightStep, CountedStep,
       FullTurnStep DEF IInv
  <2>2. CASE UNCHANGED vars
    <3> USE <2>2 DEF vars, world, pool, copies
    <3>1. Types'
      BY DEF IInv, Types
    <3>2. OwnSlots' /\ Unwritten'
      BY DEF IInv, OwnSlots, Unwritten, QueueIdx
    <3>3. Ring' /\ InFlight'
      BY DEF IInv, Ring, Turns, InFlight, Turned, QueueIdx
    <3>4. TexturesCounted' /\ FullTurn'
      BY DEF IInv, TexturesCounted, FullTurn
    <3> QED BY <3>1, <3>2, <3>3, <3>4 DEF IInv
  <2> QED BY <2>1, <2>2
<1> QED BY <1>1, InitInv, PTL DEF Spec

\* Types, for every size of the ring and the queue; in particular no texture is
\* released more often than it was referenced (refs is never negative).
THEOREM TypeCorrect == Spec => []TypeOK
<1>1. IInv => TypeOK
  <2> SUFFICES ASSUME IInv PROVE TypeOK
    OBVIOUS
  <2>1. Types /\ OwnSlots /\ TexturesCounted
    BY DEF IInv
  <2>2. \A t \in Textures : refs[t] \in Nat
    <3> SUFFICES ASSUME NEW t \in Textures PROVE refs[t] \in Nat
      OBVIOUS
    <3>1. refs[t] = PoolCount(safePool, t) + QueueCount(videoInputQueue, t)
                    + One(capture.tex = t) + One(encode.tex = t)
      BY <2>1 DEF TexturesCounted, PoolCount, QueueCount, One
    <3>2. PoolCount(safePool, t) = One(safePool[t[2]] = t)
      BY <2>1, PoolCounts DEF OwnSlots
    <3>3. QueueCount(videoInputQueue, t) \in Nat
      BY <2>1, QueueCountType DEF Types
    <3>4. \A b : One(b) \in Nat
      BY DEF One
    <3>5. PoolCount(safePool, t) \in Nat /\ One(capture.tex = t) \in Nat /\ One(encode.tex = t) \in Nat
      BY <3>2, <3>4
    <3> QED BY <3>1, <3>3, <3>5
  <2>3. refs \in [Textures -> Nat]
    BY <2>1, <2>2 DEF Types
  <2> QED BY <2>1, <2>3 DEF Types, TypeOK, QueueEntries
<1> QED BY <1>1, Invariance, PTL

\* Every reference has a holder (AddRef and Release of AcquireFromMonitorGpu,
\* SubmitVideoFrameGpu and the encode thread): what a texture's count says is
\* what the ring, the queue and the two threads hold.
THEOREM Counting == Spec => []TexturesCounted
<1>1. IInv => TexturesCounted
  BY DEF IInv
<1> QED BY <1>1, Invariance, PTL

\* The ring gives each frame a full turn (safePoolIndex): the encoder reads the
\* frame it was given, a copy that is kSafePoolSize copies later or more, or
\* what a copy between two formats left.
THEOREM FullTurnKept == Spec => []FullTurn
<1>1. IInv => FullTurn
  BY DEF IInv
<1> QED BY <1>1, Invariance, PTL

=============================================================================
