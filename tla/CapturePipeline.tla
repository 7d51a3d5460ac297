-------------------------- MODULE CapturePipeline --------------------------
(***************************************************************************)
(* The agent from the desktop to the encoder: CaptureThread copies the     *)
(* duplicated desktop into a ring of pre-allocated textures                *)
(* (DxgiScreenCapture::AcquireFromMonitorGpu) and hands each copy, with a  *)
(* reference, to EncoderManager::SubmitVideoFrameGpu; the encode thread    *)
(* takes it from videoInputQueue, reads it and releases it.                *)
(*                                                                         *)
(* The copies are numbered; frame n is the n-th copy, and content[t] is the*)
(* number of the last copy made into texture t.  The pool is made once at  *)
(* the start and again when the desktop's pixel format changes or when its *)
(* first slot is empty: the texture created for slot i at the k-th making  *)
(* is <<k, i>>, and all textures created then have format formatOf[k].     *)
(* m_running stays set while the agent runs.                               *)
(***************************************************************************)
EXTENDS Naturals, Sequences, FiniteSets

CONSTANTS PoolSize,     \* kSafePoolSize (12)
          QueueSize,    \* capacity of videoInputQueue (96)
          SampleEvery,  \* frames between two comparisons of the sample (8)
          MaxFrames,    \* bound: copies made
          Formats,      \* pixel formats a desktop can have
          Bgra,         \* B8G8R8A8_UNORM, the format of the first pool
          MaxPools,     \* bound: makings of the pool after the first
          NoTex         \* a slot whose texture could not be created

ASSUME PipelineAssumption ==
    /\ PoolSize \in Nat \ {0} /\ QueueSize \in Nat \ {0} /\ SampleEvery \in Nat \ {0}
    /\ MaxFrames \in Nat /\ MaxPools \in Nat /\ Bgra \in Formats
    /\ NoTex \notin Nat \X Nat

Slots == 0 .. PoolSize - 1
Textures == (0 .. MaxPools) \X Slots

VARIABLES m_clientConnected,
          desktop,      \* "up", or "away": a secure desktop, a locked or sleeping screen
          duplication,  \* mc.duplication: "ok", "lost", or "none"
          format,       \* pixel format of the desktop
          frameCounter, \* modulo SampleEvery
          safePool, poolIndex,
          formatOf,     \* format of the textures of each making, in order
          frames,       \* copies made so far
          content,      \* the last copy made into each texture
          failed,       \* copies into a texture of another format (history)
          refs,         \* references held on each texture
          capture,      \* capture thread: [at, tex, frame]
          videoInputQueue,
          encode,       \* encode thread: [at, tex, frame]
          encoded       \* what the encoder has read for each frame (history)

world == <<m_clientConnected, desktop, format>>
pool  == <<safePool, poolIndex, formatOf, frameCounter>>
copies == <<frames, content, failed>>
vars  == <<world, duplication, pool, copies, refs, capture, videoInputQueue, encode, encoded>>

Idle == [at |-> "top", tex |-> NoTex, frame |-> 0]
Busy(t, n) == [at |-> "have", tex |-> t, frame |-> n]

AddRef(t)  == refs' = [refs EXCEPT ![t] = @ + 1]
Release(t) == refs' = [refs EXCEPT ![t] = @ - 1]

\* The next making of the pool: the empty slots of p are filled, except those
\* of F, whose textures cannot be created.
Fill(p, F) == [i \in Slots |-> IF p[i] = NoTex /\ i \notin F THEN <<Len(formatOf), i>> ELSE p[i]]

FormatOf(t) == formatOf[t[1] + 1]

\* Copy n into texture t.  Between two formats CopySubresourceRegion fails
\* silently and leaves the texture as it was.
CopyInto(t, n, f) ==
    /\ frames' = n
    /\ content' = IF f = format THEN [content EXCEPT ![t] = n] ELSE content
    /\ failed' = IF f = format THEN failed ELSE failed \cup {n}
    /\ capture' = Busy(t, n)

Held(p) == {p[i] : i \in Slots} \ {NoTex}

\* Whether the desktop can be duplicated Initialize does not look at; without a
\* duplication there is no pool.
Init ==
    /\ m_clientConnected = FALSE /\ desktop = "up" /\ format \in Formats
    /\ duplication \in {"ok", "none"} /\ frameCounter = 0
    /\ \E F \in SUBSET Slots :
          /\ duplication = "none" => F = Slots
          /\ safePool = [i \in Slots |-> IF i \in F THEN NoTex ELSE <<0, i>>]
    /\ poolIndex = 0 /\ formatOf = <<Bgra>> /\ frames = 0 /\ failed = {}
    /\ content = [t \in Textures |-> 0]
    /\ refs = [t \in Textures |-> IF t \in Held(safePool) THEN 1 ELSE 0]
    /\ capture = Idle /\ videoInputQueue = <<>> /\ encode = Idle /\ encoded = {}

----------------------------------------------------------------------------
(* What happens around the capture thread *)

Client ==      \* AcceptThread
    /\ m_clientConnected' = ~m_clientConnected
    /\ UNCHANGED <<desktop, format, duplication, pool, copies, refs, capture,
                   videoInputQueue, encode, encoded>>

DesktopGoes == \* the duplication of the desktop is lost with it
    /\ desktop = "up" /\ desktop' = "away"
    /\ duplication' = IF duplication = "ok" THEN "lost" ELSE duplication
    /\ UNCHANGED <<m_clientConnected, format, pool, copies, refs, capture,
                   videoInputQueue, encode, encoded>>

DesktopReturns ==
    /\ desktop = "away" /\ desktop' = "up"
    /\ UNCHANGED <<m_clientConnected, format, duplication, pool, copies, refs, capture,
                   videoInputQueue, encode, encoded>>

FormatChanges ==
    /\ \E f \in Formats \ {format} : format' = f
    /\ UNCHANGED <<m_clientConnected, desktop, duplication, pool, copies, refs, capture,
                   videoInputQueue, encode, encoded>>

----------------------------------------------------------------------------
(* CaptureThread *)

PoolFits == safePool[0] # NoTex /\ FormatOf(safePool[0]) = format

Acquiring == capture.at = "top" /\ m_clientConnected

\* ACCESS_LOST: InitDuplicationForOutput drops the duplication and asks for a
\* new one, which it does not get while the desktop is away.  If it does, and
\* slot 0 is empty, the empty slots are filled, always in Bgra.
Reinitialize ==
    /\ Acquiring /\ duplication = "lost"
    /\ \/ desktop = "away" /\ duplication' = "none"
          /\ UNCHANGED <<safePool, poolIndex, formatOf, refs>>
       \/ /\ desktop = "up" /\ duplication' = "ok"
          /\ \/ safePool[0] # NoTex /\ UNCHANGED <<safePool, poolIndex, formatOf, refs>>
             \/ /\ safePool[0] = NoTex /\ Len(formatOf) <= MaxPools
                /\ formatOf' = Append(formatOf, Bgra)
                /\ \E F \in SUBSET Slots :
                    /\ safePool' = Fill(safePool, F) /\ poolIndex' = 0
                    /\ refs' = [t \in Textures |->
                                  IF t \in Held(safePool') \ Held(safePool) THEN 1 ELSE refs[t]]
    /\ UNCHANGED <<world, frameCounter, copies, capture, videoInputQueue, encode, encoded>>

\* A frame is acquired whose sample is due and the same as last time (the
\* pixels are not modelled: any sample may be).
SampleIdentical ==
    /\ Acquiring /\ duplication = "ok"
    /\ frameCounter' = (frameCounter + 1) % SampleEvery /\ frameCounter' = 0
    /\ UNCHANGED <<world, duplication, safePool, poolIndex, formatOf, copies, refs, capture,
                   videoInputQueue, encode, encoded>>

CopyTurnsEarly ==           \* mutant of Copy: the ring is one slot short
    /\ Acquiring /\ duplication = "ok" /\ frames < MaxFrames
    /\ PoolFits /\ safePool[poolIndex] # NoTex
    /\ frameCounter' = (frameCounter + 1) % SampleEvery
    /\ CopyInto(safePool[poolIndex], frames + 1, FormatOf(safePool[poolIndex]))
    /\ AddRef(safePool[poolIndex])
    /\ poolIndex' = (poolIndex + 1) % (PoolSize - 1)
    /\ UNCHANGED <<world, duplication, safePool, formatOf, videoInputQueue, encode, encoded>>

\* A frame is acquired, the pool is fit for it, and it is copied.
Copy ==
    /\ Acquiring /\ duplication = "ok" /\ frames < MaxFrames
    /\ PoolFits /\ safePool[poolIndex] # NoTex
    /\ frameCounter' = (frameCounter + 1) % SampleEvery
    /\ CopyInto(safePool[poolIndex], frames + 1, FormatOf(safePool[poolIndex]))
    /\ AddRef(safePool[poolIndex])
    /\ poolIndex' = (poolIndex + 1) % PoolSize
    /\ UNCHANGED <<world, duplication, safePool, formatOf, videoInputQueue, encode, encoded>>

\* The slot whose turn it is has no texture: no frame, and the index stays.
EmptySlot ==
    /\ Acquiring /\ duplication = "ok"
    /\ PoolFits /\ safePool[poolIndex] = NoTex
    /\ frameCounter' = (frameCounter + 1) % SampleEvery
    /\ UNCHANGED <<world, duplication, safePool, poolIndex, formatOf, copies, refs, capture,
                   videoInputQueue, encode, encoded>>

\* The texture in slot 0 is of another format, or slot 0 is empty: all textures
\* are released in the first case, and the empty slots are filled; then the
\* frame is copied.
MakePool ==
    /\ Acquiring /\ duplication = "ok" /\ frames < MaxFrames
    /\ ~PoolFits /\ Len(formatOf) <= MaxPools
    /\ formatOf' = Append(formatOf, format)
    /\ frameCounter' = (frameCounter + 1) % SampleEvery
    /\ \E F \in SUBSET Slots :
         LET kept == IF safePool[0] = NoTex THEN safePool ELSE [i \in Slots |-> NoTex]
             made == Fill(kept, F)
             used == IF made[0] = NoTex THEN {} ELSE {made[0]}
             poolRefs == [t \in Textures |-> CASE t \in Held(made) \ Held(safePool) -> 1
                                               [] t \in Held(safePool) \ Held(made) -> refs[t] - 1
                                               [] OTHER -> refs[t]]
         IN  /\ safePool' = made
             /\ refs' = [t \in Textures |-> poolRefs[t] + (IF t \in used THEN 1 ELSE 0)]
             /\ IF used = {}
                THEN poolIndex' = 0 /\ UNCHANGED <<copies, capture>>
                ELSE poolIndex' = 1 % PoolSize /\ CopyInto(made[0], frames + 1, format)
    /\ UNCHANGED <<world, duplication, videoInputQueue, encode, encoded>>

SubmitUnbounded ==          \* mutant of Submit: the bound is not looked at
    /\ capture.at = "have"
    /\ videoInputQueue' = Append(videoInputQueue, [tex |-> capture.tex, frame |-> capture.frame])
    /\ capture' = Idle
    /\ UNCHANGED <<world, duplication, pool, copies, refs, encode, encoded>>

SubmitForgetsRelease ==     \* mutant of Submit: a refused frame keeps its reference
    /\ capture.at = "have"
    /\ videoInputQueue' = IF Len(videoInputQueue) < QueueSize
                          THEN Append(videoInputQueue, [tex |-> capture.tex, frame |-> capture.frame])
                          ELSE videoInputQueue
    /\ capture' = Idle
    /\ UNCHANGED <<world, duplication, pool, copies, refs, encode, encoded>>

\* SubmitVideoFrameGpu: the reference goes into the queue with the frame, or is
\* given back when the queue is full.
Submit ==
    /\ capture.at = "have"
    /\ IF Len(videoInputQueue) < QueueSize
       THEN /\ videoInputQueue' = Append(videoInputQueue, [tex |-> capture.tex, frame |-> capture.frame])
            /\ UNCHANGED refs
       ELSE Release(capture.tex) /\ UNCHANGED videoInputQueue
    /\ capture' = Idle
    /\ UNCHANGED <<world, duplication, pool, copies, encode, encoded>>

----------------------------------------------------------------------------
(* The encode thread *)

Take ==
    /\ encode.at = "top" /\ videoInputQueue # <<>>
    /\ encode' = Busy(Head(videoInputQueue).tex, Head(videoInputQueue).frame)
    /\ videoInputQueue' = Tail(videoInputQueue)
    /\ UNCHANGED <<world, duplication, pool, copies, refs, capture, encoded>>

\* EncodeFrameGpu reads the texture, then it is released.
Encode ==
    /\ encode.at = "have"
    /\ encoded' = encoded \cup {[frame |-> encode.frame, content |-> content[encode.tex]]}
    /\ Release(encode.tex)
    /\ encode' = Idle
    /\ UNCHANGED <<world, duplication, pool, copies, capture, videoInputQueue>>

CaptureStep == Reinitialize \/ SampleIdentical \/ Copy \/ EmptySlot \/ MakePool \/ Submit
EncodeStep  == Take \/ Encode

Next ==
    \/ Client \/ DesktopGoes \/ DesktopReturns \/ FormatChanges
    \/ CaptureStep \/ EncodeStep

Spec == Init /\ [][Next]_vars
FairSpec == Spec /\ WF_vars(CaptureStep) /\ WF_vars(EncodeStep)

----------------------------------------------------------------------------
Frames == 1 .. MaxFrames
HeldFrame == {Idle} \cup {Busy(t, n) : t \in Textures, n \in Frames}

TypeOK ==
    /\ m_clientConnected \in BOOLEAN /\ desktop \in {"up", "away"}
    /\ duplication \in {"ok", "lost", "none"}
    /\ format \in Formats /\ formatOf \in Seq(Formats) /\ Len(formatOf) \in 1 .. MaxPools + 1
    /\ failed \subseteq Frames /\ frameCounter \in 0 .. SampleEvery - 1
    /\ safePool \in [Slots -> Textures \cup {NoTex}] /\ poolIndex \in Slots
    /\ frames \in 0 .. MaxFrames
    /\ content \in [Textures -> 0 .. MaxFrames]
    /\ refs \in [Textures -> Nat]
    /\ videoInputQueue \in Seq([tex : Textures, frame : Frames])
    /\ Len(videoInputQueue) <= QueueSize
    /\ capture \in HeldFrame /\ encode \in HeldFrame

\* EVERY REFERENCE HAS A HOLDER.  A texture is referenced once by the pool it
\* is in, once by each queued frame, and once by each thread that has it in
\* hand: none leaks when a frame is refused or the pool is made anew, and none
\* is freed while a frame is queued.
TexturesCounted ==
    \A t \in Textures :
        refs[t] = Cardinality({i \in Slots : safePool[i] = t})
                + Cardinality({k \in DOMAIN videoInputQueue : videoInputQueue[k].tex = t})
                + (IF capture.tex = t THEN 1 ELSE 0) + (IF encode.tex = t THEN 1 ELSE 0)

\* THE RING GIVES EACH FRAME A FULL TURN.  What the encoder reads for a frame is
\* that frame, unless PoolSize or more copies have been made since: then it is
\* a later one, whole turns later, and never an earlier one (but for a copy that
\* failed because the pool was of mixed formats).
FullTurn ==
    \A e \in encoded : \/ e.content = e.frame
                       \/ e.frame \in failed
                       \/ e.content >= e.frame + PoolSize

\* "the pool texture guarantees the encoder always sees valid data regardless
\* of when the encode thread processes it" (DxgiScreenCapture.cpp:574).
EncoderSeesItsFrame == \A e \in encoded : e.frame \in failed \/ e.content = e.frame

\* ACCESS_LOST is answered by initializing the duplication again, "to resume
\* the capture" (DxgiScreenCapture.cpp:443): with the desktop back for good and
\* a client to send to, there is a duplication to capture from, if there once was.
CaptureResumes ==
    <>[](desktop = "up" /\ m_clientConnected) /\ <>(duplication = "ok")
        => []<>(duplication = "ok")
=============================================================================
