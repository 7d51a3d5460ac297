------------------------ MODULE ViewerPlaybackProofs ------------------------
(***************************************************************************)
(* What is proved of the viewer's playback for every capacity of the queue *)
(* and any number of frames: that textures are counted, that the counter   *)
(* of rendered frames never runs ahead of the screen, and that the screen  *)
(* never goes back.                                                        *)
(***************************************************************************)
EXTENDS ViewerPlayback, Integers, TLAPS

Positions == 1 .. Len(published)

\* The decode thread has a frame from the queue that is not yet published.
InHand == {"decode", "lock", "publish"}

DecodeStates == [at : {"top", "decode", "lock", "publish", "relock", "exit"},
                 frame : 0 .. MaxFrames]
RenderStates == [at : {"top", "load", "snapshot", "draw", "drawn", "cvlock", "block",
                       "waiting", "exit"},
                 id : Nat, frame : 0 .. MaxFrames]

\* Types; refs may be any integers here: that they are not negative follows
\* from their being counts.
Types ==
    /\ vfr \in BOOLEAN /\ gpu \in BOOLEAN /\ m_running \in BOOLEAN
    /\ m_videoQueue \in Seq(Frames) /\ Len(m_videoQueue) <= QueueSize
    /\ received \in 0 .. MaxFrames
    /\ netrecv \in {"run", "exit"}
    /\ mutex \in {"none", "decode", "render"}
    /\ m_latestFrame \in 0 .. MaxFrames
    /\ m_decodedFrameId \in Nat /\ m_lastRenderedFrameId \in Nat
    /\ published \in Seq(Frames)
    /\ refs \in [Frames -> Int]
    /\ decode \in DecodeStates
    /\ decode.at \in InHand => decode.frame \in Frames
    /\ render \in RenderStates
    /\ main \in {"loop", "notify", "join", "done"}
    /\ windowSize \in 0 .. MaxResizes /\ pendingSize \in 0 .. MaxResizes
    /\ swapSize \in 0 .. MaxResizes
    /\ shown \in 0 .. MaxFrames

\* Stop has cleared m_running from its first step on; when it has returned the
\* threads have ended and the last picture is gone.
Ended ==
    /\ main # "loop" => ~m_running
    /\ main = "done" => decode.at = "exit" /\ render.at = "exit" /\ m_latestFrame = 0

\* References are counts of holders, and memory pictures have none.
Counted == IF gpu THEN \A f \in Frames : refs[f] = Holders(f)
                  ELSE \A f \in Frames : refs[f] = 0

\* Frames go from the network through the queue and the decode thread to the
\* screen in one order.
InOrder ==
    /\ \A k \in 1 .. Len(m_videoQueue) : m_videoQueue[k] <= received
    /\ \A k, l \in 1 .. Len(m_videoQueue) : k < l => m_videoQueue[k] < m_videoQueue[l]
    /\ decode.at \in InHand =>
          /\ decode.frame <= received
          /\ \A k \in 1 .. Len(m_videoQueue) : decode.frame < m_videoQueue[k]
          /\ \A i \in Positions : published[i] < decode.frame
    /\ \A i \in Positions : published[i] <= received
    /\ \A i \in Positions, k \in 1 .. Len(m_videoQueue) : published[i] < m_videoQueue[k]
    /\ \A i, j \in Positions : i < j => published[i] < published[j]

\* The latest picture is the last published one, or the one just about to be.
Latest ==
    /\ m_decodedFrameId = Len(published)
    /\ main # "done" =>
          m_latestFrame = CASE decode.at = "publish"  -> decode.frame
                            [] decode.at # "publish" /\ published # <<>> ->
                                  published[Len(published)]
                            [] OTHER -> 0

\* What the render thread has read, has in hand and has shown.
Screen ==
    /\ m_lastRenderedFrameId <= m_decodedFrameId /\ render.id <= m_decodedFrameId
    /\ main # "done" => shown <= m_latestFrame
    /\ render.at = "draw" =>
          /\ shown <= render.frame /\ render.frame <= m_latestFrame
          /\ render.id > 0 => render.frame >= published[render.id]
    /\ m_running /\ render.at = "drawn" /\ render.id > 0 => shown >= published[render.id]
    /\ m_running /\ m_lastRenderedFrameId > 0 => shown >= published[m_lastRenderedFrameId]

IInv == Types /\ Ended /\ Counted /\ InOrder /\ Latest /\ Screen

----------------------------------------------------------------------------
(* Sequences and references *)

LEMMA TailFacts ==
  ASSUME NEW S, NEW s \in Seq(S), s # <<>>
  PROVE  /\ Head(s) \in S /\ Head(s) = s[1] /\ Len(s) \in Nat \ {0}
         /\ Tail(s) \in Seq(S) /\ Len(Tail(s)) = Len(s) - 1
         /\ \A i \in 1 .. Len(s) - 1 : Tail(s)[i] = s[i + 1]
OBVIOUS

LEMMA AppendFacts ==
  ASSUME NEW S, NEW s \in Seq(S), NEW e \in S
  PROVE  /\ Append(s, e) \in Seq(S) /\ Len(Append(s, e)) = Len(s) + 1
         /\ Len(s) \in Nat /\ Append(s, e) # <<>>
         /\ \A i \in 1 .. Len(s) : Append(s, e)[i] = s[i]
         /\ Append(s, e)[Len(s) + 1] = e
OBVIOUS

LEMMA LenFacts ==
  ASSUME NEW S, NEW s \in Seq(S)
  PROVE  /\ Len(s) \in Nat /\ \A i \in 1 .. Len(s) : s[i] \in S
         /\ s # <<>> => Len(s) >= 1
OBVIOUS

LEMMA NumbersAreNat == MaxFrames \in Nat /\ MaxResizes \in Nat /\ QueueSize \in Nat
                       /\ Frames \subseteq Nat /\ \A f \in Frames : f > 0 /\ f \in 0 .. MaxFrames
BY PlaybackAssumption DEF Frames

One(b) == IF b THEN 1 ELSE 0

LEMMA AddRefCounts ==
  ASSUME gpu \in BOOLEAN, NEW r \in [Frames -> Int], NEW f \in 0 .. MaxFrames
  PROVE  /\ AddRef(r, f) \in [Frames -> Int]
         /\ ~gpu => AddRef(r, f) = r
         /\ gpu => \A g \in Frames : AddRef(r, f)[g] = r[g] + One(f = g)
<1>1. CASE gpu /\ f # 0
  <2>1. AddRef(r, f) = [r EXCEPT ![f] = @ + 1]
    BY <1>1 DEF AddRef
  <2>2. [r EXCEPT ![f] = @ + 1] \in [Frames -> Int]
    BY <1>1 DEF Frames
  <2>3. \A g \in Frames : [r EXCEPT ![f] = @ + 1][g] = r[g] + One(f = g)
    BY <1>1 DEF One, Frames
  <2> QED BY <1>1, <2>1, <2>2, <2>3
<1>2. CASE ~(gpu /\ f # 0)
  <2>1. AddRef(r, f) = r
    BY <1>2 DEF AddRef
  <2>2. gpu => \A g \in Frames : One(f = g) = 0
    BY <1>2, NumbersAreNat DEF One
  <2>3. \A g \in Frames : r[g] + 0 = r[g]
    OBVIOUS
  <2> QED BY <2>1, <2>2, <2>3
<1> QED BY <1>1, <1>2

LEMMA ReleaseCounts ==
  ASSUME gpu \in BOOLEAN, NEW r \in [Frames -> Int], NEW f \in 0 .. MaxFrames
  PROVE  /\ Release(r, f) \in [Frames -> Int]
         /\ ~gpu => Release(r, f) = r
         /\ gpu => \A g \in Frames : Release(r, f)[g] = r[g] - One(f = g)
<1>1. CASE gpu /\ f # 0
  <2>1. Release(r, f) = [r EXCEPT ![f] = @ - 1]
    BY <1>1 DEF Release
  <2>2. [r EXCEPT ![f] = @ - 1] \in [Frames -> Int]
    BY <1>1 DEF Frames
  <2>3. \A g \in Frames : [r EXCEPT ![f] = @ - 1][g] = r[g] - One(f = g)
    BY <1>1 DEF One, Frames
  <2> QED BY <1>1, <2>1, <2>2, <2>3
<1>2. CASE ~(gpu /\ f # 0)
  <2>1. Release(r, f) = r
    BY <1>2 DEF Release
  <2>2. gpu => \A g \in Frames : One(f = g) = 0
    BY <1>2, NumbersAreNat DEF One
  <2>3. \A g \in Frames : r[g] - 0 = r[g]
    OBVIOUS
  <2> QED BY <2>1, <2>2, <2>3
<1> QED BY <1>1, <1>2

----------------------------------------------------------------------------
(* Records *)

DecodeAts == {"top", "decode", "lock", "publish", "relock", "exit"}
RenderAts == {"top", "load", "snapshot", "draw", "drawn", "cvlock", "block", "waiting", "exit"}

\* Fields of the two threads' records, set one or several at a time.
LEMMA DecodeRecords ==
  /\ \A d \in DecodeStates : d.at \in DecodeAts /\ d.frame \in 0 .. MaxFrames
  /\ \A d \in DecodeStates, a \in DecodeAts :
        /\ [d EXCEPT !.at = a] \in DecodeStates
        /\ [d EXCEPT !.at = a].at = a /\ [d EXCEPT !.at = a].frame = d.frame
  /\ \A a \in DecodeAts, f \in 0 .. MaxFrames : [at |-> a, frame |-> f] \in DecodeStates
BY DEF DecodeStates, DecodeAts

LEMMA RenderRecords ==
  /\ \A r \in RenderStates : r.at \in RenderAts /\ r.id \in Nat /\ r.frame \in 0 .. MaxFrames
  /\ \A r \in RenderStates, a \in RenderAts :
        /\ [r EXCEPT !.at = a] \in RenderStates
        /\ [r EXCEPT !.at = a].at = a
        /\ [r EXCEPT !.at = a].id = r.id /\ [r EXCEPT !.at = a].frame = r.frame
BY DEF RenderStates, RenderAts

LEMMA RenderFrames ==
  ASSUME NEW r \in RenderStates, NEW a \in RenderAts, NEW f \in 0 .. MaxFrames
  PROVE  /\ [r EXCEPT !.at = a, !.frame = f] \in RenderStates
         /\ [r EXCEPT !.at = a, !.frame = f].at = a
         /\ [r EXCEPT !.at = a, !.frame = f].frame = f
         /\ [r EXCEPT !.at = a, !.frame = f].id = r.id
BY DEF RenderStates, RenderAts

LEMMA RenderIds ==
  ASSUME NEW r \in RenderStates, NEW a \in RenderAts, NEW i \in Nat
  PROVE  /\ [r EXCEPT !.at = a, !.id = i] \in RenderStates
         /\ [r EXCEPT !.at = a, !.id = i].at = a
         /\ [r EXCEPT !.at = a, !.id = i].frame = r.frame
         /\ [r EXCEPT !.at = a, !.id = i].id = i
         /\ [r EXCEPT !.id = i, !.at = a] \in RenderStates
         /\ [r EXCEPT !.id = i, !.at = a].at = a
         /\ [r EXCEPT !.id = i, !.at = a].frame = r.frame
         /\ [r EXCEPT !.id = i, !.at = a].id = i
BY DEF RenderStates, RenderAts

LEMMA WakeRenderKeeps ==
  ASSUME NEW r \in RenderStates
  PROVE  /\ WakeRender(r) \in RenderStates
         /\ WakeRender(r).id = r.id /\ WakeRender(r).frame = r.frame
         /\ \A a \in {"draw", "drawn", "exit"} : (WakeRender(r).at = a) <=> (r.at = a)
<1>1. CASE r.at = "waiting"
  <2>1. "cvlock" \in RenderAts /\ WakeRender(r) = [r EXCEPT !.at = "cvlock"]
    BY <1>1 DEF RenderAts, WakeRender
  <2>2. WakeRender(r).at = "cvlock" /\ r.at = "waiting"
    BY <1>1, <2>1, RenderRecords
  <2> QED BY <2>1, <2>2, RenderRecords
<1>2. CASE r.at # "waiting"
  BY <1>2 DEF WakeRender
<1> QED BY <1>1, <1>2

----------------------------------------------------------------------------
(* Types *)

LEMMA InitTypes == Init => Types
<1>1. ASSUME Init PROVE Types
  <2>1. m_videoQueue = <<>> /\ published = <<>>
    BY <1>1 DEF Init
  <2>2. m_videoQueue \in Seq(Frames) /\ published \in Seq(Frames) /\ Len(m_videoQueue) = 0
    BY <2>1
  <2>3. refs \in [Frames -> Int]
    BY <1>1 DEF Init
  <2>4. /\ decode \in DecodeStates /\ render \in RenderStates /\ decode.at = "top"
    BY <1>1, NumbersAreNat DEF Init, DecodeStates, RenderStates
  <2> QED BY <1>1, <2>2, <2>3, <2>4, NumbersAreNat DEF Init, Types, InHand
<1> QED BY <1>1

\* What the steps of the two threads do to their records, field by field.
LEMMA DecodeFields ==
  ASSUME decode \in DecodeStates
  PROVE  /\ DecodeTop => /\ decode.at = "top"
                         /\ \/ decode'.at = "exit" /\ UNCHANGED m_videoQueue
                            \/ /\ decode'.at = "decode" /\ decode'.frame = Head(m_videoQueue)
                               /\ m_videoQueue # <<>> /\ m_videoQueue' = Tail(m_videoQueue)
         /\ Decode => /\ decode.at = "decode"
                      /\ \/ /\ decode'.at = "lock" /\ decode'.frame = decode.frame
                            /\ refs' = AddRef(refs, decode.frame)
                         \/ decode'.at = "top" /\ UNCHANGED refs
         /\ Replace => /\ decode.at = "lock" /\ decode'.at = "publish"
                       /\ decode'.frame = decode.frame
         /\ Publish => decode.at = "publish" /\ decode'.at \in {"top", "relock"}
BY SMT DEF DecodeTop, Decode, Replace, Publish, DecodeStates

LEMMA RenderFields ==
  ASSUME render \in RenderStates
  PROVE  /\ RenderTop => /\ render.at = "top" /\ render'.at \in {"load", "exit"}
                         /\ render'.id = render.id
         /\ LoadId => /\ render.at = "load" /\ render'.at \in {"snapshot", "cvlock"}
                      /\ render'.id = m_decodedFrameId
         /\ Draw => /\ render.at = "draw" /\ render'.at = "drawn" /\ render'.id = render.id
         /\ Drawn => render.at = "drawn" /\ render'.at = "top" /\ render'.id = 0
         /\ CvCheck => /\ render.at = "cvlock" /\ render'.at \in {"top", "block"}
                       /\ render'.id \in {0, render.id}
         /\ CvBlock => /\ render.at = "block" /\ render'.at = "waiting"
                       /\ render'.id = render.id
<1>1. RenderTop => /\ render.at = "top" /\ render'.at \in {"load", "exit"}
                   /\ render'.id = render.id
  BY DEF RenderTop, RenderStates
<1>2. LoadId => /\ render.at = "load" /\ render'.at \in {"snapshot", "cvlock"}
                /\ render'.id = m_decodedFrameId
  BY DEF LoadId, RenderStates
<1>3. Draw => /\ render.at = "draw" /\ render'.at = "drawn" /\ render'.id = render.id
  <2>1. Draw => render.at = "draw" /\ render' = [render EXCEPT !.at = "drawn", !.frame = 0]
    BY DEF Draw
  <2> QED BY <2>1 DEF RenderStates
<1>4. Drawn => render.at = "drawn" /\ render'.at = "top" /\ render'.id = 0
  BY DEF Drawn, RenderStates
<1>5. CvCheck => /\ render.at = "cvlock" /\ render'.at \in {"top", "block"}
                 /\ render'.id \in {0, render.id}
  <2>1. CvCheck => /\ render.at = "cvlock"
                   /\ \/ render' = [render EXCEPT !.at = "top", !.id = 0]
                      \/ render' = [render EXCEPT !.at = "block"]
    BY DEF CvCheck
  <2> QED BY <2>1 DEF RenderStates
<1>6. CvBlock => /\ render.at = "block" /\ render'.at = "waiting"
                 /\ render'.id = render.id
  BY DEF CvBlock, RenderStates
<1> QED BY <1>1, <1>2, <1>3, <1>4, <1>5, <1>6

LEMMA SnapshotFields ==
  ASSUME render \in RenderStates, Snapshot
  PROVE  /\ render.at = "snapshot" /\ render'.id = render.id
         /\ \/ ~m_running /\ render'.at = "drawn" /\ UNCHANGED refs
            \/ /\ render'.at = "draw" /\ render'.frame = m_latestFrame
               /\ refs' = AddRef(refs, m_latestFrame)
<1>1. /\ render.at = "snapshot"
      /\ \/ /\ ~m_running /\ UNCHANGED refs
            /\ render' = [render EXCEPT !.at = "drawn", !.frame = 0]
         \/ /\ refs' = AddRef(refs, m_latestFrame)
            /\ render' = [render EXCEPT !.at = "draw", !.frame = m_latestFrame]
  BY DEF Snapshot
<1>2. /\ [render EXCEPT !.at = "drawn", !.frame = 0].at = "drawn"
      /\ [render EXCEPT !.at = "drawn", !.frame = 0].id = render.id
  BY DEF RenderStates
<1>3. /\ [render EXCEPT !.at = "draw", !.frame = m_latestFrame].at = "draw"
      /\ [render EXCEPT !.at = "draw", !.frame = m_latestFrame].id = render.id
      /\ [render EXCEPT !.at = "draw", !.frame = m_latestFrame].frame = m_latestFrame
  BY DEF RenderStates
<1> QED BY <1>1, <1>2, <1>3, Zenon

LEMMA DecodeTypes ==
  ASSUME Types, Next
  PROVE  decode' \in DecodeStates /\ (decode'.at \in InHand => decode'.frame \in Frames)
<1> USE NumbersAreNat DEF Types, InHand, DecodeAts
<1>1. CASE DecodeTop
  <2>1. CASE decode' = [decode EXCEPT !.at = "exit"]
    BY <2>1, DecodeRecords
  <2>2. CASE m_videoQueue # <<>> /\ decode' = [at |-> "decode", frame |-> Head(m_videoQueue)]
    <3>1. Head(m_videoQueue) \in Frames
      BY <2>2, TailFacts
    <3> QED BY <2>2, <3>1, DecodeRecords
  <2> QED BY <1>1, <2>1, <2>2 DEF DecodeTop
<1>2. CASE Decode
  <2>1. CASE decode' = [decode EXCEPT !.at = "lock"]
    BY <1>2, <2>1, DecodeRecords DEF Decode
  <2>2. CASE decode' = [at |-> "top", frame |-> 0]
    BY <2>2, DecodeRecords
  <2> QED BY <1>2, <2>1, <2>2 DEF Decode
<1>3. CASE Replace
  BY <1>3, DecodeRecords DEF Replace
<1>4. CASE Publish
  <2>1. CASE decode' = [decode EXCEPT !.at = "relock"]
    BY <2>1, DecodeRecords
  <2>2. CASE decode' = [at |-> "top", frame |-> 0]
    BY <2>2, DecodeRecords
  <2> QED BY <1>4, <2>1, <2>2 DEF Publish
<1>5. CASE UNCHANGED decode
  BY <1>5
<1> QED BY <1>1, <1>2, <1>3, <1>4, <1>5
        DEF Next, DecodeThread, RenderThread, StopThread, ReceiveFrame, RemoteStop,
            NetRecvExits, RenderTop, LoadId, Snapshot, Draw, Drawn, CvCheck, CvBlock,
            SpuriousWake, OnResize, StopBegins, StopNotifies, StopEnds

LEMMA RenderTypes ==
  ASSUME Types, Next
  PROVE  render' \in RenderStates
<1>0. /\ render \in RenderStates /\ m_latestFrame \in 0 .. MaxFrames
      /\ m_decodedFrameId \in Nat /\ 0 \in Nat /\ 0 \in 0 .. MaxFrames
      /\ "top" \in RenderAts /\ "load" \in RenderAts /\ "snapshot" \in RenderAts
      /\ "draw" \in RenderAts /\ "drawn" \in RenderAts /\ "cvlock" \in RenderAts
      /\ "block" \in RenderAts /\ "waiting" \in RenderAts /\ "exit" \in RenderAts
  BY NumbersAreNat DEF Types, RenderAts
<1>1. CASE RenderTop \/ CvBlock
  <2>1. \/ render' = [render EXCEPT !.at = "exit"]
        \/ render' = [render EXCEPT !.at = "load"]
        \/ render' = [render EXCEPT !.at = "waiting"]
    BY <1>1 DEF RenderTop, CvBlock
  <2> QED BY <1>0, <2>1, RenderRecords
<1>2. CASE LoadId
  <2>1. PICK a \in RenderAts : render' = [render EXCEPT !.id = m_decodedFrameId, !.at = a]
    BY <1>0, <1>2 DEF LoadId
  <2> QED BY <1>0, <2>1, RenderIds
<1>3. CASE Snapshot \/ Draw
  <2>1. PICK a \in RenderAts, f \in 0 .. MaxFrames :
          render' = [render EXCEPT !.at = a, !.frame = f]
    <3>1. CASE Snapshot
      <4>1. \/ render' = [render EXCEPT !.at = "drawn", !.frame = 0]
            \/ render' = [render EXCEPT !.at = "draw", !.frame = m_latestFrame]
        BY <3>1 DEF Snapshot
      <4> QED BY <1>0, <4>1
    <3>2. CASE Draw
      <4>1. render' = [render EXCEPT !.at = "drawn", !.frame = 0]
        BY <3>2 DEF Draw
      <4> QED BY <1>0, <4>1
    <3> QED BY <1>3, <3>1, <3>2
  <2> QED BY <1>0, <2>1, RenderFrames
<1>4. CASE Drawn \/ CvCheck
  <2>1. \/ render' = [render EXCEPT !.at = "top", !.id = 0]
        \/ render' = [render EXCEPT !.at = "block"]
    BY <1>4 DEF Drawn, CvCheck
  <2>2. CASE render' = [render EXCEPT !.at = "top", !.id = 0]
    BY <1>0, <2>2, RenderIds
  <2>3. CASE render' = [render EXCEPT !.at = "block"]
    BY <1>0, <2>3, RenderRecords
  <2> QED BY <2>1, <2>2, <2>3
<1>5. CASE render' = WakeRender(render) \/ UNCHANGED render
  BY <1>0, <1>5, WakeRenderKeeps
<1> QED BY <1>1, <1>2, <1>3, <1>4, <1>5
        DEF Next, DecodeThread, RenderThread, StopThread, ReceiveFrame, RemoteStop,
            NetRecvExits, DecodeTop, Decode, Replace, Publish,
            SpuriousWake, OnResize, StopBegins, StopNotifies, StopEnds

LEMMA RefsTypes ==
  ASSUME Types, Next
  PROVE  refs' \in [Frames -> Int]
<1> USE DEF Types
<1>0. /\ decode.frame \in 0 .. MaxFrames /\ render.frame \in 0 .. MaxFrames
      /\ m_latestFrame \in 0 .. MaxFrames /\ gpu \in BOOLEAN /\ refs \in [Frames -> Int]
  BY DecodeRecords, RenderRecords
<1> HIDE DEF Types
<1>1. \/ \E f \in 0 .. MaxFrames : refs' = AddRef(refs, f)
      \/ \E f \in 0 .. MaxFrames : refs' = Release(refs, f)
      \/ UNCHANGED refs
  BY <1>0 DEF Next, DecodeThread, RenderThread, StopThread, ReceiveFrame, RemoteStop,
         NetRecvExits, DecodeTop, Decode, Replace, Publish, RenderTop, LoadId, Snapshot, Draw,
         Drawn, CvCheck, CvBlock, SpuriousWake, OnResize, StopBegins, StopNotifies, StopEnds
<1>2. ASSUME NEW f \in 0 .. MaxFrames
      PROVE  AddRef(refs, f) \in [Frames -> Int] /\ Release(refs, f) \in [Frames -> Int]
  BY <1>0, AddRefCounts, ReleaseCounts
<1> QED BY <1>0, <1>1, <1>2

LEMMA TypesStep ==
  ASSUME Types, Next
  PROVE  Types'
<1> USE NumbersAreNat
<1>1. /\ decode' \in DecodeStates /\ (decode'.at \in InHand => decode'.frame \in Frames)
      /\ render' \in RenderStates /\ refs' \in [Frames -> Int]
  BY DecodeTypes, RenderTypes, RefsTypes
<1>2. m_videoQueue' \in Seq(Frames) /\ Len(m_videoQueue') <= QueueSize
      /\ received' \in 0 .. MaxFrames
  <2> USE DEF Types
  <2>1. CASE ReceiveFrame
    <3>1. received + 1 \in Frames /\ received' \in 0 .. MaxFrames
      BY <2>1 DEF ReceiveFrame, Frames
    <3> QED BY <2>1, <3>1, AppendFacts DEF ReceiveFrame
  <2>2. CASE DecodeTop
    <3>1. CASE m_videoQueue # <<>> /\ m_videoQueue' = Tail(m_videoQueue)
      <4>1. /\ m_videoQueue' \in Seq(Frames) /\ Len(m_videoQueue') = Len(m_videoQueue) - 1
            /\ Len(m_videoQueue) \in Nat
        BY <3>1, TailFacts, LenFacts
      <4> QED BY <2>2, <4>1 DEF DecodeTop
    <3>2. CASE UNCHANGED m_videoQueue
      BY <2>2, <3>2 DEF DecodeTop
    <3> QED BY <2>2, <3>1, <3>2 DEF DecodeTop
  <2>3. CASE UNCHANGED <<m_videoQueue, received>>
    BY <2>3
  <2> QED BY <2>1, <2>2, <2>3
          DEF Next, DecodeThread, RenderThread, StopThread, RemoteStop,
              NetRecvExits, Decode, Replace, Publish, RenderTop, LoadId, Snapshot, Draw, Drawn,
              CvCheck, CvBlock, SpuriousWake, OnResize, StopBegins, StopNotifies, StopEnds,
              queueVars
<1>3. published' \in Seq(Frames) /\ m_decodedFrameId' \in Nat
  <2> USE DEF Types
  <2>1. CASE Publish
    BY <2>1, AppendFacts DEF Publish, InHand
  <2>2. CASE UNCHANGED <<published, m_decodedFrameId>>
    BY <2>2
  <2> QED BY <2>1, <2>2
          DEF Next, DecodeThread, RenderThread, StopThread, ReceiveFrame, RemoteStop,
              NetRecvExits, DecodeTop, Decode, Replace, RenderTop, LoadId, Snapshot, Draw, Drawn,
              CvCheck, CvBlock, SpuriousWake, OnResize, StopBegins, StopNotifies, StopEnds,
              frameVars
<1>4. /\ m_latestFrame' \in 0 .. MaxFrames /\ shown' \in 0 .. MaxFrames
      /\ m_lastRenderedFrameId' \in Nat
  <2>1. /\ decode.frame \in 0 .. MaxFrames /\ render.frame \in 0 .. MaxFrames
        /\ render.id \in Nat /\ m_latestFrame \in 0 .. MaxFrames /\ 0 \in 0 .. MaxFrames
        /\ shown \in 0 .. MaxFrames /\ m_lastRenderedFrameId \in Nat
    BY DecodeRecords, RenderRecords DEF Types
  <2>2. m_latestFrame' \in {m_latestFrame, decode.frame, 0}
    BY DEF Next, DecodeThread, RenderThread, StopThread, ReceiveFrame, RemoteStop,
              NetRecvExits, DecodeTop, Decode, Replace, Publish, RenderTop, LoadId, Snapshot,
              Draw, Drawn, CvCheck, CvBlock, SpuriousWake, OnResize, StopBegins, StopNotifies,
              StopEnds,
              frameVars
  <2>3. shown' \in {shown, render.frame}
    BY DEF Next, DecodeThread, RenderThread, StopThread, ReceiveFrame, RemoteStop,
              NetRecvExits, DecodeTop, Decode, Replace, Publish, RenderTop, LoadId, Snapshot,
              Draw, Drawn, CvCheck, CvBlock, SpuriousWake, OnResize, StopBegins, StopNotifies,
              StopEnds
  <2>4. m_lastRenderedFrameId' \in {m_lastRenderedFrameId, render.id}
    BY DEF Next, DecodeThread, RenderThread, StopThread, ReceiveFrame, RemoteStop,
              NetRecvExits, DecodeTop, Decode, Replace, Publish, RenderTop, LoadId, Snapshot,
              Draw, Drawn, CvCheck, CvBlock, SpuriousWake, OnResize, StopBegins, StopNotifies,
              StopEnds
  <2> QED BY <2>1, <2>2, <2>3, <2>4
<1>5. vfr' \in BOOLEAN /\ gpu' \in BOOLEAN
  BY DEF Next, DecodeThread, RenderThread, StopThread, ReceiveFrame, RemoteStop,
              NetRecvExits, DecodeTop, Decode, Replace, Publish, RenderTop, LoadId, Snapshot,
              Draw, Drawn, CvCheck, CvBlock, SpuriousWake, OnResize, StopBegins, StopNotifies,
              StopEnds,
         mode, Types
<1>6. m_running' \in BOOLEAN /\ main' \in {"loop", "notify", "join", "done"}
  BY DEF Next, DecodeThread, RenderThread, StopThread, ReceiveFrame, RemoteStop,
              NetRecvExits, DecodeTop, Decode, Replace, Publish, RenderTop, LoadId, Snapshot,
              Draw, Drawn, CvCheck, CvBlock, SpuriousWake, OnResize, StopBegins, StopNotifies,
              StopEnds,
         Types
<1>7. netrecv' \in {"run", "exit"} /\ mutex' \in {"none", "decode", "render"}
  BY DEF Next, DecodeThread, RenderThread, StopThread, ReceiveFrame, RemoteStop,
              NetRecvExits, DecodeTop, Decode, Replace, Publish, RenderTop, LoadId, Snapshot,
              Draw, Drawn, CvCheck, CvBlock, SpuriousWake, OnResize, StopBegins, StopNotifies,
              StopEnds,
         Types, queueVars, frameVars
<1>8. /\ windowSize' \in 0 .. MaxResizes /\ pendingSize' \in 0 .. MaxResizes
      /\ swapSize' \in 0 .. MaxResizes
  <2>1. CASE RenderTop
    BY <2>1 DEF RenderTop, Types, resizeVars
  <2>2. CASE OnResize
    BY <2>2 DEF OnResize, Types, resizeVars
  <2>3. CASE UNCHANGED resizeVars
    BY <2>3 DEF Types, resizeVars
  <2> QED BY <2>1, <2>2, <2>3
          DEF Next, DecodeThread, RenderThread, StopThread, ReceiveFrame, RemoteStop,
              NetRecvExits, DecodeTop, Decode, Replace, Publish, LoadId, Snapshot,
              Draw, Drawn, CvCheck, CvBlock, SpuriousWake, StopBegins, StopNotifies, StopEnds
<1> QED BY <1>1, <1>2, <1>3, <1>4, <1>5, <1>6, <1>7, <1>8 DEF Types

----------------------------------------------------------------------------
(* Shutdown and the count of references *)

\* Nothing that Ended speaks of happens once the threads have ended, and
\* m_running is never set again.
LEMMA EndedStep ==
  ASSUME Types, Ended, Next
  PROVE  Ended' /\ (m_running' => m_running)
<1> USE DEF Ended
<1>1. CASE ReceiveFrame \/ RemoteStop \/ NetRecvExits \/ OnResize
  BY <1>1 DEF ReceiveFrame, RemoteStop, NetRecvExits, OnResize, frameVars
<1>2. CASE DecodeThread
  BY <1>2 DEF DecodeThread, DecodeTop, Decode, Replace, Publish, frameVars, Types
<1>3. CASE RenderThread \/ SpuriousWake
  BY <1>3 DEF RenderThread, SpuriousWake, RenderTop, LoadId, Snapshot, Draw, Drawn, CvCheck,
              CvBlock, frameVars
<1>4. CASE StopBegins \/ StopThread
  BY <1>4 DEF StopBegins, StopThread, StopNotifies, StopEnds, frameVars
<1> QED BY <1>1, <1>2, <1>3, <1>4 DEF Next

\* One case per step that takes or gives back a reference, or moves one.
LEMMA CountedStep ==
  ASSUME Types, Ended, Counted, Next
  PROVE  Counted'
<1> DEFINE d(f) == One(decode.at = "lock" /\ decode.frame = f)
           l(f) == One(m_latestFrame = f)
           r(f) == One(render.at = "draw" /\ render.frame = f)
<1>0. /\ gpu \in BOOLEAN /\ gpu' = gpu /\ refs \in [Frames -> Int]
      /\ decode \in DecodeStates /\ render \in RenderStates
      /\ m_latestFrame \in 0 .. MaxFrames
      /\ decode.frame \in 0 .. MaxFrames /\ render.frame \in 0 .. MaxFrames
  <2>1. gpu' = gpu
    BY DEF Next, DecodeThread, RenderThread, StopThread, ReceiveFrame, RemoteStop,
              NetRecvExits, DecodeTop, Decode, Replace, Publish, RenderTop, LoadId, Snapshot,
              Draw, Drawn, CvCheck, CvBlock, SpuriousWake, OnResize, StopBegins, StopNotifies,
              StopEnds,
         mode
  <2> QED BY <2>1, DecodeRecords, RenderRecords DEF Types
<1>a. /\ \A f \in Frames : Holders(f) = d(f) + l(f) + r(f)
      /\ \A f \in Frames : d(f) \in Int /\ l(f) \in Int /\ r(f) \in Int
      /\ \A f \in Frames : Holders(f)' = d(f)' + l(f)' + r(f)'
      /\ \A f \in Frames : d(f)' \in Int /\ l(f)' \in Int /\ r(f)' \in Int
  BY DEF Holders, One
<1>b. /\ \A f \in Frames : gpu => refs[f] = d(f) + l(f) + r(f)
      /\ \A f \in Frames : refs[f] \in Int
  BY <1>0, <1>a DEF Counted
<1>c. SUFFICES ASSUME gpu, NEW f \in Frames
               PROVE  refs'[f] = d(f)' + l(f)' + r(f)'
  <2>1. ~gpu => UNCHANGED refs
    BY <1>0, AddRefCounts, ReleaseCounts
     DEF Next, DecodeThread, RenderThread, StopThread, ReceiveFrame, RemoteStop,
         NetRecvExits, DecodeTop, Decode, Replace, Publish, RenderTop, LoadId, Snapshot,
         Draw, Drawn, CvCheck, CvBlock, SpuriousWake, OnResize, StopBegins, StopNotifies,
         StopEnds
  <2> QED BY <1>0, <1>a, <2>1 DEF Counted
<1>1. CASE Decode
  <2>1. CASE /\ decode'.at = "lock" /\ decode'.frame = decode.frame
             /\ refs' = AddRef(refs, decode.frame)
    <3>1. refs'[f] = refs[f] + One(decode.frame = f)
      BY <1>0, <1>c, <2>1, AddRefCounts
    <3>2. d(f) = 0 /\ d(f)' = One(decode.frame = f)
      BY <1>1, <2>1 DEF Decode, One
    <3>3. l(f)' = l(f) /\ r(f)' = r(f)
      BY <1>1 DEF Decode, frameVars, One
    <3> QED BY <1>b, <1>c, <1>a, <3>1, <3>2, <3>3
  <2>2. CASE decode'.at = "top" /\ UNCHANGED refs
    <3>1. d(f) = 0 /\ d(f)' = 0
      BY <1>1, <2>2 DEF Decode, One
    <3>2. l(f)' = l(f) /\ r(f)' = r(f)
      BY <1>1 DEF Decode, frameVars, One
    <3> QED BY <1>b, <1>c, <1>a, <2>2, <3>1, <3>2
  <2> QED BY <1>0, <1>1, <2>1, <2>2, DecodeFields
<1>2. CASE Replace
  <2>1. refs'[f] = refs[f] - l(f)
    BY <1>0, <1>2, <1>c, ReleaseCounts DEF Replace
  <2>2. decode.at = "lock" /\ decode'.at = "publish"
    BY <1>0, <1>2, DecodeFields
  <2>3. d(f)' = 0 /\ l(f)' = d(f)
    BY <1>2, <2>2 DEF Replace, One
  <2>4. r(f)' = r(f)
    BY <1>2 DEF Replace, One
  <2> QED BY <1>b, <1>c, <1>a, <2>1, <2>3, <2>4
<1>3. CASE Snapshot
  <2>1. d(f)' = d(f) /\ l(f)' = l(f)
    BY <1>3 DEF Snapshot, frameVars, One
  <2>2. CASE UNCHANGED refs /\ render'.at = "drawn"
    <3>1. render.at = "snapshot" /\ render'.at = "drawn"
      BY <1>0, <1>3, <2>2, SnapshotFields
    <3>2. r(f) = 0 /\ r(f)' = 0
      BY <3>1 DEF One
    <3> QED BY <1>b, <1>c, <1>a, <2>1, <2>2, <3>2
  <2>3. CASE /\ refs' = AddRef(refs, m_latestFrame)
             /\ render'.at = "draw" /\ render'.frame = m_latestFrame
    <3>1. refs'[f] = refs[f] + l(f)
      BY <1>0, <1>c, <2>3, AddRefCounts
    <3>2. render.at = "snapshot" /\ render'.at = "draw" /\ render'.frame = m_latestFrame
      BY <1>0, <1>3, <2>3, SnapshotFields
    <3>3. r(f) = 0 /\ r(f)' = l(f)
      BY <3>2 DEF One
    <3> QED BY <1>b, <1>c, <1>a, <2>1, <3>1, <3>3
  <2> QED BY <1>0, <1>3, <2>2, <2>3, SnapshotFields
<1>4. CASE Draw
  <2>1. refs'[f] = refs[f] - One(render.frame = f)
    BY <1>0, <1>4, <1>c, ReleaseCounts DEF Draw
  <2>2. d(f)' = d(f) /\ l(f)' = l(f)
    BY <1>4 DEF Draw, frameVars, One
  <2>3. render.at = "draw" /\ render'.at = "drawn"
    BY <1>0, <1>4, RenderFields
  <2>4. r(f) = One(render.frame = f) /\ r(f)' = 0
    BY <2>3 DEF One
  <2> QED BY <1>b, <1>c, <1>a, <2>1, <2>2, <2>4
<1>5. CASE StopEnds
  <2>1. refs'[f] = refs[f] - l(f)
    BY <1>0, <1>5, <1>c, ReleaseCounts DEF StopEnds
  <2>2. l(f)' = 0
    BY <1>5, NumbersAreNat DEF StopEnds, One
  <2>3. d(f)' = d(f) /\ r(f)' = r(f)
    BY <1>5 DEF StopEnds, One
  <2> QED BY <1>b, <1>c, <1>a, <2>1, <2>2, <2>3
<1>6. CASE DecodeTop \/ Publish
  <2>1. UNCHANGED refs /\ l(f)' = l(f) /\ d(f) = 0
    BY <1>6 DEF DecodeTop, Publish, frameVars, One
  <2>2. d(f)' = 0
    <3>1. decode'.at # "lock"
      BY <1>0, <1>6, DecodeFields
    <3> QED BY <3>1 DEF One
  <2>3. r(f)' = r(f)
    BY <1>0, <1>6, WakeRenderKeeps DEF DecodeTop, Publish, One
  <2> QED BY <1>b, <1>c, <1>a, <2>1, <2>2, <2>3
<1>7. CASE RenderTop \/ LoadId \/ Drawn \/ CvCheck \/ CvBlock
  <2>1. UNCHANGED refs /\ l(f)' = l(f) /\ d(f)' = d(f)
    BY <1>7 DEF RenderTop, LoadId, Drawn, CvCheck, CvBlock, frameVars, One
  <2>2. render.at # "draw"
    BY <1>7 DEF RenderTop, LoadId, Drawn, CvCheck, CvBlock
  <2>3. render'.at # "draw"
    BY <1>0, <1>7, RenderFields
  <2> QED BY <1>b, <1>c, <1>a, <2>1, <2>2, <2>3 DEF One
<1>8. CASE \/ ReceiveFrame \/ RemoteStop \/ NetRecvExits \/ SpuriousWake
           \/ OnResize \/ StopBegins \/ StopNotifies
  <2>1. UNCHANGED refs /\ l(f)' = l(f) /\ d(f)' = d(f)
    BY <1>8 DEF ReceiveFrame, RemoteStop, NetRecvExits, SpuriousWake, OnResize, StopBegins,
                StopNotifies, frameVars, One
  <2>2. render' = WakeRender(render) \/ UNCHANGED render
    BY <1>8 DEF ReceiveFrame, RemoteStop, NetRecvExits, SpuriousWake, OnResize, StopBegins,
                StopNotifies
  <2>3. r(f)' = r(f)
    BY <1>0, <2>2, WakeRenderKeeps DEF One
  <2> QED BY <1>b, <1>c, <1>a, <2>1, <2>3
<1> QED BY <1>1, <1>2, <1>3, <1>4, <1>5, <1>6, <1>7, <1>8
        DEF Next, DecodeThread, RenderThread, StopThread

----------------------------------------------------------------------------
(* The order of the frames *)

LEMMA InOrderStep ==
  ASSUME Types, InOrder, Next
  PROVE  InOrder'
<1> DEFINE q == m_videoQueue
<1>0. /\ q \in Seq(Frames) /\ Len(q) \in Nat /\ \A k \in 1 .. Len(q) : q[k] \in Nat
      /\ published \in Seq(Frames) /\ Len(published) \in Nat
      /\ \A i \in Positions : published[i] \in Nat
      /\ received \in Nat /\ decode \in DecodeStates /\ decode.frame \in Nat
      /\ decode.at \in InHand => decode.frame \in Frames
  BY LenFacts, NumbersAreNat, DecodeRecords DEF Types, Positions
<1>1. CASE ReceiveFrame
  <2>1. UNCHANGED <<published, decode>> /\ received' = received + 1 /\ received + 1 \in Frames
    BY <1>1, NumbersAreNat DEF ReceiveFrame, frameVars, Frames, Types
  <2>2. CASE q' = q
    BY <1>0, <2>1, <2>2 DEF InOrder, Positions
  <2>3. CASE q' = Append(q, received + 1)
    <3>1. /\ Len(q') = Len(q) + 1 /\ q'[Len(q) + 1] = received + 1
          /\ \A k \in 1 .. Len(q) : q'[k] = q[k]
      BY <1>0, <2>1, <2>3, AppendFacts
    <3>2. \A k \in 1 .. Len(q') : (k \in 1 .. Len(q) \/ k = Len(q) + 1)
      BY <1>0, <3>1
    <3>3. /\ \A k \in 1 .. Len(q') : q'[k] <= received'
          /\ \A k, l \in 1 .. Len(q') : k < l => q'[k] < q'[l]
      <4>1. \A k \in 1 .. Len(q) : q[k] <= received
        BY DEF InOrder
      <4>2. \A k, l \in 1 .. Len(q') : k < l => k \in 1 .. Len(q)
        BY <1>0, <3>1
      <4>3. ASSUME NEW k \in 1 .. Len(q'), NEW l \in 1 .. Len(q'), k < l
            PROVE  q'[k] < q'[l]
        <5>1. k \in 1 .. Len(q)
          BY <4>2, <4>3
        <5>2. CASE l \in 1 .. Len(q)
          BY <3>1, <4>3, <5>1, <5>2 DEF InOrder
        <5>3. CASE l = Len(q) + 1
          BY <1>0, <3>1, <4>1, <5>1, <5>3
        <5> QED BY <3>2, <5>2, <5>3
      <4>4. \A k \in 1 .. Len(q') : q'[k] <= received'
        BY <1>0, <2>1, <3>1, <3>2, <4>1
      <4> QED BY <4>3, <4>4
    <3>4. decode.at \in InHand => \A k \in 1 .. Len(q') : decode.frame < q'[k]
      BY <1>0, <2>1, <3>1, <3>2 DEF InOrder
    <3>5. \A i \in Positions, k \in 1 .. Len(q') : published[i] < q'[k]
      BY <1>0, <2>1, <3>1, <3>2 DEF InOrder
    <3> QED BY <1>0, <2>1, <3>3, <3>4, <3>5 DEF InOrder, Positions
  <2> QED BY <1>1, <2>2, <2>3 DEF ReceiveFrame
<1>2. CASE DecodeTop
  <2>1. UNCHANGED <<published, received>>
    BY <1>2 DEF DecodeTop, frameVars
  <2>2. CASE decode'.at = "exit" /\ UNCHANGED m_videoQueue
    BY <2>1, <2>2 DEF InOrder, Positions, InHand
  <2>3. CASE /\ decode'.at = "decode" /\ decode'.frame = Head(q)
             /\ q # <<>> /\ q' = Tail(q)
    <3>1. /\ decode'.frame = q[1] /\ Len(q) >= 1 /\ Len(q') = Len(q) - 1
          /\ \A k \in 1 .. Len(q') : q'[k] = q[k + 1] /\ k + 1 \in 1 .. Len(q)
      BY <1>0, <2>3, TailFacts
    <3>2. 1 \in 1 .. Len(q) /\ \A k \in 1 .. Len(q') : 1 < k + 1
      BY <1>0, <3>1
    <3>3. /\ decode'.frame <= received
          /\ \A k \in 1 .. Len(q') : decode'.frame < q'[k]
          /\ \A i \in Positions : published[i] < decode'.frame
      BY <3>1, <3>2 DEF InOrder
    <3>4. /\ \A k \in 1 .. Len(q') : q'[k] <= received
          /\ \A k, l \in 1 .. Len(q') : k < l => q'[k] < q'[l]
          /\ \A i \in Positions, k \in 1 .. Len(q') : published[i] < q'[k]
      <4>1. \A k, l \in 1 .. Len(q') : k < l => k + 1 < l + 1
        BY <1>0, <3>1
      <4> QED BY <3>1, <4>1 DEF InOrder
    <3> QED BY <2>1, <3>3, <3>4 DEF InOrder, Positions
  <2> QED BY <1>0, <1>2, <2>2, <2>3, DecodeFields
<1>3. CASE Decode \/ Replace
  <2>1. UNCHANGED <<published, received, m_videoQueue>> /\ decode.at \in InHand
    BY <1>3 DEF Decode, Replace, frameVars, queueVars, InHand
  <2>2. decode'.at = "top" \/ decode'.frame = decode.frame
    BY <1>0, <1>3, DecodeFields
  <2> QED BY <2>1, <2>2 DEF InOrder, Positions, InHand
<1>4. CASE Publish
  <2>1. UNCHANGED <<received, m_videoQueue>> /\ published' = Append(published, decode.frame)
    BY <1>4 DEF Publish, queueVars
  <2>2. decode.at \in InHand /\ decode'.at \notin InHand
    BY <1>0, <1>4, DecodeFields DEF InHand
  <2>3. /\ Len(published') = Len(published) + 1
        /\ published'[Len(published) + 1] = decode.frame
        /\ \A i \in Positions : published'[i] = published[i]
    BY <1>0, <2>1, <2>2, AppendFacts DEF Positions
  <2>4. \A i \in Positions' : (i \in Positions \/ i = Len(published) + 1)
    BY <1>0, <2>3 DEF Positions
  <2>5. /\ \A i \in Positions' : published'[i] <= received
        /\ \A i \in Positions', k \in 1 .. Len(q) : published'[i] < q[k]
    BY <2>2, <2>3, <2>4 DEF InOrder
  <2>6. ASSUME NEW i \in Positions', NEW j \in Positions', i < j
        PROVE  published'[i] < published'[j]
    <3>1. i \in Positions
      BY <1>0, <2>3, <2>6 DEF Positions
    <3>2. CASE j \in Positions
      BY <2>3, <2>6, <3>1, <3>2 DEF InOrder
    <3>3. CASE j = Len(published) + 1
      BY <2>2, <2>3, <3>1, <3>3 DEF InOrder
    <3> QED BY <2>4, <3>2, <3>3
  <2> QED BY <2>1, <2>2, <2>5, <2>6 DEF InOrder
<1>5. CASE UNCHANGED <<m_videoQueue, received, published, decode>>
  BY <1>5 DEF InOrder, Positions
<1> QED BY <1>1, <1>2, <1>3, <1>4, <1>5
        DEF Next, DecodeThread, RenderThread, StopThread, RemoteStop, NetRecvExits, RenderTop,
            LoadId, Snapshot, Draw, Drawn, CvCheck, CvBlock, SpuriousWake, OnResize,
            StopBegins, StopNotifies, StopEnds, frameVars, queueVars

LEMMA LatestStep ==
  ASSUME Types, Latest, Ended, Next
  PROVE  Latest'
<1>0. /\ published \in Seq(Frames) /\ Len(published) \in Nat /\ decode \in DecodeStates
      /\ m_decodedFrameId = Len(published) /\ main # "loop" => ~m_running
  BY LenFacts DEF Types, Latest, Ended
<1>1. CASE DecodeTop \/ Decode
  <2>1. /\ decode.at # "publish" /\ decode'.at # "publish"
        /\ UNCHANGED <<published, m_decodedFrameId, m_latestFrame, main>>
    <3>1. UNCHANGED <<published, m_decodedFrameId, m_latestFrame, main>>
      BY <1>1 DEF DecodeTop, Decode, frameVars
    <3>2. decode.at # "publish" /\ decode'.at # "publish"
      BY <1>0, <1>1, DecodeFields
    <3> QED BY <3>1, <3>2
  <2> QED BY <2>1 DEF Latest
<1>2. CASE Replace
  <2>1. decode'.at = "publish" /\ decode'.frame = decode.frame
    BY <1>0, <1>2, DecodeFields
  <2>2. m_latestFrame' = decode.frame /\ UNCHANGED <<published, m_decodedFrameId>>
    BY <1>2 DEF Replace
  <2> QED BY <1>0, <2>1, <2>2 DEF Latest
<1>3. CASE Publish
  <2>1. decode.at = "publish" /\ decode'.at # "publish" /\ decode.frame \in Frames
    BY <1>0, <1>3, DecodeFields DEF Types, InHand
  <2>2. /\ Len(published') = Len(published) + 1 /\ published' # <<>>
        /\ published'[Len(published) + 1] = decode.frame
        /\ m_decodedFrameId' = m_decodedFrameId + 1 /\ UNCHANGED <<m_latestFrame, main>>
    BY <1>0, <1>3, <2>1, AppendFacts DEF Publish
  <2> QED BY <1>0, <2>1, <2>2 DEF Latest
<1>4. CASE StopEnds
  BY <1>0, <1>4 DEF StopEnds, Latest
<1>5. CASE UNCHANGED <<published, m_decodedFrameId, m_latestFrame, decode>>
           /\ (main = "done" => main' = "done")
  BY <1>5 DEF Latest
<1> QED BY <1>1, <1>2, <1>3, <1>4, <1>5
        DEF Next, DecodeThread, RenderThread, StopThread, ReceiveFrame, RemoteStop,
            NetRecvExits, RenderTop, LoadId, Snapshot, Draw, Drawn, CvCheck, CvBlock,
            SpuriousWake, OnResize, StopBegins, StopNotifies, frameVars, queueVars

\* Nothing published is newer than the latest picture, and a frame the decode
\* thread is about to lock for is newer.
LEMMA LatestIsNewest ==
  ASSUME Types, InOrder, Latest, main # "done"
  PROVE  /\ \A i \in Positions : published[i] <= m_latestFrame
         /\ decode.at = "lock" => m_latestFrame < decode.frame
<1>0. /\ Len(published) \in Nat /\ \A i \in Positions : published[i] \in Nat
      /\ published # <<>> => Len(published) >= 1
      /\ published = <<>> => Len(published) = 0
      /\ m_latestFrame \in Nat
      /\ decode.at \in InHand => decode.frame \in Nat /\ decode.frame > 0
  <2>1. published \in Seq(Frames) /\ m_latestFrame \in Nat
    BY NumbersAreNat DEF Types
  <2>2. decode.at \in InHand => decode.frame \in Frames
    BY DEF Types
  <2>3. /\ Len(published) \in Nat /\ \A i \in Positions : published[i] \in Frames
        /\ published # <<>> => Len(published) >= 1
    BY <2>1, LenFacts DEF Positions
  <2>4. \A f \in Frames : f \in Nat /\ f > 0
    BY NumbersAreNat
  <2>5. published = <<>> => Len(published) = 0
    OBVIOUS
  <2> QED BY <2>1, <2>2, <2>3, <2>4, <2>5
<1>1. \A i \in Positions : published[i] <= m_latestFrame
  <2>1. CASE decode.at = "publish"
    <3>1. m_latestFrame = decode.frame /\ decode.at \in InHand
      BY <2>1 DEF Latest, InHand
    <3> QED BY <1>0, <3>1 DEF InOrder
  <2>2. CASE decode.at # "publish" /\ published # <<>>
    <3>1. m_latestFrame = published[Len(published)] /\ Len(published) \in Positions
      BY <1>0, <2>2 DEF Latest, Positions
    <3>2. \A i \in Positions : i < Len(published) \/ i = Len(published)
      BY <1>0 DEF Positions
    <3> QED BY <1>0, <3>1, <3>2 DEF InOrder
  <2>3. CASE published = <<>>
    BY <1>0, <2>3 DEF Positions
  <2> QED BY <2>1, <2>2, <2>3
<1>2. decode.at = "lock" => m_latestFrame < decode.frame
  <2> SUFFICES ASSUME decode.at = "lock" PROVE m_latestFrame < decode.frame
    OBVIOUS
  <2>1. decode.at \in InHand
    BY DEF InHand
  <2>2. CASE published # <<>>
    <3>1. m_latestFrame = published[Len(published)] /\ Len(published) \in Positions
      BY <1>0, <2>2 DEF Latest, Positions
    <3> QED BY <2>1, <3>1 DEF InOrder
  <2>3. CASE published = <<>>
    BY <1>0, <2>1, <2>3 DEF Latest
  <2> QED BY <2>2, <2>3
<1> QED BY <1>1, <1>2

----------------------------------------------------------------------------
(* The screen *)

\* No step takes a published picture back, and until Stop ends none replaces
\* the latest picture by an older one.
LEMMA OnlyGrows ==
  ASSUME Types, Ended, InOrder, Latest, Next
  PROVE  /\ Len(published) \in Nat /\ Len(published') \in Nat
         /\ Len(published) <= Len(published')
         /\ \A i \in Positions : i \in Positions' /\ published'[i] = published[i]
         /\ \A i \in Positions : published[i] \in Frames
         /\ main' # "done" => main # "done" /\ m_latestFrame <= m_latestFrame'
<1>0. /\ published \in Seq(Frames) /\ Len(published) \in Nat
      /\ \A i \in Positions : published[i] \in Frames
      /\ m_latestFrame \in Nat /\ decode \in DecodeStates
      /\ decode.at \in InHand => decode.frame \in Frames
  BY LenFacts, NumbersAreNat DEF Types, Positions
<1>1. CASE Publish
  <2>1. decode.frame \in Frames
    BY <1>0, <1>1, DecodeFields DEF InHand
  <2>2. published' = Append(published, decode.frame) /\ UNCHANGED <<m_latestFrame, main>>
    BY <1>1 DEF Publish
  <2>3. /\ Len(published') = Len(published) + 1
        /\ \A i \in Positions : published'[i] = published[i]
    BY <1>0, <2>1, <2>2, AppendFacts DEF Positions
  <2> QED BY <1>0, <2>2, <2>3 DEF Positions
<1>2. CASE Replace
  <2>1. main' = main /\ UNCHANGED published /\ m_latestFrame' = decode.frame
    BY <1>2 DEF Replace
  <2>2. main # "done" => m_latestFrame < decode.frame
    BY <1>0, <1>2, DecodeFields, LatestIsNewest
  <2>3. decode.frame \in Nat
    BY <1>0, DecodeRecords, NumbersAreNat
  <2> QED BY <1>0, <2>1, <2>2, <2>3 DEF Positions
<1>3. CASE StopEnds
  BY <1>0, <1>3 DEF StopEnds, Positions
<1>4. CASE UNCHANGED <<published, m_latestFrame>> /\ (main = "done" => main' = "done")
  BY <1>0, <1>4 DEF Positions
<1> QED BY <1>1, <1>2, <1>3, <1>4
        DEF Next, DecodeThread, RenderThread, StopThread, ReceiveFrame, RemoteStop,
            NetRecvExits, DecodeTop, Decode, RenderTop, LoadId, Snapshot, Draw, Drawn, CvCheck,
            CvBlock, SpuriousWake, OnResize, StopBegins, StopNotifies, frameVars

LEMMA ScreenStep ==
  ASSUME IInv, Next
  PROVE  Screen' /\ shown' >= shown
<1>0. /\ Types /\ Ended /\ InOrder /\ Latest /\ Screen /\ Latest'
      /\ (m_running' => m_running)
  BY LatestStep, EndedStep DEF IInv
<1>1. /\ render \in RenderStates /\ render.id \in Nat /\ render.frame \in Nat
      /\ shown \in Nat /\ m_latestFrame \in Nat /\ m_latestFrame' \in Nat
      /\ m_lastRenderedFrameId \in Nat
      /\ m_decodedFrameId = Len(published) /\ m_decodedFrameId' = Len(published')
  <2>1. m_latestFrame' \in 0 .. MaxFrames
    BY <1>0, TypesStep DEF Types
  <2> QED BY <1>0, <2>1, RenderRecords, NumbersAreNat DEF Types, Latest
<1>2. /\ Len(published) \in Nat /\ Len(published') \in Nat
      /\ Len(published) <= Len(published')
      /\ \A i \in Positions : i \in Positions' /\ published'[i] = published[i]
      /\ \A i \in Positions : published[i] \in Nat /\ published[i] > 0
      /\ main' # "done" => main # "done" /\ m_latestFrame <= m_latestFrame'
  BY <1>0, OnlyGrows, NumbersAreNat
<1>3. \A i \in Nat : i > 0 /\ i <= m_decodedFrameId =>
         published'[i] = published[i] /\ published[i] \in Nat /\ published[i] > 0
  <2>1. \A i \in Nat : i > 0 /\ i <= m_decodedFrameId => i \in Positions
    BY <1>1, <1>2 DEF Positions
  <2> QED BY <1>2, <2>1
<1>4. m_lastRenderedFrameId <= m_decodedFrameId' /\ render.id <= m_decodedFrameId'
  BY <1>0, <1>1, <1>2 DEF Screen
<1>5. CASE /\ UNCHANGED <<shown, m_lastRenderedFrameId>>
           /\ render'.id = render.id /\ render'.frame = render.frame
           /\ (render'.at = "draw") <=> (render.at = "draw")
           /\ (render'.at = "drawn") <=> (render.at = "drawn")
  <2>1. render'.at = "draw" => main # "done" /\ main' # "done"
    BY <1>0, <1>5, EndedStep DEF Ended, IInv
  <2>2. render'.at = "draw" =>
           /\ shown' <= render'.frame /\ render'.frame <= m_latestFrame'
           /\ render'.id > 0 => render'.frame >= published'[render'.id]
    BY <1>0, <1>1, <1>2, <1>3, <1>5, <2>1 DEF Screen
  <2>3. main' # "done" => shown' <= m_latestFrame'
    BY <1>0, <1>1, <1>2, <1>5 DEF Screen
  <2>4. m_running' /\ render'.at = "drawn" /\ render'.id > 0 => shown' >= published'[render'.id]
    BY <1>0, <1>1, <1>3, <1>5 DEF Screen
  <2>5. m_running' /\ m_lastRenderedFrameId' > 0 => shown' >= published'[m_lastRenderedFrameId']
    BY <1>0, <1>1, <1>3, <1>5 DEF Screen
  <2>6. m_lastRenderedFrameId' <= m_decodedFrameId' /\ render'.id <= m_decodedFrameId'
    BY <1>4, <1>5
  <2>7. Screen'
    BY <2>2, <2>3, <2>4, <2>5, <2>6 DEF Screen
  <2> QED BY <1>1, <1>5, <2>7
<1>6. CASE /\ UNCHANGED <<shown, m_lastRenderedFrameId>>
           /\ render'.id \in {0, render.id, m_decodedFrameId}
           /\ render'.at # "draw" /\ render'.at # "drawn"
  <2>1. render'.id <= m_decodedFrameId'
    BY <1>1, <1>2, <1>4, <1>6
  <2>2. main' # "done" => shown' <= m_latestFrame'
    BY <1>0, <1>1, <1>2, <1>6 DEF Screen
  <2>3. m_running' /\ m_lastRenderedFrameId' > 0 => shown' >= published'[m_lastRenderedFrameId']
    BY <1>0, <1>1, <1>3, <1>6 DEF Screen
  <2> QED BY <1>1, <1>4, <1>6, <2>1, <2>2, <2>3 DEF Screen
<1>7. CASE Snapshot
  <2>1. UNCHANGED <<shown, m_lastRenderedFrameId, m_latestFrame, published, m_running, main>>
    BY <1>7 DEF Snapshot, frameVars
  <2>2. render.at = "snapshot" /\ render'.id = render.id
    BY <1>1, <1>7, SnapshotFields
  <2>3. main # "done"
    BY <1>0, <2>2 DEF Ended
  <2>4. \A i \in Positions : published[i] <= m_latestFrame
    BY <1>0, <2>3, LatestIsNewest
  <2>5. /\ render.id > 0 => m_latestFrame >= published[render.id]
        /\ shown <= m_latestFrame
    BY <1>0, <1>1, <2>3, <2>4 DEF Positions, Screen
  <2>6. CASE ~m_running /\ render'.at = "drawn"
    BY <1>0, <1>1, <1>4, <2>1, <2>2, <2>5, <2>6 DEF Screen
  <2>7. CASE render'.at = "draw" /\ render'.frame = m_latestFrame
    BY <1>0, <1>1, <1>4, <2>1, <2>2, <2>5, <2>7 DEF Screen
  <2> QED BY <1>1, <1>7, <2>6, <2>7, SnapshotFields
<1>8. CASE Draw
  <2>1. /\ UNCHANGED <<m_lastRenderedFrameId, m_latestFrame, published, m_running, main>>
        /\ shown' = IF render.frame # 0 THEN render.frame ELSE shown
    BY <1>8 DEF Draw, frameVars
  <2>2. render.at = "draw" /\ render'.at = "drawn" /\ render'.id = render.id
    BY <1>1, <1>8, RenderFields
  <2>3. /\ shown <= render.frame /\ render.frame <= m_latestFrame
        /\ render.id > 0 => render.frame >= published[render.id]
    BY <1>0, <2>2 DEF Screen
  <2>4. /\ shown <= shown' /\ shown' <= m_latestFrame /\ shown' \in Nat
        /\ render.id > 0 => shown' >= published[render.id]
    <3>1. render.id > 0 => render.frame # 0
      BY <1>0, <1>1, <1>3, <2>3 DEF Screen
    <3> QED BY <1>1, <2>1, <2>3, <3>1
  <2>5. m_running /\ m_lastRenderedFrameId > 0 => shown' >= published[m_lastRenderedFrameId]
    BY <1>0, <1>1, <1>3, <2>4 DEF Screen
  <2> QED BY <1>0, <1>1, <1>4, <2>1, <2>2, <2>4, <2>5 DEF Screen
<1>9. CASE Drawn
  <2>1. /\ UNCHANGED <<m_latestFrame, published, m_running, main, shown>>
        /\ m_lastRenderedFrameId' = render.id
    BY <1>9 DEF Drawn, frameVars
  <2>2. render.at = "drawn" /\ render'.at = "top" /\ render'.id = 0
    BY <1>1, <1>9, RenderFields
  <2> QED BY <1>0, <1>1, <1>2, <1>4, <2>1, <2>2 DEF Screen
<1>10. CASE RenderTop \/ LoadId \/ CvCheck \/ CvBlock
  <2>1. UNCHANGED <<shown, m_lastRenderedFrameId>>
    BY <1>10 DEF RenderTop, LoadId, CvCheck, CvBlock
  <2>2. /\ render'.id \in {0, render.id, m_decodedFrameId}
        /\ render'.at # "draw" /\ render'.at # "drawn"
    BY <1>1, <1>10, RenderFields
  <2> QED BY <1>6, <2>1, <2>2
<1>11. CASE /\ UNCHANGED <<shown, m_lastRenderedFrameId>>
            /\ render' = WakeRender(render) \/ UNCHANGED render
  BY <1>1, <1>5, <1>11, WakeRenderKeeps
<1> QED BY <1>7, <1>8, <1>9, <1>10, <1>11
        DEF Next, DecodeThread, RenderThread, StopThread, ReceiveFrame, RemoteStop,
            NetRecvExits, DecodeTop, Decode, Replace, Publish, SpuriousWake, OnResize,
            StopBegins, StopNotifies, StopEnds

----------------------------------------------------------------------------
(* The theorems *)

LEMMA InitInv == Init => IInv
<1> SUFFICES ASSUME Init PROVE IInv
  OBVIOUS
<1>1. /\ m_videoQueue = <<>> /\ published = <<>> /\ decode.at = "top" /\ render.at = "top"
      /\ render.id = 0 /\ m_latestFrame = 0 /\ m_decodedFrameId = 0 /\ shown = 0
      /\ m_lastRenderedFrameId = 0 /\ main = "loop" /\ refs = [f \in Frames |-> 0]
      /\ gpu \in BOOLEAN
  BY DEF Init
<1>2. Len(m_videoQueue) = 0 /\ Len(published) = 0 /\ Positions = {}
  BY <1>1 DEF Positions
<1>3. Types /\ Ended
  BY <1>1, InitTypes DEF Ended
<1>4. Counted
  BY <1>1, NumbersAreNat DEF Counted, Holders
<1>5. InOrder
  BY <1>1, <1>2 DEF InOrder, InHand
<1>6. Latest
  BY <1>1, <1>2 DEF Latest
<1>7. Screen
  BY <1>1 DEF Screen
<1> QED BY <1>3, <1>4, <1>5, <1>6, <1>7 DEF IInv

LEMMA Invariance == Spec => []IInv
<1>1. IInv /\ [Next]_vars => IInv'
  <2> SUFFICES ASSUME IInv, [Next]_vars PROVE IInv'
    OBVIOUS
  <2>1. CASE Next
    <3>1. Types /\ Ended /\ Counted /\ InOrder /\ Latest /\ Screen
      BY DEF IInv
    <3>2. Types' /\ Ended' /\ Counted' /\ InOrder' /\ Latest'
      BY <2>1, <3>1, TypesStep, EndedStep, CountedStep, InOrderStep, LatestStep
    <3>3. Screen'
      BY <2>1, ScreenStep
    <3> QED BY <3>2, <3>3 DEF IInv
  <2>2. CASE UNCHANGED vars
    <3>1. /\ UNCHANGED <<vfr, gpu, m_running, m_latestFrame, m_decodedFrameId, published, mutex>>
          /\ UNCHANGED <<m_lastRenderedFrameId, refs, decode, render, main>>
          /\ UNCHANGED <<windowSize, pendingSize, swapSize, m_videoQueue, received, netrecv>>
          /\ UNCHANGED shown
      BY <2>2 DEF vars, mode, frameVars, resizeVars, queueVars
    <3>2. Types' /\ Ended'
      BY <3>1 DEF IInv, Types, Ended
    <3>3. Counted'
      BY <3>1 DEF IInv, Counted, Holders
    <3>4. InOrder' /\ Latest' /\ Screen'
      BY <3>1 DEF IInv, InOrder, Latest, Screen, Positions
    <3> QED BY <3>2, <3>3, <3>4 DEF IInv
  <2> QED BY <2>1, <2>2
<1> QED BY <1>1, InitInv, PTL DEF Spec

LEMMA CountedIsTexturesCounted == IInv => TexturesCounted
<1> SUFFICES ASSUME IInv PROVE TexturesCounted
  OBVIOUS
<1>1. Types /\ Ended /\ Counted /\ gpu \in BOOLEAN
  BY DEF IInv, Types
<1>2. main = "done" => \A f \in Frames : Holders(f) = 0
  BY <1>1, NumbersAreNat DEF Ended, Holders
<1> QED BY <1>1, <1>2 DEF TexturesCounted, Counted

\* TYPE CORRECTNESS, with what it says of the queue, which holds at most its
\* capacity, and of the references, which are never negative: no thread
\* releases a texture it does not hold (ViewerSession.cpp, the members).
THEOREM TypeCorrect == Spec => []TypeOK
<1>1. IInv => TypeOK
  <2> SUFFICES ASSUME IInv PROVE TypeOK
    OBVIOUS
  <2>1. Types /\ Counted
    BY DEF IInv
  <2>2. refs \in [Frames -> Nat]
    <3>1. \A f \in Frames : refs[f] \in Nat
      BY <2>1 DEF Counted, Holders
    <3> QED BY <2>1, <3>1 DEF Types
  <2>3. {windowSize, pendingSize, swapSize} \subseteq 0 .. MaxResizes
    BY <2>1 DEF Types
  <2> QED BY <2>1, <2>2, <2>3 DEF TypeOK, Types, DecodeStates, RenderStates
<1> QED BY <1>1, Invariance, PTL

\* A texture has one reference per holder in every interleaving of the decode
\* and the render thread, and none once Stop has returned (the ComPtr members
\* of DecodedFrame and m_latestFrame).
THEOREM Counting == Spec => []TexturesCounted
BY Invariance, CountedIsTexturesCounted, PTL

\* RenderThread reads m_decodedFrameId before it takes the picture: so what it
\* records as rendered is on the screen, or something newer is.
THEOREM NothingSkipped == Spec => []ScreenKeepsUp
<1>1. IInv => ScreenKeepsUp
  BY DEF IInv, Latest, Screen, ScreenKeepsUp
<1> QED BY <1>1, Invariance, PTL

\* No interleaving of the threads puts an older picture on the screen after a
\* newer one (VideoDecodeThread, RenderFrame).
THEOREM NeverBack == Spec => ScreenOnlyAdvances
<1>1. IInv /\ [Next]_vars => [shown' >= shown]_shown
  <2>1. IInv /\ Next => shown' >= shown
    BY ScreenStep
  <2> QED BY <2>1 DEF vars
<1> QED BY <1>1, Invariance, PTL DEF Spec, ScreenOnlyAdvances
=============================================================================
