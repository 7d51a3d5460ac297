--------------------------- MODULE ViewerPlayback ---------------------------
(***************************************************************************)
(* The viewer from a received video frame to the screen, and its shutdown  *)
(* (Viewer/ViewerSession.cpp): NetworkReceiveThread puts frames into       *)
(* m_videoQueue, VideoDecodeThread publishes decoded ones in m_latestFrame *)
(* under m_frameMutex, RenderThread draws the latest, and the window's     *)
(* thread resizes and calls Stop, which joins them.                        *)
(*                                                                         *)
(* Frames are numbered as they arrive; the decoded picture of frame f, and *)
(* the NV12 texture that holds it, are called f too, and 0 is no picture.  *)
(* A step is what a thread does up to the next point where another thread  *)
(* can tell: an atomic, a mutex, the condition variable.                   *)
(***************************************************************************)
EXTENDS Naturals, Sequences, FiniteSets

CONSTANTS QueueSize,   \* capacity of m_videoQueue (192)
          MaxFrames,   \* bound: frames received
          MaxResizes   \* bound: WM_SIZE messages handled

ASSUME PlaybackAssumption ==
    /\ QueueSize \in Nat \ {0} /\ MaxFrames \in Nat /\ MaxResizes \in Nat

VARIABLES vfr,          \* m_variableFrameRate, fixed at start
          gpu,          \* the decoder outputs NV12 textures (else RGBA bytes), fixed too
          m_running,
          m_videoQueue,
          received,     \* frames received so far
          mutex,        \* owner of m_frameMutex: "none", "decode" or "render"
          m_latestFrame,          \* the published picture
          m_decodedFrameId,       \* pictures published
          m_lastRenderedFrameId,
          published,    \* the pictures published, in order (history)
          refs,         \* references held on each texture
          decode,       \* decode thread: [at, frame]
          render,       \* render thread: [at, id, frame]
          netrecv,      \* receive thread: "run" or "exit"
          main,         \* window thread
          windowSize,   \* the window's size, as the number of its last change
          pendingSize,  \* m_pendingWidth x m_pendingHeight; 0 when not m_pendingResize
          swapSize,     \* the size of the swap chain
          shown         \* the picture on the screen

frameVars  == <<m_latestFrame, m_decodedFrameId, published, mutex>>
resizeVars == <<windowSize, pendingSize, swapSize>>
mode == <<vfr, gpu>>
queueVars  == <<m_videoQueue, received, netrecv>>
vars == <<mode, m_running, frameVars, m_lastRenderedFrameId, refs, decode, render,
          main, resizeVars, queueVars, shown>>

Frames == 1 .. MaxFrames

\* AddRef and Release on a texture; pictures in memory are copied, not counted.
AddRef(r, f)  == IF gpu /\ f # 0 THEN [r EXCEPT ![f] = @ + 1] ELSE r
Release(r, f) == IF gpu /\ f # 0 THEN [r EXCEPT ![f] = @ - 1] ELSE r

Init ==
    /\ vfr \in BOOLEAN /\ gpu \in BOOLEAN
    /\ m_running = TRUE
    /\ m_videoQueue = <<>> /\ received = 0 /\ netrecv = "run"
    /\ mutex = "none" /\ m_latestFrame = 0 /\ m_decodedFrameId = 0 /\ published = <<>>
    /\ m_lastRenderedFrameId = 0
    /\ refs = [f \in Frames |-> 0]
    /\ decode = [at |-> "top", frame |-> 0]
    /\ render = [at |-> "top", id |-> 0, frame |-> 0]
    /\ main = "loop"
    /\ windowSize = 0 /\ pendingSize = 0 /\ swapSize = 0
    /\ shown = 0

----------------------------------------------------------------------------
(* NetworkReceiveThread *)

ReceiveAlways ==            \* mutant of ReceiveFrame: the queue is not bounded
    /\ netrecv = "run" /\ m_running /\ received < MaxFrames
    /\ received' = received + 1
    /\ m_videoQueue' = Append(m_videoQueue, received + 1)
    /\ UNCHANGED <<mode, m_running, frameVars, m_lastRenderedFrameId, refs, decode, render,
                   main, resizeVars, netrecv, shown>>

\* A video packet arrives: it is queued, or dropped when the queue is full.
ReceiveFrame ==
    /\ netrecv = "run" /\ m_running /\ received < MaxFrames
    /\ received' = received + 1
    /\ m_videoQueue' = IF Len(m_videoQueue) < QueueSize
                       THEN Append(m_videoQueue, received + 1) ELSE m_videoQueue
    /\ UNCHANGED <<mode, m_running, frameVars, m_lastRenderedFrameId, refs, decode, render,
                   main, resizeVars, netrecv, shown>>

\* The agent says SESSION_STOP; nobody is woken.
RemoteStop ==
    /\ netrecv = "run" /\ m_running
    /\ m_running' = FALSE
    /\ UNCHANGED <<mode, frameVars, m_lastRenderedFrameId, refs, decode, render,
                   main, resizeVars, queueVars, shown>>

NetRecvExits ==
    /\ netrecv = "run" /\ ~m_running
    /\ netrecv' = "exit"
    /\ UNCHANGED <<mode, m_running, frameVars, m_lastRenderedFrameId, refs, decode, render,
                   main, resizeVars, m_videoQueue, received, shown>>

----------------------------------------------------------------------------
(* VideoDecodeThread *)

DecodeNewest ==             \* mutant of DecodeTop: the newest packet first
    /\ decode.at = "top"
    /\ IF ~m_running
       THEN decode' = [decode EXCEPT !.at = "exit"] /\ UNCHANGED m_videoQueue
       ELSE /\ m_videoQueue # <<>>
            /\ m_videoQueue' = SubSeq(m_videoQueue, 1, Len(m_videoQueue) - 1)
            /\ decode' = [at |-> "decode", frame |-> m_videoQueue[Len(m_videoQueue)]]
    /\ UNCHANGED <<mode, m_running, frameVars, m_lastRenderedFrameId, refs, render,
                   main, resizeVars, received, netrecv, shown>>

\* The loop's test and tryPop; without a packet the thread comes back here.
DecodeTop ==
    /\ decode.at = "top"
    /\ IF ~m_running
       THEN decode' = [decode EXCEPT !.at = "exit"] /\ UNCHANGED m_videoQueue
       ELSE /\ m_videoQueue # <<>>
            /\ m_videoQueue' = Tail(m_videoQueue)
            /\ decode' = [at |-> "decode", frame |-> Head(m_videoQueue)]
    /\ UNCHANGED <<mode, m_running, frameVars, m_lastRenderedFrameId, refs, render,
                   main, resizeVars, received, netrecv, shown>>

\* The decoder yields a picture, with a reference of its own, or none.
Decode ==
    /\ decode.at = "decode"
    /\ \/ /\ decode' = [decode EXCEPT !.at = "lock"]
          /\ refs' = AddRef(refs, decode.frame)
       \/ /\ decode' = [at |-> "top", frame |-> 0]
          /\ UNCHANGED refs
    /\ UNCHANGED <<mode, m_running, frameVars, m_lastRenderedFrameId, render,
                   main, resizeVars, queueVars, shown>>

\* Under m_frameMutex: the old picture is released and replaced.
Replace ==
    /\ decode.at = "lock" /\ mutex = "none"
    /\ mutex' = "decode"
    /\ refs' = Release(refs, m_latestFrame)
    /\ m_latestFrame' = decode.frame
    /\ decode' = [decode EXCEPT !.at = "publish"]
    /\ UNCHANGED <<mode, m_running, m_decodedFrameId, published, m_lastRenderedFrameId,
                   render, main, resizeVars, queueVars, shown>>

\* notify_one on m_frameCv: only the render thread ever waits on it.
WakeRender(r) == IF r.at = "waiting" THEN [r EXCEPT !.at = "cvlock"] ELSE r

PublishWithoutNotify ==     \* mutant of Publish
    /\ decode.at = "publish"
    /\ m_decodedFrameId' = m_decodedFrameId + 1
    /\ published' = Append(published, decode.frame)
    /\ decode' = [at |-> "top", frame |-> 0] /\ mutex' = "none"
    /\ UNCHANGED <<mode, m_running, m_latestFrame, m_lastRenderedFrameId, refs, render,
                   main, resizeVars, queueVars, shown>>

\* Still under the mutex: the counter, the notification, the unlock.  The CPU
\* path first saves a debug picture, and to copy it locks m_frameMutex again,
\* which it holds and which is not recursive: it never gets past "relock".
Publish ==
    /\ decode.at = "publish"
    /\ m_decodedFrameId' = m_decodedFrameId + 1
    /\ published' = Append(published, decode.frame)
    /\ render' = WakeRender(render)
    /\ IF gpu
       THEN decode' = [at |-> "top", frame |-> 0] /\ mutex' = "none"
       ELSE decode' = [decode EXCEPT !.at = "relock"] /\ UNCHANGED mutex
    /\ UNCHANGED <<mode, m_running, m_latestFrame, m_lastRenderedFrameId, refs,
                   main, resizeVars, queueVars, shown>>

DecodeThread == DecodeTop \/ Decode \/ Replace \/ Publish

----------------------------------------------------------------------------
(* RenderThread *)

ResizeOnlyWithPicture ==    \* mutant of RenderTop: no resize while the picture is old
    /\ render.at = "top"
    /\ IF ~m_running
       THEN render' = [render EXCEPT !.at = "exit"] /\ UNCHANGED resizeVars
       ELSE /\ render' = [render EXCEPT !.at = "load"]
            /\ swapSize' = IF pendingSize # 0 /\ m_decodedFrameId # m_lastRenderedFrameId
                           THEN pendingSize ELSE swapSize
            /\ pendingSize' = 0
            /\ UNCHANGED windowSize
    /\ UNCHANGED <<mode, m_running, frameVars, m_lastRenderedFrameId, refs, decode,
                   main, queueVars, shown>>

\* The top of the loop: the loop's test and, under m_renderMutex, the resize.
RenderTop ==
    /\ render.at = "top"
    /\ IF ~m_running
       THEN render' = [render EXCEPT !.at = "exit"] /\ UNCHANGED resizeVars
       ELSE /\ render' = [render EXCEPT !.at = "load"]
            /\ swapSize' = IF pendingSize # 0 THEN pendingSize ELSE swapSize
            /\ pendingSize' = 0
            /\ UNCHANGED windowSize
    /\ UNCHANGED <<mode, m_running, frameVars, m_lastRenderedFrameId, refs, decode,
                   main, queueVars, shown>>

\* m_decodedFrameId is read, without the mutex, before the picture.
LoadId ==
    /\ render.at = "load"
    /\ render' = [render EXCEPT
                    !.id = m_decodedFrameId,
                    !.at = IF m_decodedFrameId # m_lastRenderedFrameId \/ ~vfr
                           THEN "snapshot" ELSE "cvlock"]
    /\ UNCHANGED <<mode, m_running, frameVars, m_lastRenderedFrameId, refs, decode,
                   main, resizeVars, queueVars, shown>>

SnapshotWithoutAddRef ==    \* mutant of Snapshot
    /\ render.at = "snapshot"
    /\ mutex = "none" /\ render' = [render EXCEPT !.at = "draw", !.frame = m_latestFrame]
    /\ UNCHANGED <<mode, m_running, frameVars, m_lastRenderedFrameId, refs, decode,
                   main, resizeVars, queueVars, shown>>

\* RenderFrame, first part: under m_frameMutex take a reference on the latest
\* picture.  Once m_running is FALSE it draws nothing.
Snapshot ==
    /\ render.at = "snapshot"
    /\ IF ~m_running
       THEN render' = [render EXCEPT !.at = "drawn", !.frame = 0] /\ UNCHANGED refs
       ELSE /\ mutex = "none"
            /\ refs' = AddRef(refs, m_latestFrame)
            /\ render' = [render EXCEPT !.at = "draw", !.frame = m_latestFrame]
    /\ UNCHANGED <<mode, m_running, frameVars, m_lastRenderedFrameId, decode,
                   main, resizeVars, queueVars, shown>>

\* RenderFrame, second part: draw, release, present (an empty picture leaves
\* the screen as it is).
Draw ==
    /\ render.at = "draw"
    /\ shown' = IF render.frame # 0 THEN render.frame ELSE shown
    /\ refs' = Release(refs, render.frame)
    /\ render' = [render EXCEPT !.at = "drawn", !.frame = 0]
    /\ UNCHANGED <<mode, m_running, frameVars, m_lastRenderedFrameId, decode,
                   main, resizeVars, queueVars>>

DrawnRereads ==             \* mutant of Drawn: the counter is read again
    /\ render.at = "drawn"
    /\ m_lastRenderedFrameId' = m_decodedFrameId
    /\ render' = [render EXCEPT !.at = "top", !.id = 0]
    /\ UNCHANGED <<mode, m_running, frameVars, refs, decode, main, resizeVars, queueVars, shown>>

Drawn ==
    /\ render.at = "drawn"
    /\ m_lastRenderedFrameId' = render.id
    /\ render' = [render EXCEPT !.at = "top", !.id = 0]
    /\ UNCHANGED <<mode, m_running, frameVars, refs, decode, main, resizeVars, queueVars, shown>>

\* VFR without a new picture: lock m_frameMutex and evaluate the predicate.
CvCheck ==
    /\ render.at = "cvlock" /\ mutex = "none"
    /\ IF ~m_running \/ m_decodedFrameId # m_lastRenderedFrameId
       THEN render' = [render EXCEPT !.at = "top", !.id = 0] /\ UNCHANGED mutex
       ELSE render' = [render EXCEPT !.at = "block"] /\ mutex' = "render"
    /\ UNCHANGED <<mode, m_running, m_latestFrame, m_decodedFrameId, published,
                   m_lastRenderedFrameId, refs, decode, main, resizeVars, queueVars, shown>>

\* The predicate was false: unlock and block, in one step of the wait.
CvBlock ==
    /\ render.at = "block"
    /\ render' = [render EXCEPT !.at = "waiting"]
    /\ mutex' = "none"
    /\ UNCHANGED <<mode, m_running, m_latestFrame, m_decodedFrameId, published,
                   m_lastRenderedFrameId, refs, decode, main, resizeVars, queueVars, shown>>

\* The C++ standard lets the wait end without a notification.
SpuriousWake ==
    /\ render.at = "waiting"
    /\ render' = WakeRender(render)
    /\ UNCHANGED <<mode, m_running, frameVars, m_lastRenderedFrameId, refs, decode,
                   main, resizeVars, queueVars, shown>>

RenderThread == RenderTop \/ LoadId \/ Snapshot \/ Draw \/ Drawn \/ CvCheck \/ CvBlock

----------------------------------------------------------------------------
(* The window's thread *)

OnResize ==
    /\ main = "loop" /\ windowSize < MaxResizes
    /\ windowSize' = windowSize + 1
    /\ pendingSize' = windowSize + 1
    /\ UNCHANGED <<mode, m_running, frameVars, m_lastRenderedFrameId, refs, decode, render,
                   main, swapSize, queueVars, shown>>

StopForgetsRunning ==       \* mutant of StopBegins
    /\ main = "loop"
    /\ main' = "notify"
    /\ UNCHANGED <<mode, m_running, frameVars, m_lastRenderedFrameId, refs, decode, render,
                   resizeVars, queueVars, shown>>

\* The window is closed: WinMain's loop ends and calls Stop, which first
\* clears m_running, without m_frameMutex.
StopBegins ==
    /\ main = "loop"
    /\ main' = "notify" /\ m_running' = FALSE
    /\ UNCHANGED <<mode, frameVars, m_lastRenderedFrameId, refs, decode, render,
                   resizeVars, queueVars, shown>>

StopNotifies ==
    /\ main = "notify"
    /\ main' = "join" /\ render' = WakeRender(render)
    /\ UNCHANGED <<mode, m_running, frameVars, m_lastRenderedFrameId, refs, decode,
                   resizeVars, queueVars, shown>>

\* All threads joined: the last picture is released and the devices shut down.
StopEnds ==
    /\ main = "join"
    /\ decode.at = "exit" /\ render.at = "exit" /\ netrecv = "exit"
    /\ main' = "done"
    /\ refs' = Release(refs, m_latestFrame) /\ m_latestFrame' = 0
    /\ UNCHANGED <<mode, m_running, m_decodedFrameId, published, mutex, m_lastRenderedFrameId,
                   decode, render, resizeVars, queueVars, shown>>

StopThread == StopNotifies \/ StopEnds

Next ==
    \/ ReceiveFrame \/ RemoteStop \/ NetRecvExits
    \/ DecodeThread
    \/ RenderThread \/ SpuriousWake
    \/ OnResize \/ StopBegins \/ StopThread

Spec == Init /\ [][Next]_vars

\* Every thread that can run does; what the agent, the network, the user and
\* the standard library's spurious wake-ups do is left open.
Fairness ==
    WF_vars(NetRecvExits) /\ WF_vars(DecodeThread) /\ WF_vars(RenderThread) /\ WF_vars(StopThread)

FairSpec == Spec /\ Fairness

----------------------------------------------------------------------------
TypeOK ==
    /\ vfr \in BOOLEAN /\ gpu \in BOOLEAN /\ m_running \in BOOLEAN
    /\ m_videoQueue \in Seq(Frames) /\ Len(m_videoQueue) <= QueueSize
    /\ received \in 0 .. MaxFrames
    /\ netrecv \in {"run", "exit"}
    /\ mutex \in {"none", "decode", "render"}
    /\ m_latestFrame \in 0 .. MaxFrames
    /\ m_decodedFrameId \in Nat /\ m_lastRenderedFrameId \in Nat
    /\ published \in Seq(Frames)
    /\ refs \in [Frames -> Nat]
    /\ decode \in [at : {"top", "decode", "lock", "publish", "relock", "exit"},
                   frame : 0 .. MaxFrames]
    /\ render \in [at : {"top", "load", "snapshot", "draw", "drawn", "cvlock", "block",
                         "waiting", "exit"},
                   id : Nat, frame : 0 .. MaxFrames]
    /\ main \in {"loop", "notify", "join", "done"}
    /\ {windowSize, pendingSize, swapSize} \subseteq 0 .. MaxResizes
    /\ shown \in 0 .. MaxFrames

\* EVERY TEXTURE IS COUNTED.  A texture has exactly one reference per holder:
\* the decode thread before it publishes, m_latestFrame, the render thread
\* while it draws.  So no thread draws a released texture, none is released
\* twice, and when Stop has returned none is left.
Holders(f) == (IF decode.at = "lock" /\ decode.frame = f THEN 1 ELSE 0)
            + (IF m_latestFrame = f THEN 1 ELSE 0)
            + (IF render.at = "draw" /\ render.frame = f THEN 1 ELSE 0)

TexturesCounted ==
    /\ gpu => \A f \in Frames : refs[f] = Holders(f)
    /\ main = "done" => \A f \in Frames : refs[f] = 0

\* THE COUNTER NEVER RUNS AHEAD OF THE SCREEN.  The render thread takes
\* m_lastRenderedFrameId from a counter it read before it took the picture, so
\* when it records frame number n as rendered the screen shows the n-th
\* published picture or a later one: no published picture is skipped for good.
ScreenKeepsUp ==
    m_running /\ m_lastRenderedFrameId > 0 =>
        /\ m_lastRenderedFrameId <= Len(published)
        /\ shown >= published[m_lastRenderedFrameId]

\* The picture on the screen is never followed by an older one.
ScreenOnlyAdvances == [][shown' >= shown]_shown

\* The last picture published reaches the screen while the session runs: the
\* wake-up of a render thread that waits for new pictures is never lost.  (On
\* the CPU path the decode thread stops at its first picture.)
LastFrameShown ==
    gpu => \A n \in Frames :
             (m_decodedFrameId = n) ~> (~m_running \/ m_lastRenderedFrameId >= n)

\* At a fixed frame rate the swap chain takes the window's last size, however
\* many changes come between two turns of the render loop, and Stop returns.
CfrResizeApplied ==
    (gpu /\ ~vfr) => ((windowSize # swapSize) ~> (~m_running \/ windowSize = swapSize))
CfrStopCompletes ==
    (gpu /\ ~vfr) => ((main = "notify") ~> (main = "done"))

\* "wake render thread from CV wait" (ViewerSession.cpp:154): Stop returns
\* whatever the render thread is doing when it is called.
StopCompletes == gpu => ((main = "notify") ~> (main = "done"))

\* "Copy under mutex to avoid data race with the render thread"
\* (ViewerSession.cpp:569): the thread that asks for the mutex to copy the
\* debug picture is not the one that holds it.
DebugCopyCanLock == ~(decode.at = "relock" /\ mutex = "decode")
=============================================================================
