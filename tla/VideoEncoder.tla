---------------------------- MODULE VideoEncoder ----------------------------
(***************************************************************************)
(* The agent's video encoder from its set-up on: the encode thread of      *)
(* EncoderManager, and EncodeFrame, EncodeFrameGpu, ProcessInput,          *)
(* ProcessOutput and RequestKeyFrame of MfVideoEncoder, which feed frames  *)
(* to a Media Foundation transform and take its output.                    *)
(*                                                                         *)
(* The transform keeps the frames it accepted until their output is taken; *)
(* it may look ahead, and it may refuse a frame while output waits.  A     *)
(* bounded number of calls into it, into D3D or for memory fails.  Frames  *)
(* are numbered up to MaxFrames; those that follow share one number.       *)
(***************************************************************************)
EXTENDS EncoderSetup

CONSTANTS MaxFrames,    \* bound: frames with a number of their own
          MaxInside,    \* bound: frames a transform keeps
          MaxFailures,  \* bound: calls into the system that fail
          LookAhead,    \* with as many frames it has output
          GOP           \* frames from one forced key frame to the next (240)

ASSUME EncoderAssumption ==
    /\ {MaxFrames, MaxFailures} \subseteq Nat /\ GOP \in Nat \ {0}
    /\ LookAhead \in 1 .. MaxInside /\ MaxInside \in Nat

VARIABLES kind,          \* frames come as a "texture" or "raw"; "none" before
          attributes,    \* the transform has attributes
          frame,         \* the frame being encoded
          step,          \* where the encode thread is
          inside,        \* what the transform keeps: [frame, key]
          ready,         \* how many outputs wait
          forceKey,      \* AVEncVideoForceKeyFrame is set
          fresh,         \* the transform begins a new sequence
          needKeyFrame,
          frameIndex,    \* frames put out, modulo GOP
          vp,            \* the video processor: "unknown", "works" or "broken"
          failures,      \* calls that failed so far
          result,        \* of the last frame: "ok" when output was handed over
          lastOut,       \* the last frame that left the transform (history)
          keyLost        \* a key frame left it and was not handed over (history)

streamParams == <<kind, attributes>>
mftVars  == <<inside, ready, forceKey, fresh>>
keyVars  == <<needKeyFrame, frameIndex>>
history  == <<lastOut, keyLost>>
encVars  == <<streamParams, frame, step, mftVars, keyVars, vp, failures, result, history>>
vars     == <<setupVars, encVars>>

Rest == MaxFrames + 1        \* the number the further frames share

Init ==
    /\ SetupInit
    /\ kind = "none" /\ attributes = FALSE /\ frame = 0 /\ step = "idle"
    /\ inside = <<>> /\ ready = 0 /\ forceKey = FALSE /\ fresh = TRUE
    /\ needKeyFrame = TRUE /\ frameIndex = 0 /\ vp = "unknown" /\ failures = 0
    /\ result = "none" /\ lastOut = 0 /\ keyLost = FALSE

----------------------------------------------------------------------------
(* The encode thread *)

\* Initialize has returned: its arguments and lists are gone, the thread starts.
\* Capture delivers textures only when it has a device.
Start ==
    /\ at = "initialized" /\ at' = "running"
    /\ kind' \in IF captureDevice THEN {"texture", "raw"} ELSE {"raw"}
    /\ attributes' \in BOOLEAN
    /\ lists' = <<>> /\ todo' = {} /\ crashed' = {} /\ mft' = 0
    /\ high' = FALSE /\ rung' = 1 /\ order' = "input" /\ stage' = "h264hw"
    /\ UNCHANGED <<captureDevice, deviceVars, codecType, size,
                   frame, step, mftVars, keyVars, vp, failures, result, history>>

\* The thread takes a frame from videoInputQueue.
NextFrame ==
    /\ at = "running" /\ step = "idle"
    /\ frame' = IF frame < Rest THEN frame + 1 ELSE Rest
    /\ result' = "none"
    /\ step' = IF kind = "texture" THEN "convert" ELSE "upload"
    /\ UNCHANGED <<setupVars, streamParams, mftVars, keyVars, vp, failures, history>>

\* A call into the system fails; that it does not fail has no effect of its own.
Fails == failures < MaxFailures /\ failures' = failures + 1

GoTo(s) == step' = s /\ UNCHANGED result
End(r)  == step' = "idle" /\ result' = r

\* A conversion on the GPU is validated the first time, and if it gave black
\* never tried again.
Validated ==
    /\ vp # "broken" /\ vp' = "works"

NotConverted ==
    \/ vp = "unknown" /\ vp' = "broken" /\ UNCHANGED failures
    \/ vp = "broken" /\ UNCHANGED <<vp, failures>>
    \/ Fails /\ UNCHANGED vp

\* ConvertTextureToNv12Gpu.
ConvertTexture ==
    /\ step = "convert" /\ Validated /\ GoTo("feed")
    /\ UNCHANGED <<setupVars, streamParams, frame, mftVars, keyVars, failures, history>>

TextureNotConverted ==
    /\ step = "convert" /\ NotConverted /\ GoTo("stage")
    /\ UNCHANGED <<setupVars, streamParams, frame, mftVars, keyVars, history>>

\* The texture is read back, or the frame is lost.
Stage ==
    /\ step = "stage" /\ GoTo("upload")
    /\ UNCHANGED <<setupVars, streamParams, frame, mftVars, keyVars, vp, failures, history>>

StageFails ==
    /\ step = "stage" /\ End("no") /\ Fails
    /\ UNCHANGED <<setupVars, streamParams, frame, mftVars, keyVars, vp, history>>

\* ConvertBgraToNv12Gpu, when there is a device; else the CPU converts.
Upload ==
    /\ step = "upload" /\ device # "none" /\ Validated /\ GoTo("feedUpload")
    /\ UNCHANGED <<setupVars, streamParams, frame, mftVars, keyVars, failures, history>>

NotUploaded ==
    /\ step = "upload" /\ GoTo("feedMemory")
    /\ IF device # "none" THEN NotConverted ELSE UNCHANGED <<vp, failures>>
    /\ UNCHANGED <<setupVars, streamParams, frame, mftVars, keyVars, history>>

----------------------------------------------------------------------------
(* The transform's ProcessInput *)

Feeding == {"feed", "feedUpload", "feedMemory"}

Accept ==
    /\ Len(inside) < MaxInside
    /\ \E k \in BOOLEAN :
          /\ forceKey \/ fresh => k
          /\ inside' = Append(inside, [frame |-> frame, key |-> k])
    /\ ready' \in ready .. Len(inside')
    /\ Len(inside') >= LookAhead => ready' > 0
    /\ forceKey' = FALSE /\ fresh' = FALSE

Fed ==
    /\ step \in Feeding /\ Accept /\ GoTo("take")
    /\ UNCHANGED <<setupVars, streamParams, frame, keyVars, vp, failures, history>>

RefuseAndFallThrough ==     \* mutant of Refused: the caller tries the CPU path
    /\ step \in Feeding /\ ready > 0
    /\ CASE step = "feed" -> GoTo("stage")
         [] step = "feedUpload" -> End("no")
         [] step = "feedMemory" -> GoTo("take")
    /\ UNCHANGED <<setupVars, streamParams, frame, mftVars, keyVars, vp, failures, history>>

\* MF_E_NOTACCEPTING: the GPU path drains; with an uploaded frame the call ends;
\* with one in memory it is taken for accepted.
Refused ==
    /\ step \in Feeding /\ ready > 0
    /\ CASE step = "feed" -> GoTo("drain")
         [] step = "feedUpload" -> End("no")
         [] step = "feedMemory" -> GoTo("take")
    /\ UNCHANGED <<setupVars, streamParams, frame, mftVars, keyVars, vp, failures, history>>

\* Another error: on to the next way to feed the frame.
FeedFails ==
    /\ step \in Feeding /\ Fails
    /\ CASE step = "feed" -> GoTo("stage")
         [] step = "feedUpload" -> GoTo("feedMemory")
         [] step = "feedMemory" -> End("no")
    /\ UNCHANGED <<setupVars, streamParams, frame, mftVars, keyVars, vp, history>>

----------------------------------------------------------------------------
(* ProcessOutput, and what follows it *)

Emit == /\ ready > 0
        /\ ready' = ready - 1 /\ inside' = Tail(inside)
        /\ lastOut' = Head(inside).frame

\* What RequestKeyFrame does to a transform that has lost an output.
ForceKey ==
    IF attributes
    THEN /\ forceKey' = TRUE /\ UNCHANGED fresh
         /\ ready' = ready - 1 /\ inside' = Tail(inside)
    ELSE /\ fresh' = TRUE /\ ready' = 0 /\ inside' = <<>> /\ UNCHANGED forceKey

AccountOnlyPeriodic(key) == \* mutant of Account: an unanswered request is forgotten
    /\ frameIndex' = (frameIndex + 1) % GOP
    /\ IF frameIndex' = 0
       THEN needKeyFrame' = TRUE /\ ForceKey
       ELSE /\ needKeyFrame' = (needKeyFrame /\ ~key)
            /\ ready' = ready - 1 /\ inside' = Tail(inside)
            /\ UNCHANGED <<forceKey, fresh>>

\* An output is handed over: a key frame answers the request for one, and a key
\* frame is requested while one is needed, and after GOP frames.
Account(key) ==
    /\ frameIndex' = (frameIndex + 1) % GOP
    /\ IF (needKeyFrame /\ ~key) \/ frameIndex' = 0
       THEN needKeyFrame' = TRUE /\ ForceKey
       ELSE /\ needKeyFrame' = FALSE
            /\ ready' = ready - 1 /\ inside' = Tail(inside)
            /\ UNCHANGED <<forceKey, fresh>>

HandOver ==
    /\ step = "take" /\ ready > 0
    /\ Account(Head(inside).key)
    /\ lastOut' = Head(inside).frame /\ keyLost' = FALSE
    /\ End("ok")
    /\ UNCHANGED <<setupVars, streamParams, frame, vp, failures>>

FallThrough ==              \* mutant of NothingTaken: the frame is fed again
    /\ step \in {"take", "drain"}
    /\ IF ready = 0 THEN UNCHANGED failures ELSE Fails
    /\ IF step = "take" THEN GoTo("stage") ELSE End("no")
    /\ UNCHANGED <<setupVars, streamParams, frame, mftVars, keyVars, vp, history>>

\* No output yet, or the call fails and takes nothing.
NothingTaken ==
    /\ step \in {"take", "drain"} /\ End("no")
    /\ IF ready = 0 THEN UNCHANGED failures ELSE Fails
    /\ UNCHANGED <<setupVars, streamParams, frame, mftVars, keyVars, vp, history>>

\* The output is taken and lost: after a refusal always, else if it cannot be read.
Discard ==
    /\ step \in {"take", "drain"} /\ Emit /\ End("no")
    /\ IF step = "drain" THEN UNCHANGED failures ELSE Fails
    /\ keyLost' = (keyLost \/ Head(inside).key)
    /\ UNCHANGED <<setupVars, streamParams, frame, forceKey, fresh, keyVars, vp>>

----------------------------------------------------------------------------

Setup == SetupNext /\ UNCHANGED encVars

EncodeStep ==
    \/ NextFrame \/ ConvertTexture \/ TextureNotConverted \/ Stage \/ StageFails
    \/ Upload \/ NotUploaded \/ Fed \/ Refused \/ FeedFails
    \/ HandOver \/ NothingTaken \/ Discard

Next == Setup \/ Start \/ EncodeStep

\* The threads run, and frames keep coming.
Fairness == WF_vars(Setup) /\ WF_vars(Start) /\ WF_vars(EncodeStep)

Spec == Init /\ [][Next]_vars
FairSpec == Spec /\ Fairness

----------------------------------------------------------------------------
(* Properties *)

TypeOK ==
    /\ SetupTypeOK
    /\ kind \in {"none", "texture", "raw"} /\ attributes \in BOOLEAN /\ frame \in 0 .. Rest
    /\ step \in {"idle", "convert", "stage", "upload", "take", "drain"} \cup Feeding
    /\ inside \in Seq([frame : 1 .. Rest, key : BOOLEAN]) /\ Len(inside) <= MaxInside
    /\ ready \in 0 .. Len(inside)
    /\ {forceKey, fresh, needKeyFrame, keyLost} \subseteq BOOLEAN
    /\ frameIndex \in 0 .. GOP - 1 /\ failures \in 0 .. MaxFailures
    /\ vp \in {"unknown", "works", "broken"}
    /\ result \in {"none", "ok", "no"} /\ lastOut \in 0 .. Rest

\* No frame is encoded twice and none out of order, whichever way it was fed
\* and however the ways before it failed: the transform keeps frames that are
\* newer than what left it, each newer than the one before.
NothingTwice ==
    \A i \in DOMAIN inside : inside[i].frame # Rest =>
        /\ inside[i].frame > lastOut
        /\ \A j \in 1 .. i - 1 : inside[j].frame < inside[i].frame

\* While a key frame is needed and none was lost since the last output, one is on
\* its way: it is in the transform, or the next frame will be one.
KeyOnItsWay ==
    needKeyFrame /\ ~keyLost =>
        forceKey \/ fresh \/ \E i \in DOMAIN inside : inside[i].key

\* Frames that come as textures are encoded again and again, once no call
\* fails any more: a transform that refuses input is drained, and whichever way a
\* frame is fed one is put out.
EncodingGoesOn == kind = "texture" ~> result = "ok"

\* The same of frames that come from memory, which fails: an uploaded frame that
\* is refused ends the call, and nothing ever takes the output that waits.
RawEncodingGoesOn == kind = "raw" ~> result = "ok"
=============================================================================
