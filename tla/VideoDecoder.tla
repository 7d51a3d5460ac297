---------------------------- MODULE VideoDecoder ----------------------------
(***************************************************************************)
(* The viewer's video decoder: MfVideoDecoder (Viewer/Decoder), which      *)
(* feeds packets to a Media Foundation transform and drains its pictures,  *)
(* as textures on the GPU path and as bytes on the CPU path, and the       *)
(* decode thread of ViewerSession.cpp, which publishes what it returns.    *)
(*                                                                         *)
(* A packet holds one picture, and both have its number; packets after     *)
(* MaxPackets share one.  The transform is a synchronous one: it keeps     *)
(* pictures until they are taken, and may refuse a packet while one waits. *)
(* It finds a change of the stream in a packet, which it refuses or takes, *)
(* and reports it before the first picture of the new size; the packet may *)
(* be swallowed with it.  It may also break for good.                      *)
(***************************************************************************)
EXTENDS Naturals, Sequences

CONSTANTS MaxPackets,   \* bound: packets with a number of their own
          MaxInside,    \* bound: pictures a transform keeps
          LookAhead,    \* with as many packets it has a picture
          MaxChanges,   \* bound: stream changes
          MaxFailures   \* bound: calls that fail while the transform is not broken

ASSUME DecoderAssumption ==
    /\ {MaxPackets, MaxInside, MaxChanges, MaxFailures} \subseteq Nat
    /\ LookAhead \in 1 .. MaxInside

VARIABLES at,           \* where the set-up is; "running" after it
          gpuDecodeAvailable,
          backing,      \* what the transform's pictures are in: "surface", "memory", "mixed"
          inside,       \* packets the transform keeps
          ready,        \* how many pictures of them wait
          change,       \* a stream change not yet reported: "no", "taken" (the last
                        \* packet kept brings it) or "refused" (one that was refused did)
          streamSize,   \* the size of the stream, as the number of its changes plus 1
          broken, failures,
          size,         \* width x height: 0 before they are read, else a streamSize
          formatEstablished,
          step,         \* where DecodeFrame or DecodeFrameGpu is
          packet,       \* the packet being decoded
          streamChanged,
          out,          \* the picture in hand: outNv12Texture or outRGBA
          result,       \* what the call returned: "ok" or "no"
          latest,       \* m_latestFrame
          refs,         \* references held on the texture of each picture
          fed,          \* how often the packet was accepted (history)
          streamBefore, \* streamSize when the packet came (history)
          swallowed,    \* and then was swallowed by a stream change (history)
          newest,       \* the last picture it gave after that (history)
          early         \* pictures drained after a refusal (history)

setupVars  == <<at, gpuDecodeAvailable, backing>>
mftVars    == <<inside, ready, change, streamSize>>
faults     == <<broken, failures>>
formatVars == <<size, formatEstablished>>
viewerVars == <<latest, refs>>
history    == <<fed, streamBefore, swallowed, newest, early>>
vars == <<setupVars, mftVars, faults, formatVars, step, packet, streamChanged, out, result,
          viewerVars, history>>

Rest     == MaxPackets + 1     \* the number the further packets share
Numbered == 1 .. MaxPackets
None     == [picture |-> 0, size |-> 0]

Init ==
    /\ at = "initialize" /\ gpuDecodeAvailable = FALSE
    /\ backing \in {"surface", "memory", "mixed"}
    /\ inside = <<>> /\ ready = 0 /\ change = "no" /\ streamSize = 1
    /\ broken = FALSE /\ failures = 0
    /\ size = 0 /\ formatEstablished = FALSE
    /\ step = "idle" /\ packet = 0 /\ streamChanged = FALSE
    /\ out = None /\ result = "none" /\ latest = None
    /\ refs = [p \in Numbered |-> 0]
    /\ fed = 0 /\ streamBefore = 1 /\ swallowed = FALSE /\ newest = None /\ early = {}

\* AddRef and Release on the texture of a picture; bytes are not counted.
Counted(p) == gpuDecodeAvailable /\ p \in Numbered
AddRef(r, p)  == IF Counted(p) THEN [r EXCEPT ![p] = @ + 1] ELSE r
Release(r, p) == IF Counted(p) THEN [r EXCEPT ![p] = @ - 1] ELSE r

----------------------------------------------------------------------------
(* Initialize and InitializeWithD3D11 *)

\* A transform is found and activated, or the session ends.
Activate ==
    /\ at = "initialize" /\ at' \in {"types", "failed"}
    /\ UNCHANGED <<gpuDecodeAvailable, backing, mftVars, faults, formatVars, step, packet,
                   streamChanged, out, result, viewerVars, history>>

\* Without an input type, with its frame size or bare, every packet is an error.
SetTypes ==
    /\ at = "types" /\ at' = "device"
    /\ broken' \in BOOLEAN
    /\ UNCHANGED <<gpuDecodeAvailable, backing, mftVars, failures, formatVars, step, packet,
                   streamChanged, out, result, viewerVars, history>>

\* The renderer's device is set on a transform that knows D3D11 and takes it,
\* which then begins its stream anew; pictures in surfaces need the device.
SetDevice ==
    /\ at = "device" /\ at' = "running"
    /\ gpuDecodeAvailable' \in BOOLEAN
    /\ backing' = IF gpuDecodeAvailable' THEN backing ELSE "memory"
    /\ UNCHANGED <<mftVars, faults, formatVars, step, packet, streamChanged, out, result,
                   viewerVars, history>>

----------------------------------------------------------------------------
(* Feeding a packet *)

\* VideoDecodeThread takes a packet and calls DecodeFrameGpu or DecodeFrame.
NextPacket ==
    /\ at = "running" /\ step = "idle" /\ step' = "feed"
    /\ packet' = IF packet < Rest THEN packet + 1 ELSE Rest
    /\ out' = None /\ result' = "none" /\ streamChanged' = FALSE
    /\ fed' = 0 /\ streamBefore' = streamSize /\ swallowed' = FALSE /\ newest' = None
    /\ UNCHANGED <<setupVars, mftVars, faults, formatVars, viewerVars, early>>

\* A call fails, once or because the transform is broken.
Fails ==
    \/ broken /\ UNCHANGED failures
    \/ failures < MaxFailures /\ failures' = failures + 1

Feeding == {"feed", "retry", "refeed"}

\* A packet may begin a new stream, which is reported once.
NewStream == streamSize <= MaxChanges /\ ~streamChanged

\* What the transform does with a packet it takes.
Accept ==
    /\ ~broken /\ change = "no" /\ Len(inside) < MaxInside
    /\ inside' = Append(inside, packet)
    /\ \/ /\ NewStream
          /\ change' = "taken" /\ ready' = Len(inside)
       \/ /\ ready' \in ready .. Len(inside')
          /\ Len(inside') >= LookAhead => ready' > 0
          /\ UNCHANGED change

\* The drains begin with no picture in hand: a texture that one had is forgotten.
BeginDrain(s) == step' = s /\ out' = None /\ streamChanged' = FALSE

Fed ==
    /\ step \in Feeding /\ Accept
    /\ BeginDrain(IF step = "refeed" THEN "drainAgain" ELSE "drain")
    /\ fed' = fed + 1 /\ swallowed' = FALSE /\ newest' = None
    /\ UNCHANGED <<setupVars, packet, faults, formatVars, result, viewerVars, streamSize, streamBefore,
                   early>>

Return(r) == step' = "returned" /\ result' = r

\* A picture or a stream change waits, or the packet brings one.
Refuses ==
    /\ ~broken
    /\ \/ (ready > 0 \/ change # "no") /\ UNCHANGED <<change, ready>>
       \/ /\ change = "no" /\ NewStream
          /\ change' = "refused" /\ ready' = Len(inside)
    /\ UNCHANGED <<inside, streamSize>>

RefusedEnds ==              \* mutant of Refused: the caller is to try again
    /\ step \in Feeding /\ Refuses
    /\ Return("no") /\ UNCHANGED <<out, streamChanged>>
    /\ UNCHANGED <<setupVars, faults, formatVars, packet, viewerVars, history>>

\* MF_E_NOTACCEPTING: what waits is drained and the packet is fed once more.
Refused ==
    /\ step \in Feeding /\ Refuses
    /\ IF step = "feed" THEN BeginDrain("drainFirst") /\ UNCHANGED result
       ELSE Return("no") /\ UNCHANGED <<out, streamChanged>>
    /\ UNCHANGED <<setupVars, faults, formatVars, packet, viewerVars, history>>

\* ProcessInput fails, or there is no memory for the sample.
FeedFails ==
    /\ step \in Feeding /\ Fails /\ Return("no")
    /\ UNCHANGED <<setupVars, mftVars, broken, formatVars, packet, streamChanged, out,
                   viewerVars, history>>

----------------------------------------------------------------------------
(* DrainDecoderOutput and DrainDecoderOutputGpu *)

Draining == {"drainFirst", "drain", "drainAgain"}

\* HandleStreamChange reads the size of the stream as it is after the step; that
\* a type tells no size is not noticed.
HandleStreamChange ==
    \/ size' = streamSize' /\ formatEstablished' = TRUE /\ UNCHANGED failures
    \/ Fails /\ UNCHANGED formatVars
    \/ Fails /\ size' = 0 /\ formatEstablished' = TRUE

\* The next picture leaves the transform.
Emit == /\ ~broken /\ ready > 0
        /\ ready' = ready - 1 /\ inside' = Tail(inside)
        /\ UNCHANGED <<change, streamSize>>

\* Bytes of unknown size are none, and no texture is made of them; a surface
\* is a texture already.
Usable(b) == size # 0 \/ b = "surface"

KeepsOld(p) ==              \* mutant of Take: the picture in hand is not released
    /\ out' = [picture |-> p, size |-> size]
    /\ refs' = AddRef(refs, p)

\* A picture replaces the one in hand, with the size known so far.
Take(p) ==
    /\ out' = [picture |-> p, size |-> size]
    /\ refs' = AddRef(Release(refs, out.picture), p)

KeepsFirst ==               \* mutant of TakeOutput: the first picture wins
    /\ step \in Draining /\ Emit
    /\ Usable(backing)
    /\ IF out = None THEN Take(Head(inside)) ELSE UNCHANGED <<out, refs>>
    /\ IF formatEstablished THEN UNCHANGED <<formatVars, failures>> ELSE HandleStreamChange
    /\ newest' = [picture |-> Head(inside), size |-> IF size = 0 THEN 0 ELSE streamSize]
    /\ early' = IF step = "drainFirst" THEN early \cup {Head(inside)} ELSE early
    /\ UNCHANGED <<setupVars, broken, step, packet, streamChanged, result, latest, fed,
                   streamBefore, swallowed>>

\* A picture is taken; the first time its size is read after it is taken.
TakeOutput ==
    /\ step \in Draining /\ Emit
    /\ \E b \in IF backing = "mixed" THEN {"surface", "memory"} ELSE {backing} :
          /\ Usable(b) /\ Take(Head(inside))
          /\ IF formatEstablished THEN UNCHANGED <<formatVars, failures>> ELSE HandleStreamChange
    /\ newest' = [picture |-> Head(inside), size |-> IF size = 0 THEN 0 ELSE streamSize]
    /\ early' = IF step = "drainFirst" THEN early \cup {Head(inside)} ELSE early
    /\ UNCHANGED <<setupVars, broken, step, packet, streamChanged, result, latest, fed,
                   streamBefore, swallowed>>

\* It cannot be used: the GPU path drops it, the CPU path converts it to nothing
\* and reads the size for the pictures after it.
DropOutput ==
    /\ step \in Draining /\ Emit
    /\ \/ Fails /\ UNCHANGED <<out, formatVars>>
       \/ /\ size = 0 /\ backing # "surface"
          /\ IF gpuDecodeAvailable \/ formatEstablished
             THEN UNCHANGED <<out, formatVars, failures>>
             ELSE out' = None /\ HandleStreamChange
    /\ UNCHANGED <<setupVars, broken, step, packet, streamChanged, result, viewerVars, history>>

\* MF_E_TRANSFORM_STREAM_CHANGE; the transform keeps or swallows a packet it took.
StreamChange ==
    /\ step \in Draining /\ ~broken /\ ready = 0 /\ change # "no"
    /\ change' = "no" /\ streamChanged' = TRUE /\ streamSize' = streamSize + 1
    /\ HandleStreamChange
    /\ \/ /\ change = "taken" /\ inside' = <<>> /\ ready' = 0
          /\ swallowed' = (fed > 0)
       \/ /\ ready' \in 0 .. Len(inside) /\ (Len(inside) >= LookAhead => ready' > 0)
          /\ UNCHANGED <<inside, swallowed>>
    /\ UNCHANGED <<setupVars, broken, step, packet, out, result, viewerVars, fed, streamBefore,
                   newest, early>>

\* What a call returns: there is a texture, or there are bytes.
Got == out.picture # 0 /\ (gpuDecodeAvailable \/ out.size # 0)

RefeedIfNothing ==          \* mutant of AfterDrain: the packet is fed again too often
    CASE step = "drainFirst" -> step' = "retry" /\ UNCHANGED result
      [] step = "drain" /\ ~Got -> step' = "refeed" /\ UNCHANGED result
      [] OTHER -> Return(IF Got THEN "ok" ELSE "no")

\* The packet is fed again after a stream change that gave no picture.
AfterDrain ==
    CASE step = "drainFirst" -> step' = "retry" /\ UNCHANGED result
      [] step = "drain" /\ ~Got /\ streamChanged -> step' = "refeed" /\ UNCHANGED result
      [] OTHER -> Return(IF Got THEN "ok" ELSE "no")

\* MF_E_TRANSFORM_NEED_MORE_INPUT, or an error.
DrainEnds ==
    /\ step \in Draining /\ AfterDrain
    /\ IF ~broken /\ ready = 0 /\ change = "no" THEN UNCHANGED failures ELSE Fails
    /\ UNCHANGED <<setupVars, mftVars, broken, formatVars, packet, streamChanged, out,
                   viewerVars, history>>

----------------------------------------------------------------------------
(* VideoDecodeThread, and the device *)

\* Under m_frameMutex a picture replaces the published one; without one nothing
\* is released.
Publish ==
    /\ step = "returned" /\ step' = "idle"
    /\ IF result = "ok"
       THEN latest' = out /\ refs' = Release(refs, latest.picture)
       ELSE UNCHANGED viewerVars
    /\ out' = None
    /\ UNCHANGED <<setupVars, mftVars, faults, formatVars, packet, streamChanged, result, history>>

\* The transform breaks, as when the device is removed.
Breaks ==
    /\ at = "running" /\ broken' = TRUE
    /\ UNCHANGED <<setupVars, mftVars, failures, formatVars, step, packet, streamChanged, out,
                   result, viewerVars, history>>

----------------------------------------------------------------------------

Setup == Activate \/ SetTypes \/ SetDevice

DecodeStep ==
    \/ NextPacket \/ Fed \/ Refused \/ FeedFails
    \/ TakeOutput \/ DropOutput \/ StreamChange \/ DrainEnds \/ Publish

Next == Setup \/ DecodeStep \/ Breaks

\* The threads run, and packets keep coming.
Fairness == WF_vars(Setup) /\ WF_vars(DecodeStep)

Spec == Init /\ [][Next]_vars
FairSpec == Spec /\ Fairness

----------------------------------------------------------------------------
(* Properties *)

Pictures == [picture : 0 .. Rest, size : 0 .. MaxChanges + 1]

TypeOK ==
    /\ at \in {"initialize", "types", "device", "running", "failed"}
    /\ {gpuDecodeAvailable, broken, formatEstablished, streamChanged, swallowed}
          \subseteq BOOLEAN
    /\ backing \in {"surface", "memory", "mixed"} /\ change \in {"no", "taken", "refused"}
    /\ inside \in Seq(1 .. Rest) /\ Len(inside) <= MaxInside /\ ready \in 0 .. Len(inside)
    /\ {streamSize, streamBefore} \subseteq 1 .. MaxChanges + 1 /\ size \in 0 .. MaxChanges + 1
    /\ failures \in 0 .. MaxFailures /\ packet \in 0 .. Rest
    /\ step \in {"idle", "returned"} \cup Feeding \cup Draining
    /\ {out, latest, newest} \subseteq Pictures /\ result \in {"none", "ok", "no"}
    /\ DOMAIN refs = Numbered /\ fed \in 0 .. 2 /\ early \subseteq 1 .. Rest

\* How many variables hold the texture of p.
Holders(p) == (IF out.picture = p THEN 1 ELSE 0) + (IF latest.picture = p THEN 1 ELSE 0)

\* Nobody holds a texture that was released, and none is left behind, however
\* many pictures a call takes: but for the ones drained after a refusal, which
\* the next drain forgets.
TexturesHeld ==
    gpuDecodeAvailable =>
        \A p \in Numbered : \/ refs[p] = Holders(p)
                            \/ refs[p] > Holders(p) /\ p \in early

\* A call returns the newest picture the transform gave after it had accepted
\* the packet, with the size of the stream it belongs to, and leaves no picture
\* waiting, unless a call failed.  The first picture of all may have no size,
\* and then the CPU path returns none.
NewestReturned ==
    step = "returned" /\ failures = 0 /\ ~broken =>
        /\ ready = 0
        /\ result = "ok" => out.picture = newest.picture
        /\ newest.size # 0 => result = "ok" /\ out.size = newest.size

\* A packet that was swallowed by a stream change is fed again, unless the call
\* has a picture to return, and no other packet is fed twice.
FedAgainOnlyAfterChange ==
    step = "returned" /\ failures = 0 /\ ~broken =>
        /\ fed = 1 /\ swallowed => result = "ok"
        /\ fed = 2 => streamSize > streamBefore

\* Pictures are returned again and again, once no call fails any more: no refusal
\* and no stream change leaves the transform and the decode thread waiting for
\* each other.  Of a transform that gives bytes to the GPU path it is not true:
\* nothing but a stream change tells it their size; nor of the CPU path once a
\* type without a size was taken for the format.
DecodingGoesOn ==
    at = "running" /\ (gpuDecodeAvailable => backing = "surface")
        ~> \/ result = "ok" \/ broken
           \/ ~gpuDecodeAvailable /\ formatEstablished /\ size = 0
=============================================================================
