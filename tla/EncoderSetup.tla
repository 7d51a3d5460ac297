---------------------------- MODULE EncoderSetup ----------------------------
(***************************************************************************)
(* How the agent chooses its video encoder: MfVideoEncoder::Initialize,    *)
(* SetupEncoderCandidate and ConfigureMediaTypes (MfVideoEncoder.cpp).     *)
(*                                                                         *)
(* The transforms the system offers are in four lists: hardware and        *)
(* software, for H.264 and for HEVC.  What a transform answers is fixed,   *)
(* but for its answer to a D3D device; what it answers to the variants of  *)
(* a media type is one answer for a rung of the resolution ladder and for  *)
(* the order in which the two types are set.                               *)
(***************************************************************************)
EXTENDS Naturals, Sequences

CONSTANTS Rungs,          \* resolutions of the ladder; 1 is the requested one
          MaxTransforms   \* bound: transforms in the four lists together

ASSUME SetupAssumption == Rungs \in Nat \ {0} /\ MaxTransforms \in Nat

VARIABLES high,           \* more than 1920 x 1080 is requested
          captureDevice,  \* the capture's D3D device is passed
          lists,          \* what MFTEnumEx returns, list after list
          crashed,        \* the transforms whose set-up crashed (history)
          stage,          \* the list that is tried
          todo,           \* what is left of it, as positions in lists
          at,             \* where Initialize is; "running" after it
          rung, order,    \* what ConfigureMediaTypes tries
          mft,            \* the activated transform, as a position in lists, or 0
          device,         \* d3dDevice: "none", the "capture" device or a "probe"
          deviceManager,  \* the device the manager was reset with, or "none"
          codecType,      \* 0 is H.264, 1 is HEVC
          size            \* width x height, as a rung

deviceVars == <<device, deviceManager>>
setupVars  == <<high, captureDevice, lists, crashed, stage, todo, at, rung, order, mft,
                deviceVars, codecType, size>>

Stages   == {"h264hw", "hevchw", "hevcsw", "h264sw"}
Hardware == {"h264hw", "hevchw"}
Place    == [h264hw |-> 1, hevchw |-> 2, hevcsw |-> 3, h264sw |-> 4]
Codec(s) == IF s \in {"hevchw", "hevcsw"} THEN 1 ELSE 0

\* A transform can be activated or not; it takes some rungs, with its input
\* type set first or with its output type set first; it knows D3D11 or not.
Transforms ==
    [stage : Stages, loads : {FALSE}, aware : {FALSE}, rungs : {{}}, order : {"input"}]
    \cup [stage : Stages, loads : {TRUE}, aware : {FALSE},
          rungs : {{}, {Rungs}, 1 .. Rungs}, order : {"input", "output"}]
    \cup [stage : Stages, loads : {TRUE}, aware : {TRUE},
          rungs : {1 .. Rungs}, order : {"input"}]

\* Lists, one after the other as they are tried.
Offers == {s \in UNION {[1 .. n -> Transforms] : n \in 0 .. MaxTransforms} :
              \A i, j \in DOMAIN s : i < j => Place[s[i].stage] <= Place[s[j].stage]}

\* Of several positions, or rungs, the first is tried first.
First(s) == CHOOSE i \in s : \A j \in s : i <= j

Positions(s) == {i \in DOMAIN lists : lists[i].stage = s}

SetupInit ==
    /\ high \in BOOLEAN /\ captureDevice \in BOOLEAN
    /\ lists \in Offers /\ crashed = {}
    /\ stage = "h264hw" /\ todo = {} /\ at = "enter" /\ rung = 1 /\ order = "input"
    /\ mft = 0 /\ codecType = 0 /\ size = 1
    /\ device = IF captureDevice THEN "capture" ELSE "none"
    /\ deviceManager = device

----------------------------------------------------------------------------

\* MFTEnumEx; of the software lists the transforms that know D3D11 are dropped.
\* Before the HEVC hardware list nothing is released.
EnterStage ==
    /\ at = "enter"
    /\ todo' = {i \in Positions(stage) : stage \in Hardware \/ ~lists[i].aware}
    /\ IF stage = "hevchw" THEN UNCHANGED <<mft, deviceManager>>
       ELSE mft' = 0 /\ deviceManager' = "none"
    /\ codecType' = IF stage \in {"h264hw", "h264sw"} THEN 0 ELSE codecType
    /\ at' = "candidate"
    /\ UNCHANGED <<high, captureDevice, lists, crashed, stage, rung, order, device, size>>

\* No transform of the list was configured.
NextStage ==
    /\ at = "candidate" /\ todo = {}
    /\ \/ /\ stage = "h264sw" /\ at' = "failed" /\ UNCHANGED stage
       \/ /\ stage # "h264sw" /\ at' = "enter"
          /\ stage' = CASE stage = "h264hw" -> IF high THEN "hevchw" ELSE "h264sw"
                        [] stage = "hevchw" -> "hevcsw"
                        [] OTHER -> "h264sw"
    /\ UNCHANGED <<high, captureDevice, lists, crashed, todo, rung, order, mft,
                   deviceVars, codecType, size>>

\* The next transform of the list, activated, goes on to ConfigureMediaTypes.
Configure(i) ==
    /\ mft' = i /\ at' = "configure" /\ rung' = 1 /\ order' = "input"
    /\ codecType' = IF Codec(stage) = 1 THEN 1 ELSE codecType
    /\ UNCHANGED crashed

Skip == UNCHANGED <<at, rung, order, codecType>>

\* SetupEncoderCandidate.  The transform takes a manager of the capture's
\* device, or of a device made for the probe, or none.  A manager that is
\* rejected in the probe is released twice, and where that raises an exception
\* the candidate is skipped, with the transform that was activated.
SetupHardware ==
    /\ at = "candidate" /\ stage \in Hardware /\ todo # {}
    /\ LET i == First(todo) IN
       /\ todo' = todo \ {i}
       /\ \/ /\ ~lists[i].loads
             /\ mft' = 0 /\ deviceManager' = "none" /\ Skip /\ UNCHANGED <<crashed, device>>
          \/ /\ lists[i].loads /\ Configure(i)
             /\ deviceManager' = "none" /\ UNCHANGED device
          \/ /\ lists[i].loads /\ lists[i].aware /\ captureDevice /\ Configure(i)
             /\ device' \in {"capture", "probe"} /\ deviceManager' = device'
          \/ /\ lists[i].loads /\ lists[i].aware /\ captureDevice
             /\ crashed' = crashed \cup {i}
             /\ mft' = i /\ deviceManager' = "none" /\ Skip /\ UNCHANGED device
    /\ UNCHANGED <<high, captureDevice, lists, stage, size>>

ActivateSoftware ==
    /\ at = "candidate" /\ stage \notin Hardware /\ todo # {}
    /\ LET i == First(todo) IN
       /\ todo' = todo \ {i}
       /\ IF lists[i].loads THEN Configure(i)
          ELSE mft' = 0 /\ Skip /\ UNCHANGED crashed
    /\ UNCHANGED <<high, captureDevice, lists, stage, deviceVars, size>>

\* TrySetInputType and TrySetOutputType, in the order of the attempt.
Accepts == rung \in lists[mft].rungs /\ order = lists[mft].order

NextRungInputFirst ==       \* mutant of NextRung: the second order is not tried
    IF rung < Rungs THEN /\ rung' = rung + 1 /\ UNCHANGED <<order, at, mft, codecType>>
    ELSE /\ at' = "candidate" /\ codecType' = 0 /\ UNCHANGED <<rung, order>>
         /\ mft' = IF stage \in Hardware THEN mft ELSE 0

\* After a refusal the other order, then the next rung; after the last the
\* transform is given up.
NextRung ==
    CASE order = "input" -> order' = "output" /\ UNCHANGED <<rung, at, mft, codecType>>
      [] order = "output" /\ rung < Rungs ->
            rung' = rung + 1 /\ order' = "input" /\ UNCHANGED <<at, mft, codecType>>
      [] OTHER -> /\ at' = "candidate" /\ codecType' = 0 /\ UNCHANGED <<rung, order>>
                  /\ mft' = IF stage \in Hardware THEN mft ELSE 0

\* FinalizeMediaTypes: the encoder's size is the one that was accepted.
Finalize ==
    /\ at' = "initialized" /\ size' = rung
    /\ UNCHANGED <<rung, order, mft, codecType>>

\* One attempt of ConfigureMediaTypes.
TryRung ==
    /\ at = "configure"
    /\ IF Accepts THEN Finalize ELSE NextRung /\ UNCHANGED size
    /\ UNCHANGED <<high, captureDevice, lists, crashed, stage, todo, deviceVars>>

SetupNext == EnterStage \/ NextStage \/ SetupHardware \/ ActivateSoftware \/ TryRung

----------------------------------------------------------------------------
(* Properties *)

SetupTypeOK ==
    /\ {high, captureDevice} \subseteq BOOLEAN
    /\ crashed \cup todo \subseteq DOMAIN lists /\ mft \in 0 .. Len(lists)
    /\ stage \in Stages /\ order \in {"input", "output"}
    /\ at \in {"enter", "candidate", "configure", "initialized", "failed", "running"}
    /\ {rung, size} \subseteq 1 .. Rungs /\ codecType \in {0, 1}
    /\ {device, deviceManager} \subseteq {"none", "capture", "probe"}

\* The transforms that could be used, but for those whose set-up crashed.
Usable == {i \in DOMAIN lists :
              /\ lists[i].loads /\ lists[i].rungs # {} /\ i \notin crashed
              /\ high \/ lists[i].stage \in {"h264hw", "h264sw"}
              /\ lists[i].stage \in Hardware \/ ~lists[i].aware}

\* Initialize fails only when no transform could be used, and else ends with the
\* first of them in the order of Place, at the largest resolution it takes: H.264
\* hardware, above 1080p then HEVC hardware and HEVC software, and H.264 software
\* last; codecType, which is told to the viewer, is the codec of
\* that transform and not of one that was tried before it.  The manager it was
\* given, if any, is of the device that frames are converted on.
FirstThatWorks ==
    /\ at = "failed" => Usable = {}
    /\ at = "initialized" =>
          /\ mft = First(Usable)
          /\ size = First(lists[mft].rungs)
          /\ codecType = Codec(lists[mft].stage)
          /\ deviceManager \in {"none", device}

\* The comment at MfVideoEncoder.cpp:240: "For resolutions above 1080p, try HEVC
\* first".  The code does not, as its later comment at :251 says.
HevcFirst ==
    at = "initialized" /\ high /\ (\E i \in Usable : Codec(lists[i].stage) = 1)
        => Codec(lists[mft].stage) = 1
=============================================================================
