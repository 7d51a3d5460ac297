------------------------- MODULE VideoEncoderProofs -------------------------
(***************************************************************************)
(* What is proved of the video encoder for every bound, every look-ahead   *)
(* and every interval of key frames: that no frame is encoded twice or out *)
(* of order, and that a key frame that is needed is on its way; and of its *)
(* set-up, for any transforms and rungs, that the first one that works is  *)
(* chosen.                                                                 *)
(***************************************************************************)
EXTENDS VideoEncoder, WellFoundedInduction, TLAPS

\* What a transform keeps.
Kept == [frame : 1 .. Rest, key : BOOLEAN]

\* The types of what the encode thread and the transform work on.
StreamTypes ==
    /\ frame \in 0 .. Rest /\ lastOut \in 0 .. Rest
    /\ inside \in Seq(Kept) /\ ready \in 0 .. Len(inside)
    /\ forceKey \in BOOLEAN /\ fresh \in BOOLEAN
    /\ needKeyFrame \in BOOLEAN /\ keyLost \in BOOLEAN
    /\ step \in {"idle", "convert", "stage", "upload", "take", "drain"} \cup Feeding
    /\ step # "idle" => frame \in 1 .. Rest

\* The steps in which the transform has not accepted the frame yet.
Unfed == {"convert", "stage", "upload"} \cup Feeding

\* n is the number of a frame that came before the one that is to be fed.
Older(n) == n <= frame /\ (step \in Unfed /\ frame # Rest => n < frame)

\* Frames are in the order in which they came, behind those that left.
OrderInv ==
    /\ Older(lastOut)
    /\ \A i \in DOMAIN inside :
          /\ Older(inside[i].frame)
          /\ inside[i].frame > lastOut \/ inside[i].frame = Rest
          /\ \A j \in 1 .. i - 1 :
                inside[j].frame < inside[i].frame \/ inside[i].frame = Rest

----------------------------------------------------------------------------
(* The transform's queue *)

LEMMA RestIsNat == Rest \in Nat /\ Rest >= 1
BY EncoderAssumption DEF Rest

\* The frame a step is about is accepted, or the steps that do not touch what
\* the transform keeps.
Untouched == UNCHANGED <<inside, ready, forceKey, fresh, lastOut>>

\* The first of a sequence leaves it.
LEMMA TailFacts ==
  ASSUME NEW s \in Seq(Kept), s # <<>>
  PROVE  /\ Head(s) \in Kept /\ Head(s) = s[1]
         /\ Tail(s) \in Seq(Kept) /\ Len(Tail(s)) = Len(s) - 1 /\ Len(s) \in Nat \ {0}
         /\ \A i \in 1 .. Len(s) - 1 : Tail(s)[i] = s[i + 1]
OBVIOUS

LEMMA EmptyFacts == <<>> \in Seq(Kept) /\ Len(<<>>) = 0
OBVIOUS

\* The numbers of the frames that are kept.
LEMMA KeptFacts ==
  ASSUME NEW s \in Seq(Kept)
  PROVE  /\ DOMAIN s = 1 .. Len(s)
         /\ \A i \in 1 .. Len(s) : s[i].frame \in 1 .. Rest
<1>1. DOMAIN s = 1 .. Len(s) /\ \A i \in 1 .. Len(s) : s[i] \in Kept
  OBVIOUS
<1>2. \A e \in Kept : e.frame \in 1 .. Rest
  BY DEF Kept
<1> QED BY <1>1, <1>2

LEMMA AppendFacts ==
  ASSUME NEW s \in Seq(Kept), NEW e \in Kept
  PROVE  /\ Append(s, e) \in Seq(Kept) /\ Len(Append(s, e)) = Len(s) + 1 /\ Len(s) \in Nat
         /\ Append(s, e)[Len(s) + 1] = e
         /\ \A i \in 1 .. Len(s) : Append(s, e)[i] = s[i]
OBVIOUS

----------------------------------------------------------------------------
(* What a step does, in one of five ways *)

\* What the transform keeps is left alone, and the frame if it is not a new one.
Quiet ==
    /\ Untouched /\ UNCHANGED <<frame, needKeyFrame, keyLost>>
    /\ step' \in Unfed => step \in Unfed
    /\ step' # "idle" => step # "idle"
    /\ step' \in {"idle", "convert", "stage", "upload", "take", "drain"} \cup Feeding

LEMMA StepIsOfAKind ==
  ASSUME StreamTypes, [Next]_vars
  PROVE  Quiet \/ NextFrame \/ Fed \/ HandOver \/ Discard
<1> USE DEF Quiet, Untouched, StreamTypes, Unfed, Feeding, mftVars, keyVars, history
<1>1. CASE Setup \/ UNCHANGED vars
  BY <1>1 DEF Setup, encVars, vars
<1>2. CASE Start
  BY <1>2 DEF Start
<1>3. CASE ConvertTexture \/ TextureNotConverted
  BY <1>3 DEF ConvertTexture, TextureNotConverted, GoTo
<1>4. CASE Stage \/ StageFails
  BY <1>4 DEF Stage, StageFails, GoTo, End
<1>5. CASE Upload \/ NotUploaded
  BY <1>5 DEF Upload, NotUploaded, GoTo
<1>6. CASE Refused
  BY <1>6 DEF Refused, GoTo, End
<1>7. CASE FeedFails
  BY <1>7 DEF FeedFails, GoTo, End
<1>8. CASE NothingTaken
  BY <1>8 DEF NothingTaken, End
<1> QED BY <1>1, <1>2, <1>3, <1>4, <1>5, <1>6, <1>7, <1>8 DEF Next, EncodeStep

\* What an output that is handed over leaves in the transform.
LEMMA AccountKinds ==
  ASSUME StreamTypes, HandOver
  PROVE  /\ inside # <<>>
         /\ \/ inside' = Tail(inside) /\ ready' = ready - 1
            \/ inside' = <<>> /\ ready' = 0
         /\ needKeyFrame' \in BOOLEAN /\ forceKey' \in BOOLEAN /\ fresh' \in BOOLEAN
<1>1. inside # <<>>
  BY DEF HandOver, StreamTypes
<1> QED BY <1>1 DEF HandOver, Account, ForceKey, StreamTypes

LEMMA AcceptKinds ==
  ASSUME StreamTypes, Fed
  PROVE  \E e \in Kept : /\ inside' = Append(inside, e) /\ e.frame = frame
                         /\ forceKey = TRUE \/ fresh = TRUE => e.key = TRUE
                         /\ ready' \in ready .. Len(inside')
<1>1. PICK k \in BOOLEAN : /\ inside' = Append(inside, [frame |-> frame, key |-> k])
                           /\ forceKey = TRUE \/ fresh = TRUE => k = TRUE
                           /\ ready' \in ready .. Len(inside')
  BY DEF Fed, Accept
<1>2. frame \in 1 .. Rest
  BY DEF StreamTypes, Fed, Feeding
<1>3. [frame |-> frame, key |-> k] \in Kept
  BY <1>2 DEF Kept
<1> QED BY <1>1, <1>3

----------------------------------------------------------------------------
(* Types *)

LEMMA TypesStep ==
  ASSUME StreamTypes, [Next]_vars
  PROVE  StreamTypes'
<1> USE DEF StreamTypes
<1>1. CASE Quiet
  BY <1>1 DEF Quiet, Untouched, Unfed, Feeding
<1>2. CASE NextFrame
  BY <1>2, RestIsNat DEF NextFrame, mftVars, keyVars, history, Rest, Feeding
<1>3. CASE Fed
  <2>1. PICK e \in Kept : inside' = Append(inside, e) /\ ready' \in ready .. Len(inside')
    BY <1>3, AcceptKinds
  <2>3. inside' \in Seq(Kept) /\ Len(inside') = Len(inside) + 1 /\ Len(inside) \in Nat
    BY <2>1, AppendFacts
  <2>4. ready' \in 0 .. Len(inside')
    BY <2>1, <2>3
  <2>5. UNCHANGED <<frame, lastOut, needKeyFrame, keyLost>> /\ step' = "take"
    BY <1>3 DEF Fed, GoTo, keyVars, history
  <2>6. forceKey' = FALSE /\ fresh' = FALSE
    BY <1>3 DEF Fed, Accept
  <2>7. frame \in 1 .. Rest
    BY <1>3 DEF Fed, Feeding
  <2> QED BY <2>3, <2>4, <2>5, <2>6, <2>7
<1>4. CASE HandOver
  <2>1. /\ inside # <<>>
        /\ \/ inside' = Tail(inside) /\ ready' = ready - 1
           \/ inside' = <<>> /\ ready' = 0
        /\ needKeyFrame' \in BOOLEAN /\ forceKey' \in BOOLEAN /\ fresh' \in BOOLEAN
    BY <1>4, AccountKinds
  <2>2. /\ Head(inside) \in Kept
        /\ Tail(inside) \in Seq(Kept) /\ Len(Tail(inside)) = Len(inside) - 1
        /\ Len(inside) \in Nat \ {0}
    BY <2>1, TailFacts
  <2>3. inside' \in Seq(Kept) /\ ready' \in 0 .. Len(inside')
    <3>1. ready \in 1 .. Len(inside)
      BY <1>4, <2>2 DEF HandOver
    <3>2. CASE inside' = Tail(inside) /\ ready' = ready - 1
      BY <2>2, <3>1, <3>2
    <3>3. CASE inside' = <<>> /\ ready' = 0
      BY <3>3, EmptyFacts
    <3> QED BY <2>1, <3>2, <3>3
  <2>4. lastOut' \in 0 .. Rest
    BY <1>4, <2>2, RestIsNat DEF HandOver, Kept
  <2> QED BY <1>4, <2>1, <2>3, <2>4 DEF HandOver, End, Feeding
<1>5. CASE Discard
  <2>1. inside # <<>>
    BY <1>5 DEF Discard, Emit
  <2>2. /\ Head(inside) \in Kept
        /\ Tail(inside) \in Seq(Kept) /\ Len(Tail(inside)) = Len(inside) - 1
        /\ Len(inside) \in Nat \ {0}
    BY <2>1, TailFacts
  <2>3. inside' \in Seq(Kept) /\ ready' \in 0 .. Len(inside')
    BY <1>5, <2>2 DEF Discard, Emit
  <2>4. lastOut' \in 0 .. Rest /\ keyLost' \in BOOLEAN
    BY <1>5, <2>2, RestIsNat DEF Discard, Emit, Kept
  <2> QED BY <1>5, <2>3, <2>4 DEF Discard, End, keyVars, Feeding
<1> QED BY <1>1, <1>2, <1>3, <1>4, <1>5, StepIsOfAKind

LEMMA TypesInit == Init => StreamTypes
<1>1. SUFFICES ASSUME Init PROVE StreamTypes
  OBVIOUS
<1>2. inside = <<>> /\ ready = 0
  BY <1>1 DEF Init
<1>3. inside \in Seq(Kept) /\ ready \in 0 .. Len(inside)
  BY <1>2, EmptyFacts
<1>4. frame = 0 /\ lastOut = 0 /\ step = "idle"
  BY <1>1 DEF Init
<1>5. forceKey = FALSE /\ fresh = TRUE /\ needKeyFrame = TRUE /\ keyLost = FALSE
  BY <1>1 DEF Init
<1>6. frame \in 0 .. Rest /\ lastOut \in 0 .. Rest
  BY <1>4, RestIsNat
<1>7. step \in {"idle", "convert", "stage", "upload", "take", "drain"} \cup Feeding
  BY <1>4
<1> QED BY <1>3, <1>4, <1>5, <1>6, <1>7 DEF StreamTypes

----------------------------------------------------------------------------
(* Order *)

LEMMA OrderInit == Init => OrderInv
BY RestIsNat DEF Init, OrderInv, Older, Unfed, Feeding

LEMMA OrderStep ==
  ASSUME StreamTypes, StreamTypes', OrderInv, [Next]_vars
  PROVE  OrderInv'
<1> USE RestIsNat
<1>1. CASE Quiet
  <2>1. \A n \in 0 .. Rest : Older(n) => Older(n)'
    BY <1>1 DEF Quiet, Older
  <2>2. \A i \in DOMAIN inside : inside[i].frame \in 0 .. Rest
    BY KeptFacts DEF StreamTypes
  <2>3. lastOut' = lastOut /\ inside' = inside /\ lastOut \in 0 .. Rest
    BY <1>1 DEF Quiet, Untouched, StreamTypes
  <2> QED BY <2>1, <2>2, <2>3 DEF OrderInv, Older
<1>2. CASE NextFrame
  <2>1. inside' = inside /\ lastOut' = lastOut /\ frame \in 0 .. Rest
    BY <1>2 DEF NextFrame, mftVars, history, StreamTypes
  <2>2. frame' = IF frame < Rest THEN frame + 1 ELSE Rest
    BY <1>2 DEF NextFrame
  <2>3. \A n \in 0 .. Rest : n <= frame => n <= frame' /\ (frame' # Rest => n < frame')
    BY <2>1, <2>2
  <2>4. \A i \in DOMAIN inside : inside[i].frame \in 0 .. Rest
    BY KeptFacts DEF StreamTypes
  <2>5. lastOut \in 0 .. Rest
    BY DEF StreamTypes
  <2> QED BY <2>1, <2>3, <2>4, <2>5 DEF OrderInv, Older
<1>3. CASE Fed
  <2>2. PICK e \in Kept : inside' = Append(inside, e) /\ e.frame = frame
    BY <1>3, AcceptKinds
  <2>3. /\ Len(inside') = Len(inside) + 1 /\ Len(inside) \in Nat
        /\ inside'[Len(inside) + 1] = e
        /\ \A i \in 1 .. Len(inside) : inside'[i] = inside[i]
    BY <2>2, AppendFacts DEF StreamTypes
  <2>4. frame' = frame /\ lastOut' = lastOut /\ step' = "take" /\ step \in Unfed
    BY <1>3 DEF Fed, GoTo, history, Unfed
  <2>5. /\ Older(lastOut) /\ lastOut \in 0 .. Rest /\ frame \in 1 .. Rest
        /\ \A i \in 1 .. Len(inside) : Older(inside[i].frame) /\ inside[i].frame \in 1 .. Rest
    BY <1>3, KeptFacts DEF OrderInv, StreamTypes, Fed, Feeding
  <2>6. DOMAIN inside = 1 .. Len(inside) /\ DOMAIN inside' = 1 .. Len(inside) + 1
    BY <2>3 DEF StreamTypes
  <2>7. \A n \in 0 .. Rest : Older(n)' <=> n <= frame
    BY <2>4 DEF Older, Unfed, Feeding
  <2>8. ASSUME NEW i \in DOMAIN inside'
        PROVE  /\ Older(inside[i].frame)'
               /\ inside'[i].frame > lastOut' \/ inside'[i].frame = Rest
               /\ \A j \in 1 .. i - 1 :
                     inside'[j].frame < inside'[i].frame \/ inside'[i].frame = Rest
    <3>1. CASE i = Len(inside) + 1
      <4>1. inside'[i].frame = frame
        BY <3>1, <2>2, <2>3
      <4>2. \A j \in 1 .. i - 1 : inside'[j] = inside[j] /\ Older(inside[j].frame)
        BY <3>1, <2>3, <2>5
      <4> QED BY <4>1, <4>2, <2>4, <2>5, <2>7 DEF Older
    <3>2. CASE i \in 1 .. Len(inside)
      <4>1. \A j \in 1 .. i : inside'[j] = inside[j]
        BY <3>2, <2>3
      <4>2. /\ inside[i].frame > lastOut \/ inside[i].frame = Rest
            /\ \A j \in 1 .. i - 1 : inside[j].frame < inside[i].frame \/ inside[i].frame = Rest
        BY <3>2, <2>6 DEF OrderInv
      <4> QED BY <3>2, <4>1, <4>2, <2>4, <2>5, <2>7 DEF Older
    <3> QED BY <3>1, <3>2, <2>3, <2>6
  <2>9. Older(lastOut)'
    BY <2>4, <2>5, <2>7 DEF Older
  <2> QED BY <2>8, <2>9 DEF OrderInv
<1>4. CASE HandOver \/ Discard
  <2>1. inside # <<>> /\ (inside' = Tail(inside) \/ inside' = <<>>)
    BY <1>4, AccountKinds DEF Discard, Emit, StreamTypes
  <2>2. frame' = frame /\ lastOut' = Head(inside).frame /\ step' = "idle"
    BY <1>4 DEF HandOver, Discard, Emit, End
  <2>3. /\ Head(inside) = inside[1] /\ Len(Tail(inside)) = Len(inside) - 1
        /\ Len(inside) \in Nat \ {0} /\ Tail(inside) \in Seq(Kept)
        /\ \A i \in 1 .. Len(inside) - 1 : Tail(inside)[i] = inside[i + 1]
    BY <2>1, TailFacts DEF StreamTypes
  <2>4. DOMAIN inside = 1 .. Len(inside) /\ DOMAIN Tail(inside) = 1 .. Len(inside) - 1
    BY <2>3 DEF StreamTypes
  <2>5. \A i \in 1 .. Len(inside) : inside[i].frame \in 1 .. Rest /\ inside[i].frame <= frame
    BY <2>4, KeptFacts DEF StreamTypes, OrderInv, Older
  <2>6. \A n \in 0 .. Rest : n <= frame => Older(n)'
    BY <2>2 DEF Older, Unfed, Feeding
  <2>7. Older(lastOut)'
    BY <2>2, <2>3, <2>5, <2>6 DEF Older
  <2>8. CASE inside' = <<>>
    BY <2>7, <2>8 DEF OrderInv
  <2>9. CASE inside' = Tail(inside)
    <3>1. ASSUME NEW i \in 1 .. Len(inside) - 1
          PROVE  /\ Older(inside[i].frame)'
                 /\ inside'[i].frame > lastOut' \/ inside'[i].frame = Rest
                 /\ \A j \in 1 .. i - 1 :
                       inside'[j].frame < inside'[i].frame \/ inside'[i].frame = Rest
      <4>1. \A j \in 1 .. i : inside'[j] = inside[j + 1] /\ j + 1 \in 1 .. Len(inside)
        BY <2>3, <2>9, <3>1
      <4>2. \A j \in 1 .. i : inside[j].frame < inside[i + 1].frame \/ inside[i + 1].frame = Rest
        BY <2>3, <2>4, <3>1 DEF OrderInv
      <4>3. i \in 1 .. i /\ 1 \in 1 .. i /\ \A j \in 1 .. i - 1 : j \in 1 .. i
        BY <2>3, <3>1
      <4>4. inside'[i] = inside[i + 1] /\ i + 1 \in 1 .. Len(inside)
        BY <4>1, <4>3
      <4>5. (Older(inside[i].frame))'
        BY <4>4, <2>2, <2>5 DEF Older, Unfed, Feeding
      <4>6. inside'[i].frame > lastOut' \/ inside'[i].frame = Rest
        BY <4>2, <4>3, <4>4, <2>2, <2>3, <2>5
      <4>7. \A j \in 1 .. i - 1 :
               inside'[j].frame < inside'[i].frame \/ inside'[i].frame = Rest
        <5>1. SUFFICES ASSUME NEW j \in 1 .. i - 1
                       PROVE  inside'[j].frame < inside'[i].frame \/ inside'[i].frame = Rest
          OBVIOUS
        <5>2. j + 1 \in 1 .. i /\ j \in 1 .. i
          BY <2>3, <3>1, <5>1
        <5> QED BY <4>1, <4>2, <4>4, <5>2
      <4> QED BY <4>5, <4>6, <4>7
    <3> QED BY <2>4, <2>7, <2>9, <3>1 DEF OrderInv
  <2> QED BY <2>1, <2>8, <2>9
<1> QED BY <1>1, <1>2, <1>3, <1>4, StepIsOfAKind

\* For every bound no frame is encoded twice and none out of order.
THEOREM NothingIsEncodedTwice == Spec => []NothingTwice
<1>1. Init => StreamTypes /\ OrderInv
  BY TypesInit, OrderInit
<1>2. StreamTypes /\ OrderInv /\ [Next]_vars => (StreamTypes /\ OrderInv)'
  BY TypesStep, OrderStep
<1>3. StreamTypes /\ OrderInv => NothingTwice
  BY DEF OrderInv, NothingTwice
<1> QED BY <1>1, <1>2, <1>3, PTL DEF Spec

----------------------------------------------------------------------------
(* Key frames *)

LEMMA KeyStep ==
  ASSUME StreamTypes, KeyOnItsWay, [Next]_vars
  PROVE  KeyOnItsWay'
<1>1. CASE Quiet \/ NextFrame
  BY <1>1 DEF Quiet, Untouched, NextFrame, mftVars, keyVars, history, KeyOnItsWay
<1>2. CASE Fed
  <2>1. PICK e \in Kept : /\ inside' = Append(inside, e)
                          /\ forceKey = TRUE \/ fresh = TRUE => e.key = TRUE
    BY <1>2, AcceptKinds
  <2>3. /\ Len(inside') = Len(inside) + 1 /\ Len(inside) \in Nat
        /\ inside'[Len(inside) + 1] = e /\ inside' \in Seq(Kept)
        /\ \A i \in 1 .. Len(inside) : inside'[i] = inside[i]
    BY <2>1, AppendFacts DEF StreamTypes
  <2>4. DOMAIN inside = 1 .. Len(inside) /\ DOMAIN inside' = 1 .. Len(inside) + 1
    BY <2>3, KeptFacts DEF StreamTypes
  <2>5. UNCHANGED <<needKeyFrame, keyLost>>
    BY <1>2 DEF Fed, keyVars, history
  <2>6. CASE forceKey = TRUE \/ fresh = TRUE
    BY <2>1, <2>3, <2>4, <2>6 DEF KeyOnItsWay
  <2>7. CASE \E i \in DOMAIN inside : inside[i].key
    BY <2>3, <2>4, <2>7 DEF KeyOnItsWay
  <2> QED BY <2>5, <2>6, <2>7 DEF KeyOnItsWay, StreamTypes
<1>3. CASE HandOver
  BY <1>3 DEF HandOver, Account, ForceKey, KeyOnItsWay
<1>4. CASE Discard
  <2>1. /\ inside # <<>> /\ inside' = Tail(inside)
        /\ UNCHANGED <<forceKey, fresh, needKeyFrame>>
        /\ keyLost' = (keyLost \/ Head(inside).key)
    BY <1>4 DEF Discard, Emit, keyVars, StreamTypes
  <2>2. /\ Head(inside) = inside[1] /\ Len(Tail(inside)) = Len(inside) - 1
        /\ Len(inside) \in Nat \ {0} /\ Tail(inside) \in Seq(Kept)
        /\ \A i \in 1 .. Len(inside) - 1 : Tail(inside)[i] = inside[i + 1]
    BY <2>1, TailFacts DEF StreamTypes
  <2>3. DOMAIN inside = 1 .. Len(inside) /\ DOMAIN inside' = 1 .. Len(inside) - 1
    BY <2>1, <2>2 DEF StreamTypes
  <2>4. SUFFICES ASSUME needKeyFrame, ~keyLost, ~Head(inside).key,
                        NEW i \in DOMAIN inside, inside[i].key
                 PROVE  \E j \in DOMAIN inside' : inside'[j].key
    BY <2>1 DEF KeyOnItsWay
  <2>5. i - 1 \in DOMAIN inside' /\ inside'[i - 1] = inside[i]
    BY <2>1, <2>2, <2>3, <2>4
  <2> QED BY <2>4, <2>5
<1> QED BY <1>1, <1>2, <1>3, <1>4, StepIsOfAKind

\* For every bound and every interval of key frames, a key frame that is needed is
\* on its way unless one was lost.
THEOREM KeyFramesComeAsNeeded == Spec => []KeyOnItsWay
<1>1. Init => StreamTypes /\ KeyOnItsWay
  BY TypesInit DEF Init, KeyOnItsWay
<1>2. StreamTypes /\ KeyOnItsWay /\ [Next]_vars => (StreamTypes /\ KeyOnItsWay)'
  BY TypesStep, KeyStep
<1> QED BY <1>1, <1>2, PTL DEF Spec

----------------------------------------------------------------------------
(* The set-up: the first transform that works is chosen *)

\* Of numbers there is a first.
LEMMA FirstFacts ==
  ASSUME NEW S, S \subseteq Nat, S # {}
  PROVE  First(S) \in S /\ \A j \in S : First(S) <= j
<1>1. PICK x \in S : \A y \in S : <<y, x>> \notin OpToRel(<, Nat)
  BY NatLessThanWellFounded, WFMin
<1>2. ASSUME NEW y \in S PROVE x <= y
  <2>1. x \in Nat /\ y \in Nat
    OBVIOUS
  <2>2. y < x => <<y, x>> \in OpToRel(<, Nat)
    BY <2>1 DEF OpToRel
  <2>3. ~(y < x)
    BY <1>1, <2>2, Zenon
  <2> QED BY <2>1, <2>3
<1> QED BY <1>2 DEF First

LEMMA FirstIs ==
  ASSUME NEW S, S \subseteq Nat, NEW x \in S, \A y \in S : x <= y
  PROVE  First(S) = x
<1>1. First(S) \in S /\ First(S) <= x
  BY FirstFacts
<1>2. x <= First(S) /\ x \in Nat /\ First(S) \in Nat
  BY <1>1
<1> QED BY <1>1, <1>2

\* What is known of a transform.
LEMMA TransformFacts ==
  ASSUME NEW t \in Transforms
  PROVE  /\ t.stage \in Stages /\ t.rungs \subseteq 1 .. Rungs
         /\ t.order \in {"input", "output"}
<1>1. CASE t \in [stage : Stages, loads : {FALSE}, aware : {FALSE}, rungs : {{}}, order : {"input"}]
  BY <1>1
<1>2. CASE t \in [stage : Stages, loads : {TRUE}, aware : {FALSE},
                  rungs : {{}, {Rungs}, 1 .. Rungs}, order : {"input", "output"}]
  <2>1. t.rungs \in {{}, {Rungs}, 1 .. Rungs} /\ Rungs \in 1 .. Rungs
    BY <1>2, SetupAssumption
  <2> QED BY <1>2, <2>1
<1>3. CASE t \in [stage : Stages, loads : {TRUE}, aware : {TRUE},
                  rungs : {1 .. Rungs}, order : {"input"}]
  BY <1>3
<1> QED BY <1>1, <1>2, <1>3 DEF Transforms

LEMMA PlaceFacts ==
  /\ \A s \in Stages : Place[s] \in 1 .. 4
  /\ \A s \in Stages, t \in Stages : Place[s] = Place[t] => s = t
  /\ Place["h264hw"] = 1 /\ Place["hevchw"] = 2 /\ Place["hevcsw"] = 3 /\ Place["h264sw"] = 4
BY DEF Place, Stages

\* The lists are in the order in which they are tried; what is left to try is of
\* the list that is tried.
SetupTypes ==
    /\ DOMAIN lists \subseteq Nat /\ \A i \in DOMAIN lists : lists[i] \in Transforms
    /\ \A i, j \in DOMAIN lists : i < j => Place[lists[i].stage] <= Place[lists[j].stage]
    /\ high \in BOOLEAN /\ stage \in Stages /\ order \in {"input", "output"}
    /\ rung \in 1 .. Rungs /\ codecType \in {0, 1}
    /\ ~high => stage \in {"h264hw", "h264sw"}
    /\ todo \subseteq {i \in Positions(stage) : stage \in Hardware \/ ~lists[i].aware}
    /\ deviceManager \in {"none", device}

\* A transform that could be used is yet to be tried, is in a list that is yet
\* to be tried, or is being tried.
NothingPassedOver ==
    at \in {"enter", "candidate", "configure"} =>
        \A i \in Usable : \/ Place[lists[i].stage] > Place[stage]
                          \/ i \in todo
                          \/ at = "enter" /\ lists[i].stage = stage
                          \/ at = "configure" /\ i = mft

\* A set-up that crashed is behind.
CrashedBehind ==
    \A i \in crashed : /\ i \in DOMAIN lists /\ i \notin todo
                       /\ Place[lists[i].stage] <= Place[stage]
                       /\ at = "enter" => lists[i].stage # stage
                       /\ at = "configure" => i # mft

\* The transform being tried is before those that are left; it has taken no rung
\* before this one, and not this one with its input type first.
Attempt ==
    /\ at = "candidate" /\ stage \in {"h264hw", "h264sw"} => codecType = 0
    /\ at = "configure" =>
          /\ mft \in Positions(stage) /\ lists[mft].loads
          /\ stage \in Hardware \/ ~lists[mft].aware
          /\ \A i \in todo : mft < i
          /\ codecType = Codec(stage)
          /\ \A r \in lists[mft].rungs : r >= rung
          /\ order = "output" => rung \notin lists[mft].rungs \/ lists[mft].order = "output"

SetupInv == SetupTypes /\ NothingPassedOver /\ CrashedBehind /\ Attempt /\ FirstThatWorks

LEMMA InitSetup == Init => SetupInv
<1> SUFFICES ASSUME Init PROVE SetupInv
  OBVIOUS
<1> USE DEF Init, SetupInit
<1>1. PICK n \in 0 .. MaxTransforms : lists \in [1 .. n -> Transforms]
  BY DEF Offers
<1>2. SetupTypes
  BY <1>1, SetupAssumption DEF SetupTypes, Offers, Stages
<1>3. NothingPassedOver
  <2>1. ASSUME NEW i \in Usable
        PROVE  Place[lists[i].stage] > Place[stage] \/ lists[i].stage = stage
    <3>1. lists[i].stage \in Stages
      BY <1>1, TransformFacts DEF Usable
    <3> QED BY <3>1, PlaceFacts DEF Stages
  <2> QED BY <2>1 DEF NothingPassedOver
<1> QED BY <1>2, <1>3 DEF SetupInv, CrashedBehind, Attempt, FirstThatWorks

\* A list is entered.
LEMMA EnterStageStep ==
  ASSUME SetupInv, EnterStage
  PROVE  SetupInv'
<1> USE DEF SetupInv, EnterStage, SetupTypes
<1>1. SetupTypes'
  BY DEF Positions, deviceVars
<1>2. Usable' = Usable
  BY DEF Usable
<1>3. NothingPassedOver'
  BY <1>2 DEF NothingPassedOver, Positions, Usable
<1>4. CrashedBehind' /\ Attempt' /\ FirstThatWorks'
  BY DEF CrashedBehind, Attempt, FirstThatWorks, Positions
<1> QED BY <1>1, <1>3, <1>4

\* A list is left, for the next one or for good.
LEMMA NextStageStep ==
  ASSUME SetupInv, NextStage
  PROVE  SetupInv'
<1> USE DEF SetupInv
<1>1. /\ at = "candidate" /\ todo = {} /\ todo' = {}
      /\ UNCHANGED <<high, lists, crashed, rung, order, mft, device, deviceManager, codecType, size>>
      /\ \/ stage = "h264sw" /\ at' = "failed" /\ stage' = stage
         \/ /\ stage # "h264sw" /\ at' = "enter"
            /\ \/ stage = "h264hw" /\ stage' = IF high THEN "hevchw" ELSE "h264sw"
               \/ stage = "hevchw" /\ stage' = "hevcsw"
               \/ stage = "hevcsw" /\ stage' = "h264sw"
  BY DEF NextStage, deviceVars, SetupTypes, Stages
<1>2. Usable' = Usable
  BY <1>1 DEF Usable
<1>3. \A i \in Usable : /\ lists[i].stage \in Stages /\ Place[lists[i].stage] > Place[stage]
                        /\ high \/ lists[i].stage \in {"h264hw", "h264sw"}
  BY <1>1, TransformFacts DEF NothingPassedOver, SetupTypes, Usable
<1>4. SetupTypes'
  BY <1>1 DEF SetupTypes, Stages
<1>5. NothingPassedOver' /\ (at' = "failed" => Usable' = {})
  BY <1>1, <1>2, <1>3, PlaceFacts DEF NothingPassedOver, Stages
<1>6. CrashedBehind'
  <2>1. ASSUME NEW i \in crashed
        PROVE  /\ i \in DOMAIN lists /\ lists[i].stage \in Stages
               /\ Place[lists[i].stage] <= Place[stage]
    BY TransformFacts DEF CrashedBehind, SetupTypes
  <2> QED BY <1>1, <2>1, PlaceFacts DEF CrashedBehind, Stages
<1>7. Attempt' /\ FirstThatWorks'
  BY <1>1, <1>5 DEF Attempt, FirstThatWorks
<1> QED BY <1>4, <1>5, <1>6, <1>7

\* A transform is passed over, or crashes, or goes on to its media types.
TryOne(i) ==
    /\ at = "candidate" /\ i = First(todo) /\ todo # {} /\ todo' = todo \ {i}
    /\ UNCHANGED <<high, lists, stage, size>>
    /\ deviceManager' \in {"none", device'}
    /\ \/ ~lists[i].loads /\ Skip /\ UNCHANGED crashed
       \/ lists[i].loads /\ Configure(i)
       \/ lists[i].loads /\ Skip /\ crashed' = crashed \cup {i}

LEMMA TryOneStep ==
  ASSUME SetupInv, NEW i, TryOne(i)
  PROVE  SetupInv'
<1> USE DEF SetupInv
<1>1. /\ at = "candidate" /\ i \in todo /\ todo' = todo \ {i}
      /\ \A j \in todo' : i < j
      /\ UNCHANGED <<high, lists, stage, size>>
  <2>1. todo \subseteq Nat /\ todo # {}
    BY DEF SetupTypes, Positions, TryOne
  <2>2. First(todo) \in todo /\ \A j \in todo : First(todo) <= j
    BY <2>1, FirstFacts
  <2>3. i = First(todo) /\ todo' = todo \ {i}
    BY DEF TryOne
  <2>4. ASSUME NEW j \in todo' PROVE i < j
    <3>1. j \in todo /\ j # i /\ j \in Nat /\ i \in Nat
      BY <2>1, <2>2, <2>3, Zenon
    <3>2. i <= j
      BY <2>2, <2>3, <3>1, Zenon
    <3> QED BY <3>1, <3>2
  <2> QED BY <2>2, <2>3, <2>4 DEF TryOne
<1>2. /\ i \in Positions(stage) /\ i \in Nat /\ (stage \in Hardware \/ ~lists[i].aware)
      /\ i \in DOMAIN lists /\ lists[i] \in Transforms /\ lists[i].stage = stage
      /\ lists[i].rungs \subseteq 1 .. Rungs /\ stage \in Stages
  BY <1>1, TransformFacts DEF SetupTypes, Positions
<1>3. SetupTypes'
  <2>1. rung' \in 1 .. Rungs /\ order' \in {"input", "output"} /\ codecType' \in {0, 1}
    BY SetupAssumption DEF SetupTypes, TryOne, Configure, Skip
  <2>2. deviceManager' \in {"none", device'} /\ Positions(stage)' = Positions(stage)
    BY <1>1 DEF TryOne, Positions
  <2> QED BY <1>1, <2>1, <2>2 DEF SetupTypes
<1>4. CASE ~lists[i].loads /\ Skip /\ UNCHANGED crashed
  <2>1. Usable' = Usable /\ i \notin Usable
    BY <1>1, <1>4 DEF Usable
  <2> QED BY <1>1, <1>3, <1>4, <2>1
          DEF Skip, NothingPassedOver, CrashedBehind, Attempt, FirstThatWorks
<1>5. CASE lists[i].loads /\ Configure(i)
  <2>1. /\ mft' = i /\ at' = "configure" /\ rung' = 1 /\ order' = "input"
        /\ UNCHANGED crashed /\ codecType' = Codec(stage)
    BY <1>1, <1>2, <1>5 DEF Configure, Codec, Attempt, Stages
  <2>2. Usable' = Usable
    BY <1>1, <2>1 DEF Usable
  <2>3. NothingPassedOver' /\ CrashedBehind'
    BY <1>1, <1>2, <2>1, <2>2 DEF NothingPassedOver, CrashedBehind
  <2>4. Attempt'
    BY <1>1, <1>2, <1>5, <2>1 DEF Attempt, Positions, Codec
  <2> QED BY <1>3, <2>1, <2>3, <2>4 DEF FirstThatWorks
<1>6. CASE lists[i].loads /\ Skip /\ crashed' = crashed \cup {i}
  <2>1. Usable' = Usable \ {i}
    BY <1>1, <1>6 DEF Usable
  <2>2. NothingPassedOver' /\ Attempt' /\ FirstThatWorks'
    BY <1>1, <1>6, <2>1 DEF Skip, NothingPassedOver, Attempt, FirstThatWorks
  <2>3. CrashedBehind'
    BY <1>1, <1>2, <1>6, PlaceFacts DEF Skip, CrashedBehind
  <2> QED BY <1>3, <2>2, <2>3
<1> QED BY <1>4, <1>5, <1>6 DEF TryOne

LEMMA IsTryOne ==
  ASSUME SetupInv, SetupHardware \/ ActivateSoftware
  PROVE  \E i : TryOne(i)
<1>1. CASE SetupHardware
  BY <1>1 DEF SetupHardware, TryOne, SetupInv, SetupTypes
<1>2. CASE ActivateSoftware
  <2>1. deviceManager' \in {"none", device'}
    BY <1>2 DEF ActivateSoftware, deviceVars, SetupInv, SetupTypes
  <2> QED BY <1>2, <2>1 DEF ActivateSoftware, TryOne
<1> QED BY <1>1, <1>2

\* A media type is accepted, or the next attempt follows.
LEMMA TryRungStep ==
  ASSUME SetupInv, TryRung
  PROVE  SetupInv'
<1> USE DEF SetupInv
<1>1. /\ at = "configure" /\ UNCHANGED <<high, lists, crashed, stage, todo, device, deviceManager>>
      /\ Usable' = Usable
  BY DEF TryRung, deviceVars, Usable
<1>2. /\ mft \in Positions(stage) /\ mft \in DOMAIN lists /\ mft \in Nat /\ lists[mft].loads
      /\ lists[mft].stage = stage /\ stage \in Stages
      /\ stage \in Hardware \/ ~lists[mft].aware
      /\ \A i \in todo : mft < i
      /\ codecType = Codec(stage)
      /\ rung \in 1 .. Rungs /\ Rungs \in Nat
      /\ \A r \in lists[mft].rungs : r >= rung
      /\ order = "output" => rung \notin lists[mft].rungs \/ lists[mft].order = "output"
      /\ lists[mft].rungs \subseteq 1 .. Rungs /\ lists[mft].order \in {"input", "output"}
      /\ order \in {"input", "output"}
  BY <1>1, TransformFacts, SetupAssumption DEF Attempt, SetupTypes, Positions
<1>3. CASE Accepts
  <2>1. /\ at' = "initialized" /\ size' = rung /\ UNCHANGED <<rung, order, mft, codecType>>
    BY <1>3 DEF TryRung, Finalize
  <2>2. size' = First(lists[mft].rungs)
    BY <1>2, <1>3, <2>1, FirstIs DEF Accepts
  <2>3. mft \in Usable
    BY <1>1, <1>2, <1>3 DEF Accepts, Usable, CrashedBehind, SetupTypes
  <2>4. ASSUME NEW i \in Usable PROVE mft <= i
    <3>1. /\ i \in DOMAIN lists /\ i \in Nat /\ lists[i].stage \in Stages
          /\ Place[lists[i].stage] > Place[stage] \/ i \in todo \/ i = mft
      BY <1>1, TransformFacts DEF NothingPassedOver, Usable, SetupTypes
    <3>2. CASE Place[lists[i].stage] > Place[stage]
      <4>1. i < mft => Place[lists[i].stage] <= Place[lists[mft].stage]
        BY <1>2, <3>1 DEF SetupTypes
      <4> QED BY <1>2, <3>1, <3>2, <4>1, PlaceFacts
    <3> QED BY <1>2, <3>1, <3>2
  <2>5. Usable \subseteq Nat
    BY DEF Usable, SetupTypes
  <2>6. mft = First(Usable)
    BY <2>3, <2>4, <2>5, FirstIs
  <2>7. FirstThatWorks'
    BY <1>1, <1>2, <2>1, <2>2, <2>6 DEF FirstThatWorks, SetupTypes
  <2>8. SetupTypes'
    BY <1>1, <2>1 DEF SetupTypes, Positions
  <2> QED BY <1>1, <2>1, <2>7, <2>8 DEF NothingPassedOver, CrashedBehind, Attempt
<1>4. CASE ~Accepts
  <2>1. rung \notin lists[mft].rungs \/ order # lists[mft].order
    BY <1>4 DEF Accepts
  <2>2. CASE order = "input"
    <3>1. order' = "output" /\ UNCHANGED <<rung, at, mft, codecType>>
      BY <1>4, <2>2 DEF TryRung, NextRung
    <3>2. SetupTypes' /\ NothingPassedOver' /\ CrashedBehind'
      BY <1>1, <3>1 DEF SetupTypes, NothingPassedOver, CrashedBehind, Positions
    <3>3. Attempt'
      BY <1>1, <1>2, <2>1, <2>2, <3>1 DEF Attempt, Positions
    <3> QED BY <1>1, <3>1, <3>2, <3>3 DEF FirstThatWorks
  <2>3. CASE order = "output" /\ rung < Rungs
    <3>1. rung' = rung + 1 /\ order' = "input" /\ UNCHANGED <<at, mft, codecType>>
      BY <1>4, <2>3 DEF TryRung, NextRung
    <3>2. SetupTypes' /\ NothingPassedOver' /\ CrashedBehind'
      BY <1>1, <1>2, <2>3, <3>1 DEF SetupTypes, NothingPassedOver, CrashedBehind, Positions
    <3>3. \A r \in lists[mft].rungs : r >= rung + 1
      BY <1>2, <2>1, <2>3
    <3>4. Attempt'
      BY <1>1, <1>2, <3>1, <3>3 DEF Attempt, Positions
    <3> QED BY <1>1, <3>1, <3>2, <3>4 DEF FirstThatWorks
  <2>4. CASE order = "output" /\ ~(rung < Rungs)
    <3>1. at' = "candidate" /\ codecType' = 0 /\ UNCHANGED <<rung, order>>
      BY <1>4, <2>4 DEF TryRung, NextRung
    <3>2. lists[mft].rungs = {}
      BY <1>2, <2>1, <2>4
    <3>3. NothingPassedOver'
      BY <1>1, <3>1, <3>2 DEF NothingPassedOver, Usable
    <3>4. SetupTypes' /\ CrashedBehind' /\ Attempt'
      BY <1>1, <3>1 DEF SetupTypes, CrashedBehind, Attempt, Positions
    <3> QED BY <3>1, <3>3, <3>4 DEF FirstThatWorks
  <2> QED BY <1>2, <2>2, <2>3, <2>4
<1> QED BY <1>3, <1>4

\* Every step keeps SetupInv; after the set-up there is nothing to keep.
LEMMA NextSetup == SetupInv /\ [Next]_vars => SetupInv'
<1> SUFFICES ASSUME SetupInv, [Next]_vars PROVE SetupInv'
  OBVIOUS
<1>1. CASE Setup
  BY <1>1, EnterStageStep, NextStageStep, TryOneStep, IsTryOne, TryRungStep DEF Setup, SetupNext
<1>2. CASE Start
  <2>1. /\ at' = "running" /\ lists' = <<>> /\ todo' = {} /\ crashed' = {} /\ high' = FALSE
        /\ rung' = 1 /\ order' = "input" /\ stage' = "h264hw"
        /\ UNCHANGED <<device, deviceManager, codecType>>
    BY <1>2 DEF Start, deviceVars
  <2>2. DOMAIN lists' = {}
    BY <2>1
  <2>3. SetupTypes'
    <3>1. 1 \in 1 .. Rungs /\ "h264hw" \in Stages
      BY SetupAssumption DEF Stages
    <3>2. codecType' \in {0, 1} /\ deviceManager' \in {"none", device'}
      BY <2>1 DEF SetupInv, SetupTypes
    <3> QED BY <2>1, <2>2, <3>1, <3>2 DEF SetupTypes
  <2> QED BY <2>1, <2>3
          DEF SetupInv, NothingPassedOver, CrashedBehind, Attempt, FirstThatWorks
<1>3. CASE UNCHANGED setupVars
  BY <1>3 DEF setupVars, deviceVars, SetupInv, SetupTypes, NothingPassedOver, CrashedBehind, Attempt,
              FirstThatWorks, Usable, Positions
<1>4. EncodeStep => UNCHANGED setupVars
  BY DEF EncodeStep, NextFrame, ConvertTexture, TextureNotConverted, Stage, StageFails, Upload,
         NotUploaded, Fed, Refused, FeedFails, HandOver, NothingTaken, Discard
<1> QED BY <1>1, <1>2, <1>3, <1>4 DEF Next, vars

\* Initialize, SetupEncoderCandidate and ConfigureMediaTypes: whatever transforms
\* there are and however many rungs, the first that can be used is chosen, with
\* the largest size it takes and the codec that is told to the viewer, and the
\* set-up fails only if there is none.
THEOREM FirstIsChosen == Spec => []FirstThatWorks
<1>1. SetupInv => FirstThatWorks
  BY DEF SetupInv
<1> QED BY <1>1, InitSetup, NextSetup, PTL DEF Spec
=============================================================================
