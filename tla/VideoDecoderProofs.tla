------------------------- MODULE VideoDecoderProofs -------------------------
(***************************************************************************)
(* What is proved of the video decoder for every bound and every           *)
(* look-ahead: that the references on the output textures are balanced,    *)
(* that a call returns the newest picture there is, and that a packet is   *)
(* fed again for a change of the stream only.                              *)
(***************************************************************************)
EXTENDS VideoDecoder, Integers, TLAPS

\* The types of what decides on the references.
HeldTypes ==
    /\ gpuDecodeAvailable \in BOOLEAN
    /\ inside \in Seq(1 .. Rest) /\ ready \in 0 .. Len(inside) /\ packet \in 0 .. Rest
    /\ step \in {"idle", "returned"} \cup Feeding \cup Draining
    /\ step # "idle" => packet \in 1 .. Rest
    /\ out.picture \in 0 .. Rest /\ latest.picture \in 0 .. Rest
    /\ refs \in [Numbered -> Int]

\* Before the set-up ends, which is when the path is chosen, nothing is held.
NothingHeldBefore ==
    at # "running" =>
        /\ step = "idle" /\ out.picture = 0 /\ latest.picture = 0
        /\ refs = [p \in Numbered |-> 0]

\* What a call has in hand where it forgets it: nothing, or a picture drained
\* after a refusal.
InHand ==
    gpuDecodeAvailable =>
        /\ step \in {"idle", "feed", "refeed"} => out.picture = 0
        /\ step \in {"retry", "drainFirst"} => out.picture \in {0} \cup early
        /\ step = "returned" /\ result # "ok" => out.picture \in {0} \cup early

IInv == HeldTypes /\ NothingHeldBefore /\ InHand /\ TexturesHeld

----------------------------------------------------------------------------
(* Arithmetic of the references *)

LEMMA RestIsNat == Rest \in Nat /\ Rest >= 1 /\ MaxPackets \in Nat
                   /\ Numbered \subseteq 1 .. Rest
BY DecoderAssumption DEF Rest, Numbered

One(b) == IF b THEN 1 ELSE 0

LEMMA AddRefCounts ==
  ASSUME NEW r \in [Numbered -> Int], NEW p
  PROVE  /\ AddRef(r, p) \in [Numbered -> Int]
         /\ gpuDecodeAvailable =>
               \A q \in Numbered : AddRef(r, p)[q] = r[q] + One(p = q)
BY DEF AddRef, Counted, One

LEMMA ReleaseCounts ==
  ASSUME NEW r \in [Numbered -> Int], NEW p
  PROVE  /\ Release(r, p) \in [Numbered -> Int]
         /\ gpuDecodeAvailable =>
               \A q \in Numbered : Release(r, p)[q] = r[q] - One(p = q)
BY DEF Release, Counted, One

----------------------------------------------------------------------------
(* The initial state, and the steps that leave textures alone *)

LEMMA InitHeld == Init => IInv
<1>1. SUFFICES ASSUME Init PROVE IInv
  OBVIOUS
<1>2. inside \in Seq(1 .. Rest) /\ Len(inside) = 0
  <2>1. inside = <<>>
    BY <1>1 DEF Init
  <2> QED BY <2>1
<1>3. /\ step = "idle" /\ ready = 0 /\ packet = 0 /\ gpuDecodeAvailable = FALSE
      /\ refs = [p \in Numbered |-> 0]
  BY <1>1 DEF Init
<1>4. out.picture = 0 /\ latest.picture = 0
  BY <1>1 DEF Init, None
<1>5. refs \in [Numbered -> Int]
  BY <1>3
<1>6. HeldTypes
  <2>1. ready \in 0 .. Len(inside) /\ packet \in 0 .. Rest
    BY <1>2, <1>3, RestIsNat
  <2>2. out.picture \in 0 .. Rest /\ latest.picture \in 0 .. Rest
    BY <1>4, RestIsNat
  <2> QED BY <1>2, <1>3, <1>5, <2>1, <2>2 DEF HeldTypes
<1> QED BY <1>3, <1>4, <1>6 DEF IInv, NothingHeldBefore, InHand, TexturesHeld

\* Who holds which texture is as it was.
Same == UNCHANGED <<gpuDecodeAvailable, out, latest, refs, early>>

LEMMA SameHeld ==
  ASSUME TexturesHeld, Same
  PROVE  TexturesHeld'
BY DEF TexturesHeld, Same, Holders

LEMMA SetupHeld ==
  ASSUME IInv, Setup
  PROVE  IInv'
<1> USE DEF IInv
<1>1. /\ at # "running" /\ UNCHANGED <<inside, ready, packet, step, out, latest, refs, early>>
      /\ gpuDecodeAvailable' \in BOOLEAN
  BY DEF Setup, Activate, SetTypes, SetDevice, mftVars, viewerVars, history, HeldTypes
<1>2. step = "idle" /\ out.picture = 0 /\ latest.picture = 0 /\ refs = [p \in Numbered |-> 0]
  BY <1>1 DEF NothingHeldBefore
<1>3. HeldTypes'
  BY <1>1 DEF HeldTypes
<1>4. NothingHeldBefore' /\ InHand'
  BY <1>1, <1>2 DEF NothingHeldBefore, InHand
<1>5. TexturesHeld'
  <2>1. \A p \in Numbered : p # 0 /\ refs[p] = 0
    BY <1>2, RestIsNat
  <2> QED BY <1>1, <1>2, <2>1 DEF TexturesHeld, Holders
<1> QED BY <1>3, <1>4, <1>5

\* A step after the set-up keeps it ended.
LEMMA Running ==
  ASSUME IInv, DecodeStep
  PROVE  at = "running" /\ UNCHANGED <<at, gpuDecodeAvailable>>
<1>1. UNCHANGED setupVars
  BY DEF DecodeStep, NextPacket, Fed, Refused, FeedFails, TakeOutput, DropOutput,
         StreamChange, DrainEnds, Publish
<1>2. at = "running"
  <2>1. CASE NextPacket
    BY <2>1 DEF NextPacket
  <2>2. CASE step # "idle"
    BY <2>2 DEF IInv, NothingHeldBefore
  <2>3. NextPacket \/ step # "idle"
    BY DEF DecodeStep, Fed, Refused, FeedFails, TakeOutput, DropOutput,
           StreamChange, DrainEnds, Publish, Feeding, Draining
  <2> QED BY <2>1, <2>2, <2>3
<1> QED BY <1>1, <1>2 DEF setupVars

----------------------------------------------------------------------------
(* Types *)

LEMMA TailFacts ==
  ASSUME NEW S, NEW s \in Seq(S), s # <<>>
  PROVE  Head(s) \in S /\ Tail(s) \in Seq(S) /\ Len(Tail(s)) = Len(s) - 1
OBVIOUS

LEMMA TypesStep ==
  ASSUME IInv, DecodeStep
  PROVE  HeldTypes'
<1> USE DEF HeldTypes
<1>0. /\ HeldTypes /\ UNCHANGED gpuDecodeAvailable /\ None.picture = 0
  BY Running DEF IInv, None
<1>1. CASE NextPacket
  BY <1>0, <1>1, RestIsNat DEF NextPacket, mftVars, viewerVars, Rest, Feeding
<1>2. CASE Fed
  <2>1. packet \in 1 .. Rest
    BY <1>0, <1>2 DEF Fed, Feeding
  <2>2. inside' = Append(inside, packet) /\ ready' \in 0 .. Len(inside')
    BY <1>0, <1>2, <2>1 DEF Fed, Accept
  <2>3. inside' \in Seq(1 .. Rest)
    BY <1>0, <2>1, <2>2
  <2>4. /\ UNCHANGED <<packet, latest, refs>> /\ out' = None
        /\ step' \in Draining
    BY <1>2 DEF Fed, BeginDrain, viewerVars, Draining
  <2> QED BY <1>0, <2>1, <2>2, <2>3, <2>4, RestIsNat
<1>3. CASE Refused
  <2>1. UNCHANGED <<inside, packet, latest, refs>> /\ ready' \in 0 .. Len(inside)
    BY <1>0, <1>3 DEF Refused, Refuses, viewerVars
  <2>2. packet \in 1 .. Rest /\ step' \in {"returned"} \cup Draining
    BY <1>0, <1>3 DEF Refused, Feeding, BeginDrain, Return, Draining
  <2>3. out' = out \/ out' = None
    BY <1>3 DEF Refused, BeginDrain
  <2> QED BY <1>0, <2>1, <2>2, <2>3, RestIsNat
<1>4. CASE FeedFails
  BY <1>0, <1>4 DEF FeedFails, Return, mftVars, viewerVars, Feeding
<1>5. CASE TakeOutput
  <2>1. /\ UNCHANGED <<packet, latest, step>> /\ step \in Draining
        /\ inside' = Tail(inside) /\ ready' = ready - 1 /\ ready > 0
    BY <1>5 DEF TakeOutput, Emit
  <2>2. /\ Tail(inside) \in Seq(1 .. Rest)
        /\ Len(Tail(inside)) = Len(inside) - 1 /\ Head(inside) \in 1 .. Rest
    <3>1. inside # <<>> /\ inside \in Seq(1 .. Rest)
      BY <1>0, <2>1
    <3> QED BY <3>1, TailFacts
  <2>3. /\ out' = [picture |-> Head(inside), size |-> size]
        /\ refs' = AddRef(Release(refs, out.picture), Head(inside))
    BY <1>5 DEF TakeOutput, Take
  <2>4. out'.picture \in 0 .. Rest
    BY <2>2, <2>3, RestIsNat
  <2>5. refs' \in [Numbered -> Int]
    BY <1>0, <2>3, AddRefCounts, ReleaseCounts
  <2>6. ready' \in 0 .. Len(inside')
    BY <1>0, <2>1, <2>2
  <2> QED BY <1>0, <2>1, <2>2, <2>4, <2>5, <2>6
<1>6. CASE DropOutput
  <2>1. /\ UNCHANGED <<packet, latest, refs, step>> /\ step \in Draining
        /\ inside' = Tail(inside) /\ ready' = ready - 1 /\ ready > 0
        /\ out' = out \/ out' = None
    BY <1>6 DEF DropOutput, Emit, viewerVars
  <2>2. /\ Tail(inside) \in Seq(1 .. Rest)
        /\ Len(Tail(inside)) = Len(inside) - 1
    <3>1. inside # <<>> /\ inside \in Seq(1 .. Rest)
      BY <1>0, <2>1
    <3> QED BY <3>1, TailFacts
  <2>3. ready' \in 0 .. Len(inside')
    BY <1>0, <2>1, <2>2
  <2> QED BY <1>0, <2>1, <2>2, <2>3, RestIsNat
<1>7. CASE StreamChange
  <2>1. /\ UNCHANGED <<packet, latest, refs, step, out>>
        /\ \/ inside' = <<>> /\ ready' = 0
           \/ inside' = inside /\ ready' \in 0 .. Len(inside)
    BY <1>7 DEF StreamChange, viewerVars
  <2>2. inside' \in Seq(1 .. Rest) /\ ready' \in 0 .. Len(inside')
    <3>1. CASE inside' = <<>> /\ ready' = 0
      BY <3>1
    <3> QED BY <1>0, <2>1, <3>1
  <2> QED BY <1>0, <2>1, <2>2
<1>8. CASE DrainEnds
  BY <1>0, <1>8 DEF DrainEnds, AfterDrain, Return, mftVars, viewerVars, Draining, Feeding
<1>9. CASE Publish
  <2>1. /\ UNCHANGED <<inside, ready, packet>> /\ step' = "idle" /\ out' = None
        /\ latest' = latest \/ latest' = out
        /\ refs' = refs \/ refs' = Release(refs, latest.picture)
    BY <1>9 DEF Publish, mftVars, viewerVars
  <2>2. refs' \in [Numbered -> Int]
    BY <1>0, <2>1, ReleaseCounts
  <2> QED BY <1>0, <2>1, <2>2, RestIsNat
<1> QED BY <1>1, <1>2, <1>3, <1>4, <1>5, <1>6, <1>7, <1>8, <1>9 DEF DecodeStep

----------------------------------------------------------------------------
(* What is in hand *)

LEMMA InHandStep ==
  ASSUME IInv, DecodeStep
  PROVE  InHand'
<1>1. SUFFICES ASSUME gpuDecodeAvailable, gpuDecodeAvailable'
               PROVE  /\ step' \in {"idle", "feed", "refeed"} => out'.picture = 0
                      /\ step' \in {"retry", "drainFirst"} => out'.picture \in {0} \cup early'
                      /\ step' = "returned" /\ result' # "ok" => out'.picture \in {0} \cup early'
  BY Running DEF InHand
<1>0. /\ None.picture = 0
      /\ step \in {"idle", "feed", "refeed"} => out.picture = 0
      /\ step \in {"retry", "drainFirst"} => out.picture \in {0} \cup early
      /\ step = "returned" /\ result # "ok" => out.picture \in {0} \cup early
  BY <1>1 DEF IInv, InHand, None
<1>2. CASE NextPacket \/ Publish
  BY <1>0, <1>2 DEF NextPacket, Publish
<1>3. CASE Fed
  BY <1>0, <1>3 DEF Fed, BeginDrain
<1>4. CASE Refused
  BY <1>0, <1>4 DEF Refused, Feeding, BeginDrain, Return, history
<1>5. CASE FeedFails
  BY <1>0, <1>5 DEF FeedFails, Feeding, Return, history
<1>6. CASE TakeOutput
  <2>1. out'.picture = Head(inside)
    BY <1>6 DEF TakeOutput, Take
  <2>2. step' = step /\ step \in Draining
    BY <1>6 DEF TakeOutput
  <2>3. step = "drainFirst" => Head(inside) \in early'
    BY <1>6 DEF TakeOutput
  <2> QED BY <2>1, <2>2, <2>3 DEF Draining
<1>7. CASE DropOutput
  BY <1>0, <1>1, <1>7 DEF DropOutput, viewerVars, history, Draining
<1>8. CASE StreamChange
  BY <1>0, <1>8 DEF StreamChange, Draining
<1>9. CASE DrainEnds
  BY <1>0, <1>1, <1>9 DEF DrainEnds, AfterDrain, Got, Return, Draining, history
<1> QED BY <1>2, <1>3, <1>4, <1>5, <1>6, <1>7, <1>8, <1>9 DEF DecodeStep

----------------------------------------------------------------------------
(* References *)

\* The picture in hand, if any, is forgotten.
LEMMA ForgetHeld ==
  ASSUME IInv, UNCHANGED <<gpuDecodeAvailable, latest, refs, early>>, out' = None,
         gpuDecodeAvailable => out.picture \in {0} \cup early
  PROVE  TexturesHeld'
<1>1. SUFFICES ASSUME gpuDecodeAvailable, NEW p \in Numbered
               PROVE  refs[p] = Holders(p)' \/ (refs[p] > Holders(p)' /\ p \in early)
  BY DEF TexturesHeld
<1>2. p # 0 /\ refs[p] \in Int
  BY RestIsNat DEF IInv, HeldTypes
<1>3. None.picture = 0
  BY DEF None
<1>4. Holders(p)' = One(latest.picture = p)
  BY <1>2, <1>3 DEF Holders, One
<1>5. Holders(p) = One(out.picture = p) + One(latest.picture = p)
  BY DEF Holders, One
<1>6. refs[p] = Holders(p) \/ (refs[p] > Holders(p) /\ p \in early)
  BY <1>1 DEF IInv, TexturesHeld
<1>7. out.picture = p => p \in early
  BY <1>1, <1>2
<1> QED BY <1>2, <1>4, <1>5, <1>6, <1>7 DEF One

LEMMA HeldStep ==
  ASSUME IInv, DecodeStep
  PROVE  TexturesHeld'
<1>0. UNCHANGED gpuDecodeAvailable /\ TexturesHeld /\ HeldTypes /\ None.picture = 0
  BY Running DEF IInv, None
<1>1. CASE NextPacket
  BY <1>1, <1>0, ForgetHeld DEF NextPacket, viewerVars, IInv, InHand
<1>2. CASE Fed
  BY <1>2, <1>0, ForgetHeld DEF Fed, BeginDrain, Feeding, viewerVars, IInv, InHand
<1>3. CASE Refused
  <2>1. CASE step = "feed"
    BY <1>3, <1>0, <2>1, ForgetHeld DEF Refused, BeginDrain, viewerVars, history, IInv, InHand
  <2>2. CASE step # "feed"
    BY <1>3, <1>0, <2>2, SameHeld DEF Refused, viewerVars, history, Same
  <2> QED BY <2>1, <2>2
<1>4. CASE FeedFails \/ DrainEnds \/ StreamChange
  BY <1>4, <1>0, SameHeld DEF FeedFails, DrainEnds, StreamChange, viewerVars, history, Same
<1>5. CASE TakeOutput
  <2> DEFINE n == Head(inside)
  <2>1. SUFFICES ASSUME gpuDecodeAvailable, NEW p \in Numbered
                 PROVE  refs'[p] = Holders(p)' \/ (refs'[p] > Holders(p)' /\ p \in early')
    BY <1>0 DEF TexturesHeld
  <2>2. /\ out' = [picture |-> n, size |-> size] /\ latest' = latest
        /\ refs' = AddRef(Release(refs, out.picture), n) /\ early \subseteq early'
    BY <1>5 DEF TakeOutput, Take
  <2>3. Release(refs, out.picture) \in [Numbered -> Int] /\ refs \in [Numbered -> Int]
    BY <1>0, ReleaseCounts DEF HeldTypes
  <2>4. refs'[p] = refs[p] - One(out.picture = p) + One(n = p)
    BY <1>0, <2>1, <2>2, <2>3, AddRefCounts, ReleaseCounts
  <2>5. Holders(p)' = One(n = p) + One(latest.picture = p)
    BY <2>2 DEF Holders, One
  <2>6. Holders(p) = One(out.picture = p) + One(latest.picture = p)
    BY DEF Holders, One
  <2>7. refs[p] = Holders(p) \/ (refs[p] > Holders(p) /\ p \in early)
    BY <1>0, <2>1 DEF TexturesHeld
  <2>8. refs[p] \in Int /\ One(out.picture = p) \in Int /\ One(n = p) \in Int
        /\ One(latest.picture = p) \in Int
    BY <2>3 DEF One
  <2> HIDE DEF n
  <2> QED BY <2>2, <2>4, <2>5, <2>6, <2>7, <2>8
<1>6. CASE DropOutput
  <2>1. CASE gpuDecodeAvailable
    BY <1>6, <1>0, <2>1, SameHeld DEF DropOutput, viewerVars, history, Same
  <2>2. CASE ~gpuDecodeAvailable
    BY <1>0, <2>2 DEF TexturesHeld
  <2> QED BY <2>1, <2>2
<1>7. CASE Publish
  <2>1. CASE result # "ok"
    BY <1>7, <1>0, <2>1, ForgetHeld DEF Publish, viewerVars, history, IInv, InHand
  <2>2. CASE result = "ok"
    <3>1. SUFFICES ASSUME gpuDecodeAvailable, NEW p \in Numbered
                   PROVE  refs'[p] = Holders(p)' \/ (refs'[p] > Holders(p)' /\ p \in early')
      BY <1>0 DEF TexturesHeld
    <3>2. /\ out' = None /\ latest' = out
          /\ refs' = Release(refs, latest.picture) /\ early' = early
      BY <1>7, <2>2 DEF Publish, history
    <3>3. refs'[p] = refs[p] - One(latest.picture = p)
      BY <1>0, <3>1, <3>2, ReleaseCounts DEF HeldTypes
    <3>4. p # 0 /\ refs[p] \in Int
      BY <1>0, RestIsNat DEF HeldTypes
    <3>5. Holders(p)' = One(out.picture = p)
      BY <1>0, <3>2, <3>4 DEF Holders, One
    <3>6. Holders(p) = One(out.picture = p) + One(latest.picture = p)
      BY DEF Holders, One
    <3>7. refs[p] = Holders(p) \/ (refs[p] > Holders(p) /\ p \in early)
      BY <1>0, <3>1 DEF TexturesHeld
    <3> QED BY <3>2, <3>3, <3>4, <3>5, <3>6, <3>7 DEF One
  <2> QED BY <2>1, <2>2
<1> QED BY <1>1, <1>2, <1>3, <1>4, <1>5, <1>6, <1>7 DEF DecodeStep

----------------------------------------------------------------------------

LEMMA NextHeld == IInv /\ [Next]_vars => IInv'
<1>1. SUFFICES ASSUME IInv, [Next]_vars PROVE IInv'
  OBVIOUS
<1>2. CASE Setup
  BY <1>1, <1>2, SetupHeld
<1>3. CASE DecodeStep
  <2>1. NothingHeldBefore'
    BY <1>1, <1>3, Running DEF NothingHeldBefore
  <2> QED BY <1>1, <1>3, <2>1, TypesStep, InHandStep, HeldStep DEF IInv
<1>4. CASE Breaks \/ UNCHANGED vars
  <2>1. UNCHANGED <<at, gpuDecodeAvailable, inside, ready, packet, step, out, result, latest,
                    refs, early>>
    BY <1>4 DEF Breaks, vars, setupVars, mftVars, viewerVars, history
  <2> QED BY <1>1, <2>1 DEF IInv, HeldTypes, NothingHeldBefore, InHand, TexturesHeld, Holders
<1> QED BY <1>1, <1>2, <1>3, <1>4 DEF Next

\* DrainDecoderOutputGpu, DecodeFrameGpu and VideoDecodeThread: for every bound and
\* every look-ahead no texture is released while it is held, and none is left behind
\* but those drained after a refusal.
THEOREM TexturesAreHeld == Spec => []TexturesHeld
<1>1. IInv => TexturesHeld
  BY DEF IInv
<1> QED BY <1>1, InitHeld, NextHeld, PTL DEF Spec

----------------------------------------------------------------------------
(* What a call returns *)

\* No call has failed, and the transform is not broken.
Clean == failures = 0 /\ ~broken

\* The numbers, and the size, which is known once it has been read without a failure.
NumberTypes ==
    /\ failures \in Nat /\ broken \in BOOLEAN /\ streamChanged \in BOOLEAN
    /\ streamSize \in Nat /\ streamSize >= 1 /\ streamBefore \in Nat
    /\ size \in Nat /\ (Clean => (formatEstablished <=> size # 0))
    /\ at # "running" =>
          /\ ready = 0 /\ change = "no" /\ size = 0 /\ ~formatEstablished
          /\ out = None /\ newest = None

\* Outside the drains no picture and no change of the stream waits; a packet is
\* offered again when a change has been reported, so it is not refused twice.
NothingWaits ==
    Clean => /\ step \in {"idle", "feed", "retry", "refeed", "returned"} => ready = 0 /\ change = "no"
             /\ step = "retry" => streamChanged
             /\ step = "drainFirst" => change # "no" \/ streamChanged

\* The picture in hand is the newest, with the size of the stream it is of.
NewestInHand ==
    Clean => /\ size \in {0, streamSize}
             /\ size = 0 => out = None /\ newest = None
             /\ step # "idle" => out = newest
             /\ step = "feed" => out = None
             /\ out.size # 0 => out.picture # 0
             /\ step = "returned" => (result = "ok" <=> Got)

\* How often the packet has been accepted where, and what has changed since it came.
FedCount ==
    /\ step \in {"feed", "drainFirst", "retry"} => fed = 0
    /\ step \in {"drain", "refeed"} => fed = 1
    /\ step = "drainAgain" => fed = 2
    /\ streamBefore <= streamSize
    /\ streamChanged => streamBefore < streamSize
    /\ step = "refeed" => streamChanged
    /\ fed = 2 => streamBefore < streamSize
    /\ step = "drain" /\ swallowed => streamChanged
    /\ Clean /\ step = "returned" /\ fed = 1 /\ swallowed => result = "ok"

CallInv == NumberTypes /\ NothingWaits /\ NewestInHand /\ FedCount

LEMMA InitCall == Init => CallInv
<1> SUFFICES ASSUME Init PROVE CallInv
  OBVIOUS
<1> USE DEF Init
<1>1. NumberTypes
  <2>1. formatEstablished <=> size # 0
    BY Zenon
  <2>2. streamChanged \in BOOLEAN /\ broken \in BOOLEAN
    BY Zenon
  <2> QED BY <2>1, <2>2 DEF NumberTypes
<1>2. NothingWaits /\ NewestInHand
  BY DEF NothingWaits, NewestInHand, None, Draining
<1>3. FedCount
  BY DEF FedCount
<1> QED BY <1>1, <1>2, <1>3 DEF CallInv

\* A call that fails is counted, unless the transform is broken.
LEMMA FailsUnclean ==
  ASSUME NumberTypes, Fails, UNCHANGED broken
  PROVE  ~Clean' /\ failures' \in Nat
BY DEF NumberTypes, Fails, Clean

\* The size is read, or a call fails.
LEMMA SizeRead ==
  ASSUME NumberTypes, HandleStreamChange, UNCHANGED broken, streamSize' \in Nat, streamSize' >= 1
  PROVE  /\ failures' \in Nat /\ size' \in Nat
         /\ Clean' => size' = streamSize' /\ (formatEstablished' <=> size' # 0)
<1>1. CASE size' = streamSize' /\ formatEstablished' = TRUE /\ UNCHANGED failures
  BY <1>1 DEF NumberTypes
<1>2. CASE Fails /\ UNCHANGED formatVars
  BY <1>2, FailsUnclean DEF NumberTypes, formatVars
<1>3. CASE Fails /\ size' = 0 /\ formatEstablished' = TRUE
  BY <1>3, FailsUnclean DEF NumberTypes
<1> QED BY <1>1, <1>2, <1>3 DEF HandleStreamChange

LEMMA NumbersStep ==
  ASSUME IInv, NumberTypes, DecodeStep
  PROVE  NumberTypes' /\ (Clean' => Clean) /\ UNCHANGED broken
<1>1. at = "running" /\ at' = "running"
  BY Running
<1>2. UNCHANGED broken /\ streamChanged' \in BOOLEAN
  BY DEF DecodeStep, NextPacket, Fed, Refused, FeedFails, TakeOutput, DropOutput, StreamChange,
         DrainEnds, Publish, BeginDrain, faults, NumberTypes
<1>3. streamSize' \in Nat /\ streamSize' >= 1 /\ streamBefore' \in Nat
  <2>1. streamSize' = streamSize \/ streamSize' = streamSize + 1
    BY DEF DecodeStep, NextPacket, Fed, Refused, Refuses, FeedFails, TakeOutput, DropOutput, Emit,
           StreamChange, DrainEnds, Publish, mftVars
  <2>2. streamBefore' = streamBefore \/ streamBefore' = streamSize
    BY DEF DecodeStep, NextPacket, Fed, Refused, FeedFails, TakeOutput, DropOutput, StreamChange,
           DrainEnds, Publish, history
  <2> QED BY <2>1, <2>2 DEF NumberTypes
<1>4. /\ failures' \in Nat /\ size' \in Nat /\ (Clean' => (formatEstablished' <=> size' # 0))
      /\ Clean' => failures' = failures
  <2>1. CASE UNCHANGED formatVars /\ UNCHANGED failures
    BY <1>2, <2>1 DEF NumberTypes, formatVars, Clean
  <2>2. CASE UNCHANGED formatVars /\ Fails
    BY <1>2, <2>2, FailsUnclean DEF NumberTypes, formatVars
  <2>3. CASE HandleStreamChange
    <3>1. Clean' => failures' = failures
      BY <1>2, <2>3, FailsUnclean DEF HandleStreamChange
    <3> QED BY <1>2, <1>3, <2>3, <3>1, SizeRead
  <2>4. \/ UNCHANGED formatVars /\ UNCHANGED failures
        \/ UNCHANGED formatVars /\ Fails
        \/ HandleStreamChange
    BY DEF DecodeStep, NextPacket, Fed, Refused, FeedFails, TakeOutput, DropOutput, StreamChange,
           DrainEnds, Publish, faults
  <2> QED BY <2>1, <2>2, <2>3, <2>4
<1> QED BY <1>1, <1>2, <1>3, <1>4 DEF NumberTypes, Clean

LEMMA NothingWaitsStep ==
  ASSUME IInv, CallInv, DecodeStep
  PROVE  NothingWaits'
<1> SUFFICES ASSUME Clean'
             PROVE  /\ step' \in {"idle", "feed", "retry", "refeed", "returned"}
                       => ready' = 0 /\ change' = "no"
                    /\ step' = "retry" => streamChanged'
                    /\ step' = "drainFirst" => change' # "no" \/ streamChanged'
  BY DEF NothingWaits
<1>1. Clean /\ NumberTypes /\ UNCHANGED broken
  BY NumbersStep DEF CallInv
<1>2. /\ step \in {"idle", "feed", "retry", "refeed", "returned"} => ready = 0 /\ change = "no"
      /\ step = "retry" => streamChanged
      /\ step = "drainFirst" => change # "no" \/ streamChanged
      /\ step = "refeed" => streamChanged
  BY <1>1 DEF CallInv, NothingWaits, FedCount
<1>3. ~Fails
  BY <1>1, FailsUnclean
<1>4. CASE NextPacket \/ Publish
  BY <1>2, <1>4 DEF NextPacket, Publish, mftVars
<1>5. CASE Fed
  BY <1>5 DEF Fed, BeginDrain
<1>6. CASE Refused
  <2>1. step = "feed" /\ change' = "refused"
    BY <1>2, <1>6 DEF Refused, Refuses, NewStream, Feeding
  <2>2. step' = "drainFirst"
    BY <1>6, <2>1 DEF Refused, BeginDrain
  <2> QED BY <2>1, <2>2
<1>7. CASE FeedFails
  BY <1>3, <1>7 DEF FeedFails
<1>8. CASE TakeOutput \/ DropOutput
  <2>1. step' = step /\ step \in Draining /\ UNCHANGED <<change, streamChanged>>
    BY <1>8 DEF TakeOutput, DropOutput, Emit
  <2> QED BY <1>2, <2>1 DEF Draining
<1>9. CASE StreamChange
  BY <1>9 DEF StreamChange, Draining
<1>10. CASE DrainEnds
  <2>1. ready = 0 /\ change = "no" /\ UNCHANGED <<ready, change, streamChanged>>
    BY <1>3, <1>10 DEF DrainEnds, mftVars
  <2>2. step' \in {"retry", "refeed", "returned"} /\ (step' = "retry" => step = "drainFirst")
    BY <1>10 DEF DrainEnds, AfterDrain, Return
  <2> QED BY <1>2, <2>1, <2>2
<1> QED BY <1>4, <1>5, <1>6, <1>7, <1>8, <1>9, <1>10 DEF DecodeStep

LEMMA NewestInHandStep ==
  ASSUME IInv, CallInv, DecodeStep
  PROVE  NewestInHand'
<1> SUFFICES ASSUME Clean'
             PROVE  /\ size' \in {0, streamSize'}
                    /\ size' = 0 => out' = None /\ newest' = None
                    /\ step' # "idle" => out' = newest'
                    /\ step' = "feed" => out' = None
                    /\ out'.size # 0 => out'.picture # 0
                    /\ step' = "returned" => (result' = "ok" <=> Got')
  BY DEF NewestInHand
<1>1. Clean /\ NumberTypes /\ UNCHANGED <<broken, gpuDecodeAvailable>>
  BY NumbersStep, Running DEF CallInv
<1>2. /\ size \in {0, streamSize}
      /\ size = 0 => out = None /\ newest = None
      /\ step # "idle" => out = newest
      /\ step = "feed" => out = None
      /\ out.size # 0 => out.picture # 0
      /\ step = "returned" => (result = "ok" <=> Got)
  BY <1>1 DEF CallInv, NewestInHand
<1>3. ~Fails
  BY <1>1, FailsUnclean
<1>4. None.size = 0 /\ None.picture = 0
  BY DEF None
<1>5. CASE NextPacket
  BY <1>2, <1>4, <1>5 DEF NextPacket, formatVars, mftVars
<1>6. CASE Publish
  BY <1>2, <1>4, <1>6 DEF Publish, formatVars, mftVars, history
<1>7. CASE Fed
  BY <1>2, <1>4, <1>7 DEF Fed, BeginDrain, formatVars, Draining
<1>8. CASE Refused
  <2>1. step \in Feeding => ready = 0 /\ change = "no"
    BY <1>1 DEF CallInv, NothingWaits, Feeding
  <2>2. step = "feed" \/ streamChanged
    BY <1>1, <1>8 DEF CallInv, NothingWaits, FedCount, Refused, Feeding
  <2>3. step = "feed"
    BY <1>8, <2>1, <2>2 DEF Refused, Refuses, NewStream
  <2> QED BY <1>2, <1>4, <1>8, <2>3 DEF Refused, BeginDrain, formatVars, history, Refuses
<1>9. CASE FeedFails
  BY <1>3, <1>9 DEF FeedFails
<1>10. CASE TakeOutput
  <2>1. /\ out' = [picture |-> Head(inside), size |-> size] /\ step' = step
        /\ newest' = [picture |-> Head(inside), size |-> IF size = 0 THEN 0 ELSE streamSize]
        /\ streamSize' = streamSize /\ step \in Draining
        /\ IF formatEstablished THEN UNCHANGED <<formatVars, failures>> ELSE HandleStreamChange
    BY <1>10 DEF TakeOutput, Take, Emit
  <2>2. size' = streamSize' /\ streamSize' # 0
    BY <1>1, <1>2, <2>1, SizeRead DEF NumberTypes, formatVars
  <2>3. out'.picture # 0
    <3>1. inside \in Seq(1 .. Rest) /\ inside # <<>>
      BY <1>10 DEF TakeOutput, Emit, IInv, HeldTypes
    <3>2. Head(inside) \in 1 .. Rest
      BY <3>1, TailFacts
    <3> QED BY <2>1, <3>2, RestIsNat
  <2> QED BY <1>2, <2>1, <2>2, <2>3 DEF Draining
<1>11. CASE DropOutput
  <2>1. /\ step' = step /\ step \in Draining /\ UNCHANGED <<newest, streamSize>>
        /\ size = 0
        /\ IF gpuDecodeAvailable \/ formatEstablished
           THEN UNCHANGED <<out, formatVars, failures>>
           ELSE out' = None /\ HandleStreamChange
    BY <1>3, <1>11 DEF DropOutput, Emit, history
  <2>2. out = None /\ newest = None /\ out' = None
    BY <1>2, <2>1
  <2>3. size' \in {0, streamSize'}
    BY <1>1, <1>2, <2>1, SizeRead DEF NumberTypes, formatVars
  <2> QED BY <1>4, <2>1, <2>2, <2>3 DEF Draining
<1>12. CASE StreamChange
  <2>1. /\ UNCHANGED <<out, newest, step>> /\ step \in Draining
        /\ streamSize' = streamSize + 1 /\ HandleStreamChange
    BY <1>12 DEF StreamChange
  <2>2. size' = streamSize' /\ streamSize' # 0
    BY <1>1, <2>1, SizeRead DEF NumberTypes
  <2> QED BY <1>2, <2>1, <2>2 DEF Draining
<1>13. CASE DrainEnds
  <2>1. UNCHANGED <<out, newest, size, streamSize>> /\ step # "idle" /\ Got' = Got
    BY <1>1, <1>13 DEF DrainEnds, formatVars, mftVars, history, Draining, Got
  <2>2. step' # "feed" /\ (step' = "returned" => result' = IF Got THEN "ok" ELSE "no")
    BY <1>13 DEF DrainEnds, AfterDrain, Return
  <2> QED BY <1>2, <2>1, <2>2
<1> QED BY <1>5, <1>6, <1>7, <1>8, <1>9, <1>10, <1>11, <1>12, <1>13 DEF DecodeStep

LEMMA FedCountStep ==
  ASSUME IInv, CallInv, DecodeStep
  PROVE  FedCount'
<1> USE DEF FedCount
<1>1. NumberTypes /\ NothingWaits /\ FedCount /\ (Clean' => Clean) /\ UNCHANGED broken
  BY NumbersStep DEF CallInv
<1>2. /\ streamSize \in Nat /\ streamBefore \in Nat
  BY <1>1 DEF NumberTypes
<1>3. CASE NextPacket
  BY <1>1, <1>2, <1>3 DEF NextPacket, mftVars
<1>4. CASE Publish
  BY <1>1, <1>2, <1>4 DEF Publish, mftVars, history
<1>5. CASE Fed
  <2>1. /\ fed' = fed + 1 /\ swallowed' = FALSE /\ streamChanged' = FALSE
        /\ UNCHANGED <<streamSize, streamBefore>> /\ step \in Feeding
        /\ step' = IF step = "refeed" THEN "drainAgain" ELSE "drain"
    BY <1>5 DEF Fed, BeginDrain
  <2>2. step = "refeed" => fed = 1 /\ streamBefore < streamSize
    BY <1>1
  <2>3. step # "refeed" => fed = 0
    BY <1>1, <2>1 DEF Feeding
  <2> QED BY <1>1, <1>2, <2>1, <2>2, <2>3
<1>6. CASE Refused
  <2>1. /\ UNCHANGED <<fed, swallowed, streamSize, streamBefore>> /\ step \in Feeding
        /\ \/ step = "feed" /\ step' = "drainFirst" /\ streamChanged' = FALSE
           \/ step # "feed" /\ step' = "returned" /\ streamChanged' = streamChanged
    BY <1>6 DEF Refused, Refuses, BeginDrain, Return, history
  <2>2. Clean => step = "feed"
    <3>1. Clean => ready = 0 /\ change = "no" /\ (step # "feed" => streamChanged)
      BY <1>1, <2>1 DEF NothingWaits, Feeding
    <3> QED BY <1>6, <3>1 DEF Refused, Refuses, NewStream
  <2> QED BY <1>1, <1>2, <2>1, <2>2 DEF Feeding
<1>7. CASE FeedFails
  <2>1. ~Clean' /\ step' = "returned" /\ UNCHANGED <<fed, swallowed, streamSize, streamBefore,
                                                    streamChanged>>
    BY <1>1, <1>7, FailsUnclean DEF FeedFails, Return, mftVars, history
  <2> QED BY <1>1, <1>2, <2>1
<1>8. CASE TakeOutput \/ DropOutput
  <2>1. /\ step' = step /\ step \in Draining
        /\ UNCHANGED <<fed, swallowed, streamSize, streamBefore, streamChanged>>
    BY <1>8 DEF TakeOutput, DropOutput, Emit, history
  <2> QED BY <1>1, <1>2, <2>1 DEF Draining
<1>9. CASE StreamChange
  <2>1. /\ step' = step /\ step \in Draining /\ streamChanged' = TRUE
        /\ streamSize' = streamSize + 1 /\ UNCHANGED <<fed, streamBefore>>
    BY <1>9 DEF StreamChange
  <2> QED BY <1>1, <1>2, <2>1 DEF Draining
<1>10. CASE DrainEnds
  <2>1. /\ step \in Draining /\ UNCHANGED <<fed, swallowed, streamSize, streamBefore, streamChanged>>
        /\ \/ step = "drainFirst" /\ step' = "retry"
           \/ step = "drain" /\ step' = "refeed" /\ streamChanged
           \/ /\ step # "drainFirst" /\ step' = "returned"
              /\ result' = IF Got THEN "ok" ELSE "no"
              /\ step = "drain" => Got \/ ~streamChanged
    BY <1>10 DEF DrainEnds, AfterDrain, Return, mftVars, history
  <2> QED BY <1>1, <1>2, <2>1 DEF Draining
<1> QED BY <1>3, <1>4, <1>5, <1>6, <1>7, <1>8, <1>9, <1>10 DEF DecodeStep

\* Every step keeps CallInv.
LEMMA NextCall == IInv /\ CallInv /\ [Next]_vars => CallInv'
<1> SUFFICES ASSUME IInv, CallInv, [Next]_vars PROVE CallInv'
  OBVIOUS
<1>1. CASE Setup
  <2>1. /\ at # "running" /\ broken' \in BOOLEAN
        /\ UNCHANGED <<inside, ready, change, streamSize, failures, size, formatEstablished, step,
                       streamChanged, out, result, newest, fed, streamBefore, swallowed>>
    BY <1>1 DEF Setup, Activate, SetTypes, SetDevice, mftVars, faults, formatVars, history, CallInv,
                NumberTypes
  <2>2. /\ step = "idle" /\ ready = 0 /\ change = "no" /\ size = 0 /\ out = None /\ newest = None
        /\ None.size = 0 /\ ~formatEstablished
    BY <2>1 DEF IInv, NothingHeldBefore, CallInv, NumberTypes, None
  <2> QED BY <2>1, <2>2 DEF CallInv, NumberTypes, NothingWaits, NewestInHand, FedCount
<1>2. CASE Breaks
  <2>1. /\ ~Clean' /\ broken' = TRUE
        /\ UNCHANGED <<at, ready, change, streamSize, failures, size, formatEstablished, step,
                       streamChanged, out, newest, fed, streamBefore, swallowed>>
    BY <1>2 DEF Breaks, Clean, setupVars, mftVars, formatVars, history
  <2> QED BY <2>1 DEF CallInv, NumberTypes, NothingWaits, NewestInHand, FedCount
<1>3. CASE DecodeStep
  BY <1>3, NumbersStep, NothingWaitsStep, NewestInHandStep, FedCountStep DEF CallInv
<1>4. CASE UNCHANGED vars
  BY <1>4 DEF vars, setupVars, mftVars, faults, formatVars, history, CallInv, NumberTypes,
              NothingWaits, NewestInHand, FedCount, Clean, Got
<1> QED BY <1>1, <1>2, <1>3, <1>4 DEF Next

LEMMA CallInvariant == Spec => [](IInv /\ CallInv)
<1>1. (IInv /\ CallInv) /\ [Next]_vars => (IInv /\ CallInv)'
  BY NextHeld, NextCall
<1> QED BY <1>1, InitHeld, InitCall, PTL DEF Spec

\* DecodeFrame and DecodeFrameGpu: while no call fails, a call returns the newest
\* picture the transform has given for the packet, with its size, and leaves none
\* waiting, for every bound and every look-ahead.
THEOREM NewestIsReturned == Spec => []NewestReturned
<1>1. CallInv => NewestReturned
  BY DEF CallInv, NothingWaits, NewestInHand, NewestReturned, Clean, Got
<1> QED BY <1>1, CallInvariant, PTL

\* A packet is fed twice for a change of the stream only, and one that a change
\* swallowed is fed again or has given a picture.
THEOREM FedAgainForChange == Spec => []FedAgainOnlyAfterChange
<1>1. CallInv => FedAgainOnlyAfterChange
  BY DEF CallInv, FedCount, NumberTypes, FedAgainOnlyAfterChange, Clean
<1> QED BY <1>1, CallInvariant, PTL
=============================================================================
