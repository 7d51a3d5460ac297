------------------------ MODULE FrameTransportProofs ------------------------
(***************************************************************************)
(* What is proved of the data channel for every limit on fragments and     *)
(* entries, every age and any number of frames: the types, and, as long as *)
(* the 16-bit sequence number has not been used twice, that reassembly is  *)
(* sound and complete.                                                     *)
(***************************************************************************)
EXTENDS FrameTransport, Integers, TLAPS

\* No two frames of the session share a sequence number.
NoWrap == MaxFrames <= SeqMod

\* Entry e holds fragments of frame f and of no other, each in its place.
PartOf(e, f) ==
    /\ sizes[f] > 1 /\ e.totalFrags = sizes[f]
    /\ e.receivedMask \subseteq 0 .. sizes[f] - 1
    /\ \A i \in 0 .. sizes[f] - 1 :
         e.chunks[i] = IF i \in e.receivedMask THEN <<f, i>> ELSE Empty
    /\ sizes[f] > FragLimit => e.receivedMask = {}

EntriesSound ==
    \A id \in Entries : \E f \in DOMAIN sizes :
        /\ SeqOf(f) = id /\ PartOf(m_fragments[id], f)
        /\ m_fragments[id].receivedMask # AllMask(sizes[f])

\* What has been handed over is whole, and of a frame that fits the mask.
DeliveredSound ==
    \A d \in delivered : \E f \in DOMAIN sizes :
        d = Channel!Whole(f, sizes[f]) /\ sizes[f] <= FragLimit

\* A fragment that has arrived is in its entry, unless its frame has been
\* handed over or the clean-up has taken the entry away.
GotKept ==
    \A p \in got :
        /\ sizes[p[1]] \in 2 .. FragLimit
        /\ SeqOf(p[1]) \notin evicted
        => \/ \E d \in delivered : d.header = p[1]
           \/ SeqOf(p[1]) \in Entries /\ p[2] \in m_fragments[SeqOf(p[1])].receivedMask

IInv == TypeOK /\ EntriesSound /\ DeliveredSound /\ GotKept

----------------------------------------------------------------------------
LEMMA ConstantFacts == /\ SeqMod \in Nat /\ SeqMod > 0 /\ FragLimit \in Nat /\ FragLimit > 0
                       /\ MaxFrames \in Nat /\ MaxTime \in Nat /\ StaleAfter \in Nat
                       /\ \A n \in Sizes : n \in Nat /\ n > 0
                       /\ \A f, i \in Nat : <<f, i>> # Empty
BY TransportAssumption

LEMMA SeqOfIsId ==
  ASSUME NEW f \in Nat
  PROVE  SeqOf(f) \in Ids
BY ConstantFacts DEF SeqOf, Ids

\* Numbers that are at most the modulus have a remainder of their own.
LEMMA NoIdTwice ==
  ASSUME NoWrap, NEW f \in 1 .. MaxFrames, NEW g \in 1 .. MaxFrames, SeqOf(f) = SeqOf(g)
  PROVE  f = g
<1>1. \A n \in 1 .. MaxFrames : n % SeqMod = IF n < SeqMod THEN n ELSE 0
  BY ConstantFacts DEF NoWrap
<1> QED BY <1>1, ConstantFacts DEF NoWrap, SeqOf

----------------------------------------------------------------------------
(* Entries of m_fragments *)

LEMMA EntryFields ==
  ASSUME NEW n \in Sizes, NEW b \in EntryOf(n)
  PROVE  /\ b.totalFrags = n /\ n \in Nat /\ n > 0
         /\ b.receivedMask \in SUBSET (0 .. n - 1)
         /\ b.chunks \in [0 .. n - 1 -> (Nat \X Nat) \cup {Empty}] /\ b.firstSeen \in Nat
BY ConstantFacts DEF EntryOf

\* An entry is not NoEntry, whose count is 0.
LEMMA EntryIsEntry ==
  ASSUME TypeOK, NEW id \in Ids
  PROVE  /\ id \in Entries <=> m_fragments[id] # NoEntry
         /\ id \in Entries => \E n \in Sizes : m_fragments[id] \in EntryOf(n)
<1>1. NoEntry.totalFrags = 0
  BY DEF NoEntry
<1>2. m_fragments[id] = NoEntry \/ \E n \in Sizes : m_fragments[id] \in EntryOf(n)
  BY DEF TypeOK
<1>3. \A n \in Sizes : m_fragments[id] \in EntryOf(n) => m_fragments[id].totalFrags # 0
  BY EntryFields
<1> QED BY <1>1, <1>2, <1>3 DEF Entries

LEMMA FreshEntry ==
  ASSUME NEW n \in Sizes, NEW t \in Nat
  PROVE  [totalFrags |-> n, receivedMask |-> {},
          chunks |-> [i \in 0 .. n - 1 |-> Empty], firstSeen |-> t] \in EntryOf(n)
BY DEF EntryOf

LEMMA EntryTypes ==
  ASSUME TypeOK, NEW id \in Ids, NEW n \in Sizes
  PROVE  \E m \in Sizes : Entry(id, n) \in EntryOf(m)
<1>1. CASE id \in Entries
  BY <1>1, EntryIsEntry DEF Entry, Entries
<1>2. CASE id \notin Entries
  <2>1. Entry(id, n) = [totalFrags |-> n, receivedMask |-> {},
                        chunks |-> [i \in 0 .. n - 1 |-> Empty], firstSeen |-> now]
    BY <1>2 DEF Entry, Entries
  <2> QED BY <2>1, FreshEntry DEF TypeOK
<1> QED BY <1>1, <1>2

\* What Store does to each field of the entry.
LEMMA StoreFields ==
  ASSUME NEW n \in Sizes, NEW b \in EntryOf(n), NEW f \in Nat, NEW i \in Nat
  PROVE  LET s == Store(b, f, i)
             stores == i < n /\ n <= FragLimit /\ b.chunks[i] = Empty
         IN  /\ s \in EntryOf(n) /\ s.totalFrags = n
             /\ stores => /\ s.receivedMask = b.receivedMask \cup {i}
                          /\ s.chunks = [b.chunks EXCEPT ![i] = <<f, i>>]
             /\ ~stores => s = b
<1> DEFINE stores == i < n /\ n <= FragLimit /\ b.chunks[i] = Empty
           s == [b EXCEPT !.chunks[i] = <<f, i>>, !.receivedMask = @ \cup {i}]
<1>1. /\ b.totalFrags = n /\ n \in Nat
      /\ b.receivedMask \in SUBSET (0 .. n - 1)
      /\ b.chunks \in [0 .. n - 1 -> (Nat \X Nat) \cup {Empty}] /\ b.firstSeen \in Nat
  BY EntryFields
<1>2. Store(b, f, i) = IF stores THEN s ELSE b
  BY <1>1 DEF Store
<1>3. /\ s.totalFrags = n /\ s.firstSeen = b.firstSeen
      /\ s.receivedMask = b.receivedMask \cup {i}
      /\ s.chunks = [b.chunks EXCEPT ![i] = <<f, i>>]
  BY <1>1 DEF EntryOf
<1>5. ASSUME stores PROVE s \in EntryOf(n)
  <2>1. b.receivedMask \cup {i} \in SUBSET (0 .. n - 1)
    BY <1>1, <1>5
  <2>2. [b.chunks EXCEPT ![i] = <<f, i>>] \in [0 .. n - 1 -> (Nat \X Nat) \cup {Empty}]
    BY <1>1
  <2>3. ASSUME NEW c \in [0 .. n - 1 -> (Nat \X Nat) \cup {Empty}],
               NEW m \in SUBSET (0 .. n - 1)
        PROVE  [b EXCEPT !.chunks = c, !.receivedMask = m] \in EntryOf(n)
    BY DEF EntryOf
  <2>4. s = [b EXCEPT !.chunks = [b.chunks EXCEPT ![i] = <<f, i>>],
                      !.receivedMask = b.receivedMask \cup {i}]
    BY <1>1 DEF EntryOf
  <2> HIDE DEF s
  <2> QED BY <2>1, <2>2, <2>3, <2>4
<1>6. Store(b, f, i) \in EntryOf(n)
  BY <1>2, <1>5
<1>7. (stores => Store(b, f, i) = s) /\ (~stores => Store(b, f, i) = b)
  BY <1>2
<1> QED BY <1>1, <1>3, <1>6, <1>7

----------------------------------------------------------------------------
(* Types *)

LEMMA InitTypes == Init => TypeOK
<1> SUFFICES ASSUME Init PROVE TypeOK
  OBVIOUS
<1>1. sizes = <<>> /\ now = StaleAfter + 1
  BY DEF Init
<1>2. sizes \in Seq(Sizes) /\ Len(sizes) = 0
  BY <1>1
<1>3. /\ next \in Nat /\ Sending = FALSE /\ network = {} /\ got = {} /\ evicted = {}
      /\ m_lastFragCleanup \in Nat /\ now \in Nat /\ Len(sizes) <= MaxFrames
  BY <1>1, <1>2, ConstantFacts DEF Init
<1>4. DOMAIN m_fragments = Ids /\ \A id \in Ids : m_fragments[id] = NoEntry
  BY DEF Init
<1> QED BY <1>2, <1>3, <1>4 DEF TypeOK

LEMMA AppendFacts ==
  ASSUME NEW S, NEW s \in Seq(S), NEW e \in S
  PROVE  /\ Append(s, e) \in Seq(S) /\ Len(Append(s, e)) = Len(s) + 1
         /\ Len(s) \in Nat /\ Append(s, e) # <<>> /\ DOMAIN s = 1 .. Len(s)
         /\ DOMAIN Append(s, e) = 1 .. Len(s) + 1
         /\ \A i \in 1 .. Len(s) : s[i] \in S /\ Append(s, e)[i] = s[i]
         /\ Append(s, e)[Len(s) + 1] = e
OBVIOUS

LEMMA SizesFacts ==
  ASSUME TypeOK
  PROVE  /\ Len(sizes) \in Nat /\ DOMAIN sizes = 1 .. Len(sizes)
         /\ \A f \in DOMAIN sizes : /\ sizes[f] \in Sizes /\ sizes[f] \in Nat /\ sizes[f] > 0
                                    /\ f \in Nat /\ f \in 1 .. MaxFrames
         /\ sizes # <<>> => Len(sizes) \in DOMAIN sizes
         /\ \A p \in network : /\ p[1] \in DOMAIN sizes /\ p[2] \in Nat /\ p[2] < sizes[p[1]]
                               /\ p = <<p[1], p[2]>>
<1>1. sizes \in Seq(Sizes) /\ Len(sizes) <= MaxFrames
  BY DEF TypeOK
<1>2. /\ Len(sizes) \in Nat /\ DOMAIN sizes = 1 .. Len(sizes)
      /\ \A f \in 1 .. Len(sizes) : sizes[f] \in Sizes
      /\ sizes # <<>> => Len(sizes) >= 1
  BY <1>1
<1>3. \A f \in 1 .. Len(sizes) : f \in Nat /\ f \in 1 .. MaxFrames
  BY <1>1, <1>2, ConstantFacts
<1>4. \A p \in network : /\ p[1] \in DOMAIN sizes /\ p[2] \in Nat /\ p[2] < sizes[p[1]]
                         /\ p = <<p[1], p[2]>>
  BY DEF TypeOK
<1> QED BY <1>2, <1>3, <1>4, ConstantFacts

\* A frame that is begun changes nothing of the earlier ones.
LEMMA BeginFacts ==
  ASSUME TypeOK, BeginFrame
  PROVE  /\ sizes' \in Seq(Sizes) /\ Len(sizes') <= MaxFrames /\ sizes' # <<>>
         /\ sizes'[Len(sizes')] \in Sizes
         /\ \A f \in DOMAIN sizes : f \in DOMAIN sizes' /\ sizes'[f] = sizes[f]
<1>1. PICK n \in Sizes : sizes' = Append(sizes, n)
  BY DEF BeginFrame
<1>2. sizes \in Seq(Sizes) /\ Len(sizes) < MaxFrames /\ MaxFrames \in Nat
  BY ConstantFacts DEF TypeOK, BeginFrame
<1>3. /\ sizes' \in Seq(Sizes) /\ Len(sizes') = Len(sizes) + 1 /\ sizes' # <<>>
      /\ Len(sizes) \in Nat /\ DOMAIN sizes = 1 .. Len(sizes)
      /\ DOMAIN sizes' = 1 .. Len(sizes) + 1 /\ sizes'[Len(sizes) + 1] = n
      /\ \A f \in 1 .. Len(sizes) : sizes'[f] = sizes[f]
  BY <1>1, <1>2, AppendFacts
<1> QED BY <1>2, <1>3

LEMMA CleanUpFacts ==
  ASSUME TypeOK, CleanUp
  PROVE  /\ m_lastFragCleanup' \in Nat /\ DOMAIN m_fragments' = Ids
         /\ \E K \in SUBSET Entries :
               /\ \A id \in Ids : m_fragments'[id] = IF id \in K THEN m_fragments[id]
                                                     ELSE NoEntry
               /\ evicted' = evicted \cup (Entries \ K)
<1>1. CASE now - m_lastFragCleanup > StaleAfter
  <2>1. PICK K \in Kept :
          /\ m_fragments' = [id \in Ids |-> IF id \in K THEN m_fragments[id] ELSE NoEntry]
          /\ evicted' = evicted \cup (Entries \ K)
    BY <1>1 DEF CleanUp
  <2>2. K \in SUBSET Entries
    BY <2>1 DEF Kept
  <2>3. m_lastFragCleanup' \in Nat
    BY <1>1 DEF CleanUp, TypeOK
  <2> QED BY <2>1, <2>2, <2>3
<1>2. CASE UNCHANGED <<m_lastFragCleanup, m_fragments, evicted>>
  <2>1. \A id \in Ids : m_fragments'[id] = IF id \in Entries THEN m_fragments[id] ELSE NoEntry
    BY <1>2, EntryIsEntry
  <2> QED BY <1>2, <2>1 DEF TypeOK
<1> QED BY <1>1, <1>2 DEF CleanUp

\* The entry a fragment leaves behind when it does not complete its frame.
Stored(f, i) == Store(Entry(SeqOf(f), sizes[f]), f, i)

LEMMA FragmentFacts ==
  ASSUME TypeOK, NEW f \in DOMAIN sizes, NEW i \in Nat, ReceiveFragment(f, i)
  PROVE  /\ sizes[f] > 1 /\ SeqOf(f) \in Ids /\ got' = got \cup {<<f, i>>}
         /\ \E n \in Sizes : Stored(f, i) \in EntryOf(n)
         /\ \A id \in Ids \ {SeqOf(f)} : m_fragments'[id] = m_fragments[id]
         /\ DOMAIN m_fragments' = Ids
         /\ UNCHANGED <<m_lastFragCleanup, evicted>>
         /\ \/ /\ Stored(f, i).receivedMask = AllMask(Stored(f, i).totalFrags)
               /\ delivered' = delivered \cup
                    {[header |-> f, data |-> [k \in 1 .. Stored(f, i).totalFrags |->
                                                 Stored(f, i).chunks[k - 1]]]}
               /\ m_fragments'[SeqOf(f)] = NoEntry
            \/ /\ Stored(f, i).receivedMask # AllMask(Stored(f, i).totalFrags)
               /\ m_fragments'[SeqOf(f)] = Stored(f, i)
               /\ UNCHANGED delivered
<1>1. f \in Nat /\ sizes[f] \in Sizes /\ SeqOf(f) \in Ids /\ DOMAIN m_fragments = Ids
  BY SizesFacts, SeqOfIsId DEF TypeOK
<1>2. \E n \in Sizes : Stored(f, i) \in EntryOf(n)
  BY <1>1, EntryTypes, StoreFields DEF Stored
<1>3. /\ sizes[f] > 1 /\ got' = got \cup {<<f, i>>} /\ UNCHANGED <<m_lastFragCleanup, evicted>>
      /\ \/ /\ Stored(f, i).receivedMask = AllMask(Stored(f, i).totalFrags)
            /\ delivered' = delivered \cup
                 {[header |-> f, data |-> [k \in 1 .. Stored(f, i).totalFrags |->
                                              Stored(f, i).chunks[k - 1]]]}
            /\ m_fragments' = [m_fragments EXCEPT ![SeqOf(f)] = NoEntry]
         \/ /\ Stored(f, i).receivedMask # AllMask(Stored(f, i).totalFrags)
            /\ m_fragments' = [m_fragments EXCEPT ![SeqOf(f)] = Stored(f, i)]
            /\ UNCHANGED delivered
  BY DEF ReceiveFragment, Stored
<1> QED BY <1>1, <1>2, <1>3

LEMMA TypesStep ==
  ASSUME TypeOK, Next
  PROVE  TypeOK'
<1>1. CASE BeginFrame
  <2>1. /\ next' = 0 /\ Sending' = TRUE /\ UNCHANGED network
        /\ UNCHANGED <<m_fragments, m_lastFragCleanup, got, evicted, now>>
    BY <1>1 DEF BeginFrame, receiver
  <2>2. /\ sizes' \in Seq(Sizes) /\ Len(sizes') <= MaxFrames /\ sizes' # <<>>
        /\ 0 < sizes'[Len(sizes')]
    BY <1>1, BeginFacts, ConstantFacts
  <2>3. \A p \in network' : /\ p \in Nat \X Nat /\ p[1] \in DOMAIN sizes'
                            /\ p[2] < sizes'[p[1]]
    BY <1>1, <2>1, BeginFacts DEF TypeOK
  <2> QED BY <2>1, <2>2, <2>3 DEF TypeOK
<1>2. CASE SendFragment
  <2>1. /\ Sending /\ network' = network \cup {<<Len(sizes), next>>} /\ next' = next + 1
        /\ Sending' = (next + 1 < sizes[Len(sizes)]) /\ UNCHANGED sizes
        /\ UNCHANGED <<m_fragments, m_lastFragCleanup, got, evicted, now>>
    BY <1>2 DEF SendFragment, receiver
  <2>2. sizes # <<>> /\ next < sizes[Len(sizes)] /\ next \in Nat
    BY <2>1 DEF TypeOK
  <2>3. Len(sizes) \in DOMAIN sizes /\ Len(sizes) \in Nat
    BY <2>2, SizesFacts
  <2>4. \A p \in network' : /\ p \in Nat \X Nat /\ p[1] \in DOMAIN sizes
                            /\ p[2] < sizes[p[1]]
    BY <2>1, <2>2, <2>3 DEF TypeOK
  <2>5. got \subseteq network'
    BY <2>1 DEF TypeOK
  <2>6. next' \in Nat
    BY <2>1, <2>2
  <2>7. Sending' \in BOOLEAN
    <3>1. next + 1 \in Int /\ sizes[Len(sizes)] \in Int
      BY <2>2, <2>3, SizesFacts
    <3>2. (next + 1 < sizes[Len(sizes)]) \in BOOLEAN
      BY <3>1
    <3> QED BY <2>1, <3>2
  <2>8. Sending' => sizes' # <<>> /\ next' < sizes'[Len(sizes')]
    BY <2>1, <2>2
  <2> QED BY <2>1, <2>4, <2>5, <2>6, <2>7, <2>8 DEF TypeOK
<1>3. CASE SendFails
  BY <1>3 DEF SendFails, TypeOK, receiver
<1>4. CASE Receive
  <2>1. UNCHANGED <<sizes, next, Sending, network, now>>
    BY <1>4 DEF Receive, sender
  <2>2. PICK p \in network : ReceiveFragment(p[1], p[2]) \/ ReceiveSingle(p[1])
    BY <1>4 DEF Receive
  <2>3. p[1] \in DOMAIN sizes /\ p[2] \in Nat /\ p = <<p[1], p[2]>>
    BY SizesFacts
  <2>4. CASE ReceiveFragment(p[1], p[2])
    <3>1. /\ DOMAIN m_fragments' = Ids /\ UNCHANGED <<m_lastFragCleanup, evicted>>
          /\ got' = got \cup {p}
      BY <2>3, <2>4, FragmentFacts
    <3>2. \A id \in Ids : \/ m_fragments'[id] = NoEntry
                          \/ \E n \in Sizes : m_fragments'[id] \in EntryOf(n)
      BY <2>3, <2>4, FragmentFacts DEF TypeOK
    <3> QED BY <2>1, <3>1, <3>2 DEF TypeOK
  <2>5. CASE ReceiveSingle(p[1])
    <3>1. CleanUp /\ UNCHANGED got
      BY <2>5 DEF ReceiveSingle
    <3>2. evicted' \subseteq Ids
      BY <3>1, CleanUpFacts DEF TypeOK, Entries
    <3>3. \A id \in Ids : \/ m_fragments'[id] = NoEntry
                          \/ \E n \in Sizes : m_fragments'[id] \in EntryOf(n)
      BY <3>1, CleanUpFacts DEF TypeOK
    <3> QED BY <2>1, <3>1, <3>2, <3>3, CleanUpFacts DEF TypeOK
  <2> QED BY <2>2, <2>4, <2>5
<1>5. CASE Tick
  BY <1>5 DEF Tick, TypeOK, sender, receiver
<1> QED BY <1>1, <1>2, <1>3, <1>4, <1>5 DEF Next

----------------------------------------------------------------------------
(* Soundness: an entry holds fragments of one frame only *)

\* The entry a fragment finds is a part of the frame the fragment belongs to.
LEMMA EntryIsPart ==
  ASSUME NoWrap, TypeOK, EntriesSound, NEW f \in DOMAIN sizes, sizes[f] > 1
  PROVE  PartOf(Entry(SeqOf(f), sizes[f]), f)
<1>1. f \in Nat /\ f \in 1 .. MaxFrames /\ SeqOf(f) \in Ids /\ sizes[f] \in Nat
  BY SizesFacts, SeqOfIsId
<1>2. CASE SeqOf(f) \in Entries
  <2>1. PICK g \in DOMAIN sizes : SeqOf(g) = SeqOf(f) /\ PartOf(m_fragments[SeqOf(f)], g)
    BY <1>2 DEF EntriesSound
  <2>2. g = f
    BY <1>1, <2>1, SizesFacts, NoIdTwice
  <2> QED BY <1>2, <2>1, <2>2 DEF Entry, Entries
<1>3. CASE SeqOf(f) \notin Entries
  <2>1. Entry(SeqOf(f), sizes[f]) =
          [totalFrags |-> sizes[f], receivedMask |-> {},
           chunks |-> [i \in 0 .. sizes[f] - 1 |-> Empty], firstSeen |-> now]
    BY <1>1, <1>3 DEF Entry, Entries
  <2> QED BY <2>1 DEF PartOf
<1> QED BY <1>2, <1>3

\* Storing a fragment keeps the entry a part of its frame and loses nothing;
\* a frame that fits the mask gains the fragment.
LEMMA StoredIsPart ==
  ASSUME NoWrap, TypeOK, EntriesSound, NEW f \in DOMAIN sizes, sizes[f] > 1,
         NEW i \in 0 .. sizes[f] - 1
  PROVE  /\ PartOf(Stored(f, i), f)
         /\ Entry(SeqOf(f), sizes[f]).receivedMask \subseteq Stored(f, i).receivedMask
         /\ sizes[f] <= FragLimit => i \in Stored(f, i).receivedMask
<1> DEFINE b == Entry(SeqOf(f), sizes[f])
           n == sizes[f]
           s == Stored(f, i)
<1>1. f \in Nat /\ n \in Nat /\ n \in Sizes /\ i \in Nat /\ i < n /\ SeqOf(f) \in Ids
      /\ FragLimit \in Nat
  BY SizesFacts, SeqOfIsId, ConstantFacts
<1>2. PartOf(b, f)
  BY EntryIsPart
<1>3. b \in EntryOf(n)
  <2>1. PICK m \in Sizes : b \in EntryOf(m)
    BY <1>1, EntryTypes
  <2>2. m = n
    BY <1>2, <2>1, EntryFields DEF PartOf
  <2> QED BY <2>1, <2>2
<1>4. /\ b.receivedMask \subseteq 0 .. n - 1
      /\ b.chunks \in [0 .. n - 1 -> (Nat \X Nat) \cup {Empty}]
  BY <1>1, <1>3, EntryFields
<1>5. /\ s = Store(b, f, i) /\ s.totalFrags = n
      /\ (i < n /\ n <= FragLimit /\ b.chunks[i] = Empty) =>
            /\ s.receivedMask = b.receivedMask \cup {i}
            /\ s.chunks = [b.chunks EXCEPT ![i] = <<f, i>>]
      /\ ~(i < n /\ n <= FragLimit /\ b.chunks[i] = Empty) => s = b
  <2>1. s = Store(b, f, i)
    BY DEF Stored
  <2> HIDE DEF b, s
  <2> QED BY <1>1, <1>3, <2>1, StoreFields
<1> HIDE DEF b, s
<1>6. CASE i < n /\ n <= FragLimit /\ b.chunks[i] = Empty
  <2>1. s.receivedMask = b.receivedMask \cup {i} /\ s.chunks = [b.chunks EXCEPT ![i] = <<f, i>>]
    BY <1>5, <1>6
  <2>2. \A k \in 0 .. n - 1 : s.chunks[k] = IF k \in s.receivedMask THEN <<f, k>> ELSE Empty
    <3>1. \A k \in 0 .. n - 1 : s.chunks[k] = IF k = i THEN <<f, i>> ELSE b.chunks[k]
      BY <1>4, <2>1
    <3> QED BY <1>2, <2>1, <3>1 DEF PartOf
  <2>3. s.receivedMask \subseteq 0 .. n - 1
    BY <1>1, <1>4, <2>1
  <2>4. ~(n > FragLimit)
    BY <1>1, <1>6
  <2> QED BY <1>5, <2>1, <2>2, <2>3, <2>4 DEF PartOf, b, s
<1>7. CASE ~(i < n /\ n <= FragLimit /\ b.chunks[i] = Empty)
  <2>1. s = b
    BY <1>5, <1>7
  <2>2. n <= FragLimit => i \in b.receivedMask
    BY <1>1, <1>2, <1>7 DEF PartOf
  <2> QED BY <1>2, <2>1, <2>2 DEF b, s
<1> QED BY <1>6, <1>7

\* A part with every bit set is the whole frame, which fits the mask.
LEMMA FullIsWhole ==
  ASSUME TypeOK, NEW f \in DOMAIN sizes, NEW e, PartOf(e, f),
         e.receivedMask = AllMask(sizes[f])
  PROVE  /\ sizes[f] <= FragLimit
         /\ [header |-> f, data |-> [k \in 1 .. e.totalFrags |-> e.chunks[k - 1]]]
              = Channel!Whole(f, sizes[f])
<1>1. sizes[f] \in Nat /\ FragLimit \in Nat /\ FragLimit > 0
  BY SizesFacts, ConstantFacts
<1>2. sizes[f] <= FragLimit
  <2>1. SUFFICES ASSUME sizes[f] > FragLimit PROVE FALSE
    BY <1>1
  <2>2. e.receivedMask = {} /\ 0 \in AllMask(sizes[f])
    BY <1>1, <2>1 DEF PartOf, AllMask
  <2> QED BY <2>2
<1>3. AllMask(sizes[f]) = 0 .. sizes[f] - 1
  BY <1>1, <1>2 DEF AllMask
<1>4. \A k \in 1 .. sizes[f] : k - 1 \in 0 .. sizes[f] - 1
  BY <1>1
<1>5. \A k \in 1 .. sizes[f] : e.chunks[k - 1] = <<f, k - 1>>
  BY <1>3, <1>4 DEF PartOf
<1>6. e.totalFrags = sizes[f]
  BY DEF PartOf
<1> QED BY <1>2, <1>5, <1>6 DEF Channel!Whole

\* What a fragment does, now that entries are sound: its frame is handed over
\* whole, or the entry is a part of the frame with one fragment more.
LEMMA FragmentSound ==
  ASSUME NoWrap, TypeOK, EntriesSound, NEW f \in DOMAIN sizes, NEW i \in 0 .. sizes[f] - 1,
         ReceiveFragment(f, i)
  PROVE  /\ \/ /\ sizes[f] <= FragLimit
               /\ delivered' = delivered \cup {Channel!Whole(f, sizes[f])}
               /\ m_fragments'[SeqOf(f)] = NoEntry
            \/ /\ UNCHANGED delivered /\ PartOf(m_fragments'[SeqOf(f)], f)
               /\ m_fragments'[SeqOf(f)].receivedMask # AllMask(sizes[f])
               /\ sizes[f] <= FragLimit => i \in m_fragments'[SeqOf(f)].receivedMask
               /\ SeqOf(f) \in Entries =>
                     m_fragments[SeqOf(f)].receivedMask \subseteq
                       m_fragments'[SeqOf(f)].receivedMask
         /\ sizes[f] > 1
<1>1. i \in Nat /\ sizes[f] \in Nat
  BY SizesFacts
<1>2. sizes[f] > 1
  BY <1>1, FragmentFacts
<1>3. /\ PartOf(Stored(f, i), f)
      /\ Entry(SeqOf(f), sizes[f]).receivedMask \subseteq Stored(f, i).receivedMask
      /\ sizes[f] <= FragLimit => i \in Stored(f, i).receivedMask
  BY <1>2, StoredIsPart
<1>4. Stored(f, i).totalFrags = sizes[f]
  BY <1>3 DEF PartOf
<1>5. SeqOf(f) \in Entries => Entry(SeqOf(f), sizes[f]) = m_fragments[SeqOf(f)]
  BY DEF Entry, Entries
<1>6. CASE /\ Stored(f, i).receivedMask = AllMask(sizes[f])
           /\ delivered' = delivered \cup
                {[header |-> f, data |-> [k \in 1 .. Stored(f, i).totalFrags |->
                                             Stored(f, i).chunks[k - 1]]]}
           /\ m_fragments'[SeqOf(f)] = NoEntry
  BY <1>2, <1>3, <1>6, FullIsWhole
<1>7. CASE /\ Stored(f, i).receivedMask # AllMask(sizes[f])
           /\ m_fragments'[SeqOf(f)] = Stored(f, i)
           /\ UNCHANGED delivered
  BY <1>2, <1>3, <1>5, <1>7
<1> QED BY <1>1, <1>4, <1>6, <1>7, FragmentFacts

----------------------------------------------------------------------------
(* The invariant *)

LEMMA InitInv == Init => IInv
<1> SUFFICES ASSUME Init PROVE IInv
  OBVIOUS
<1>1. delivered = {} /\ got = {} /\ \A id \in Ids : m_fragments[id] = NoEntry
  BY DEF Init
<1>2. Entries = {}
  BY <1>1 DEF Entries, NoEntry
<1> QED BY <1>1, <1>2, InitTypes DEF IInv, EntriesSound, DeliveredSound, GotKept

\* A new frame leaves what there is as it was.
LEMMA BeginInv ==
  ASSUME IInv, BeginFrame
  PROVE  IInv'
<1>1. TypeOK /\ TypeOK' /\ UNCHANGED <<m_fragments, delivered, got, evicted>>
  BY TypesStep DEF IInv, Next, BeginFrame, receiver
<1>2. \A f \in DOMAIN sizes : f \in DOMAIN sizes' /\ sizes'[f] = sizes[f]
  BY <1>1, BeginFacts
<1>3. Entries' = Entries
  BY <1>1 DEF Entries
<1>4. EntriesSound'
  <2>1. ASSUME NEW id \in Entries
        PROVE  \E f \in DOMAIN sizes' :
                  /\ SeqOf(f) = id /\ PartOf(m_fragments[id], f)'
                  /\ m_fragments[id].receivedMask # AllMask(sizes'[f])
    <3>1. PICK f \in DOMAIN sizes : /\ SeqOf(f) = id /\ PartOf(m_fragments[id], f)
                                   /\ m_fragments[id].receivedMask # AllMask(sizes[f])
      BY <2>1 DEF IInv, EntriesSound
    <3> QED BY <1>1, <1>2, <3>1 DEF PartOf
  <2> QED BY <1>1, <1>3, <2>1 DEF EntriesSound
<1>5. DeliveredSound'
  BY <1>1, <1>2 DEF IInv, DeliveredSound
<1>6. GotKept'
  <2>1. \A p \in got : p[1] \in DOMAIN sizes
    BY <1>1 DEF TypeOK
  <2> QED BY <1>1, <1>2, <1>3, <2>1 DEF IInv, GotKept
<1> QED BY <1>1, <1>4, <1>5, <1>6 DEF IInv

LEMMA SameInv ==
  ASSUME IInv, TypeOK', UNCHANGED <<sizes, m_fragments, delivered, got, evicted>>
  PROVE  IInv'
<1>1. Entries' = Entries
  BY DEF Entries
<1>2. EntriesSound'
  BY <1>1 DEF IInv, EntriesSound, PartOf
<1> QED BY <1>1, <1>2 DEF IInv, DeliveredSound, GotKept

LEMMA FragmentInv ==
  ASSUME NoWrap, IInv, TypeOK', UNCHANGED sizes,
         NEW f \in DOMAIN sizes, NEW i \in 0 .. sizes[f] - 1, ReceiveFragment(f, i)
  PROVE  IInv'
<1> DEFINE id == SeqOf(f)
<1>1. /\ TypeOK /\ EntriesSound /\ DeliveredSound /\ GotKept
      /\ i \in Nat /\ f \in Nat /\ f \in 1 .. MaxFrames /\ sizes[f] \in Nat
      /\ FragLimit \in Nat
  BY SizesFacts, ConstantFacts DEF IInv
<1>2. /\ got' = got \cup {<<f, i>>} /\ UNCHANGED evicted /\ id \in Ids
      /\ \A j \in Ids \ {id} : m_fragments'[j] = m_fragments[j]
  BY <1>1, FragmentFacts
<1>3. \A j \in Ids \ {id} : j \in Entries' <=> j \in Entries
  BY <1>2 DEF Entries
<1>4. /\ sizes[f] > 1
      /\ \/ /\ sizes[f] <= FragLimit
            /\ delivered' = delivered \cup {Channel!Whole(f, sizes[f])}
            /\ m_fragments'[id] = NoEntry
         \/ /\ UNCHANGED delivered /\ PartOf(m_fragments'[id], f)
            /\ m_fragments'[id].receivedMask # AllMask(sizes[f])
            /\ sizes[f] <= FragLimit => i \in m_fragments'[id].receivedMask
            /\ id \in Entries =>
                  m_fragments[id].receivedMask \subseteq m_fragments'[id].receivedMask
  BY <1>1, FragmentSound
<1>5. NoEntry.totalFrags = 0 /\ Channel!Whole(f, sizes[f]).header = f
  BY DEF NoEntry, Channel!Whole
<1> HIDE DEF id
<1>6. EntriesSound'
  <2>1. ASSUME NEW j \in Entries'
        PROVE  \E g \in DOMAIN sizes : /\ SeqOf(g) = j /\ PartOf(m_fragments'[j], g)
                                       /\ m_fragments'[j].receivedMask # AllMask(sizes[g])
    <3>1. CASE j = id
      <4>1. m_fragments'[id] # NoEntry
        BY <1>5, <2>1, <3>1 DEF Entries
      <4> QED BY <1>4, <3>1, <4>1 DEF id
    <3>2. CASE j # id
      <4>1. j \in Entries /\ m_fragments'[j] = m_fragments[j]
        BY <1>2, <1>3, <2>1, <3>2 DEF Entries
      <4> QED BY <1>1, <4>1 DEF EntriesSound
    <3> QED BY <3>1, <3>2
  <2> QED BY <2>1 DEF EntriesSound, PartOf
<1>7. DeliveredSound'
  BY <1>1, <1>4 DEF DeliveredSound
<1>8. GotKept'
  <2>1. ASSUME NEW p \in got', sizes[p[1]] \in 2 .. FragLimit, SeqOf(p[1]) \notin evicted
        PROVE  \/ \E d \in delivered' : d.header = p[1]
               \/ SeqOf(p[1]) \in Entries' /\ p[2] \in m_fragments'[SeqOf(p[1])].receivedMask
    <3>1. p[1] \in DOMAIN sizes /\ p[1] \in 1 .. MaxFrames
      <4>1. \A r \in got : r[1] \in DOMAIN sizes
        BY <1>1 DEF TypeOK
      <4>2. p[1] \in DOMAIN sizes
        BY <1>2, <4>1
      <4> QED BY <1>1, <4>2, SizesFacts
    <3>2. CASE p[1] = f /\ delivered' = delivered \cup {Channel!Whole(f, sizes[f])}
      BY <1>5, <3>2
    <3>3. CASE /\ p[1] = f /\ PartOf(m_fragments'[id], f) /\ UNCHANGED delivered
               /\ sizes[f] <= FragLimit => i \in m_fragments'[id].receivedMask
               /\ id \in Entries =>
                     m_fragments[id].receivedMask \subseteq m_fragments'[id].receivedMask
      <4>1. id \in Entries'
        BY <1>1, <1>2, <1>4, <3>3 DEF PartOf, Entries
      <4>2. CASE p = <<f, i>>
        BY <1>1, <2>1, <3>3, <4>1, <4>2 DEF id
      <4>3. CASE p \in got
        <5>1. \/ \E d \in delivered : d.header = p[1]
              \/ id \in Entries /\ p[2] \in m_fragments[id].receivedMask
          BY <1>1, <2>1, <3>3, <4>3 DEF GotKept, id
        <5> QED BY <3>3, <4>1, <5>1 DEF id
      <4> QED BY <1>2, <4>2, <4>3
    <3>4. CASE p[1] # f
      <4>1. p \in got
        BY <1>2, <3>4
      <4>2. SeqOf(p[1]) # id /\ SeqOf(p[1]) \in Ids
        BY <1>1, <3>1, <3>4, NoIdTwice, SeqOfIsId DEF id
      <4>3. \/ \E d \in delivered : d.header = p[1]
            \/ SeqOf(p[1]) \in Entries /\ p[2] \in m_fragments[SeqOf(p[1])].receivedMask
        BY <1>1, <2>1, <4>1 DEF GotKept
      <4> QED BY <1>2, <1>3, <1>4, <4>2, <4>3
    <3> QED BY <1>4, <3>2, <3>3, <3>4
  <2> QED BY <1>2, <2>1 DEF GotKept
<1> QED BY <1>6, <1>7, <1>8 DEF IInv

LEMMA SingleInv ==
  ASSUME IInv, TypeOK', UNCHANGED sizes, NEW f \in DOMAIN sizes, ReceiveSingle(f)
  PROVE  /\ IInv' /\ sizes[f] = 1
         /\ delivered' = delivered \cup {Channel!Whole(f, sizes[f])}
<1>1. /\ sizes[f] = 1 /\ CleanUp /\ UNCHANGED got
      /\ delivered' = delivered \cup {[header |-> f, data |-> <<<<f, 0>>>>]}
  BY DEF ReceiveSingle
<1>2. [header |-> f, data |-> <<<<f, 0>>>>] = Channel!Whole(f, sizes[f])
  <2>1. <<<<f, 0>>>> = [k \in 1 .. 1 |-> <<f, k - 1>>]
    OBVIOUS
  <2> QED BY <1>1, <2>1 DEF Channel!Whole
<1>3. TypeOK /\ EntriesSound /\ DeliveredSound /\ GotKept /\ 1 <= FragLimit
  BY ConstantFacts DEF IInv
<1>4. PICK K \in SUBSET Entries :
         /\ \A id \in Ids : m_fragments'[id] = IF id \in K THEN m_fragments[id] ELSE NoEntry
         /\ evicted' = evicted \cup (Entries \ K)
  BY <1>1, <1>3, CleanUpFacts
<1>5. Entries' = K /\ \A id \in K : m_fragments'[id] = m_fragments[id]
  BY <1>4 DEF Entries, NoEntry
<1>6. EntriesSound'
  BY <1>3, <1>4, <1>5 DEF EntriesSound, PartOf
<1>7. DeliveredSound'
  BY <1>1, <1>2, <1>3 DEF DeliveredSound
<1>8. GotKept'
  BY <1>1, <1>3, <1>4, <1>5 DEF GotKept
<1> QED BY <1>1, <1>2, <1>6, <1>7, <1>8 DEF IInv

\* Every step keeps the invariant, and is a step of the abstract channel or
\* none that it sees.
LEMMA StepInv ==
  ASSUME NoWrap, IInv, Next
  PROVE  /\ IInv'
         /\ Channel!Next \/ UNCHANGED <<sizes, delivered>>
<1>1. TypeOK /\ TypeOK'
  BY TypesStep DEF IInv
<1>2. CASE BeginFrame
  <2>1. Channel!SendFrame
    BY <1>2 DEF BeginFrame, receiver, Channel!SendFrame
  <2> QED BY <1>2, <2>1, BeginInv DEF Channel!Next
<1>3. CASE SendFragment \/ SendFails \/ Tick
  <2>1. UNCHANGED <<sizes, m_fragments, delivered, got, evicted>>
    BY <1>3 DEF SendFragment, SendFails, Tick, sender, receiver
  <2> QED BY <1>1, <2>1, SameInv
<1>4. CASE Receive
  <2>1. UNCHANGED sizes
    BY <1>4 DEF Receive, sender
  <2>2. PICK p \in network : ReceiveFragment(p[1], p[2]) \/ ReceiveSingle(p[1])
    BY <1>4 DEF Receive
  <2>3. p[1] \in DOMAIN sizes /\ p[2] \in 0 .. sizes[p[1]] - 1
    BY <1>1, SizesFacts
  <2>4. CASE ReceiveFragment(p[1], p[2])
    <3>1. \/ delivered' = delivered \cup {Channel!Whole(p[1], sizes[p[1]])}
          \/ UNCHANGED delivered
      BY <1>1, <2>3, <2>4, FragmentSound DEF IInv
    <3>2. IInv'
      BY <1>1, <2>1, <2>3, <2>4, FragmentInv
    <3> QED BY <2>1, <2>3, <3>1, <3>2 DEF Channel!Next, Channel!Deliver
  <2>5. CASE ReceiveSingle(p[1])
    BY <1>1, <2>1, <2>3, <2>5, SingleInv DEF Channel!Next, Channel!Deliver
  <2> QED BY <2>2, <2>4, <2>5
<1> QED BY <1>2, <1>3, <1>4 DEF Next

LEMMA Invariance ==
  ASSUME NoWrap
  PROVE  Spec => []IInv
<1>1. IInv /\ [Next]_vars => IInv'
  <2>1. IInv /\ UNCHANGED vars => IInv'
    <3> SUFFICES ASSUME IInv, UNCHANGED vars PROVE IInv'
      OBVIOUS
    <3>1. /\ UNCHANGED <<sizes, m_fragments, delivered, got, evicted>>
          /\ UNCHANGED <<next, Sending, network, m_lastFragCleanup, now>>
      BY DEF vars, sender, receiver
    <3>2. TypeOK'
      BY <3>1 DEF IInv, TypeOK
    <3> QED BY <3>1, <3>2, SameInv
  <2> QED BY <2>1, StepInv
<1> QED BY <1>1, InitInv, PTL DEF Spec

----------------------------------------------------------------------------
(* The theorems *)

\* TYPE CORRECTNESS, also when sequence numbers are used again: a partial
\* frame has a place for every fragment that can be stored in it
\* (ViewerNetworkImpl::ReceiveDataFrame).
THEOREM TypeCorrect == Spec => []TypeOK
<1>1. TypeOK /\ [Next]_vars => TypeOK'
  <2>1. TypeOK /\ UNCHANGED vars => TypeOK'
    BY DEF TypeOK, vars, sender, receiver
  <2> QED BY <2>1, TypesStep
<1> QED BY <1>1, InitTypes, PTL DEF Spec

\* Until the 16-bit number is used a second time, what ReceiveDataFrame hands
\* over is always one whole frame of SendDataFrame, under its own header.
THEOREM Reassembly ==
  ASSUME NoWrap
  PROVE  Spec => ImplementsLossyFrames
<1>1. Init => Channel!Init
  BY DEF Init, Channel!Init
<1>2. IInv /\ [Next]_vars => [Channel!Next]_(Channel!vars)
  <2>1. UNCHANGED vars => UNCHANGED Channel!vars
    BY DEF vars, sender, receiver, Channel!vars
  <2>2. IInv /\ Next => (Channel!Next \/ UNCHANGED Channel!vars)
    BY StepInv DEF Channel!vars
  <2> QED BY <2>1, <2>2
<1> QED BY <1>1, <1>2, Invariance, PTL DEF Spec, ImplementsLossyFrames, Channel!Spec

\* And no frame is held up once all its fragments have come, whatever their
\* order and whatever else is being put together.
THEOREM NothingHeldUp ==
  ASSUME NoWrap
  PROVE  Spec => []Complete
<1>1. IInv => Complete
  <2> SUFFICES ASSUME IInv, NEW f \in DOMAIN sizes,
                      sizes[f] \in 2 .. FragLimit,
                      \A i \in 0 .. sizes[f] - 1 : <<f, i>> \in got,
                      SeqOf(f) \notin evicted,
                      ~ \E d \in delivered : d.header = f
               PROVE  FALSE
    BY DEF Complete
  <2>1. /\ TypeOK /\ EntriesSound /\ GotKept /\ f \in 1 .. MaxFrames
        /\ sizes[f] \in Nat /\ sizes[f] > 0 /\ FragLimit \in Nat /\ sizes[f] <= FragLimit
    BY SizesFacts, ConstantFacts DEF IInv
  <2>2. \A i \in 0 .. sizes[f] - 1 :
          SeqOf(f) \in Entries /\ i \in m_fragments[SeqOf(f)].receivedMask
    <3>1. ASSUME NEW i \in 0 .. sizes[f] - 1
          PROVE  SeqOf(f) \in Entries /\ i \in m_fragments[SeqOf(f)].receivedMask
      <4>1. PICK p \in got : p = <<f, i>>
        OBVIOUS
      <4>2. p[1] = f /\ p[2] = i
        BY <4>1
      <4> QED BY <2>1, <4>2 DEF GotKept
    <3> QED BY <3>1
  <2>3. SeqOf(f) \in Entries
    BY <2>1, <2>2
  <2>4. PICK g \in DOMAIN sizes :
          /\ SeqOf(g) = SeqOf(f) /\ PartOf(m_fragments[SeqOf(f)], g)
          /\ m_fragments[SeqOf(f)].receivedMask # AllMask(sizes[g])
    BY <2>1, <2>3 DEF EntriesSound
  <2>5. g = f
    BY <2>1, <2>4, SizesFacts, NoIdTwice
  <2>6. m_fragments[SeqOf(f)].receivedMask = 0 .. sizes[f] - 1
    BY <2>2, <2>4, <2>5 DEF PartOf
  <2>7. AllMask(sizes[f]) = 0 .. sizes[f] - 1
    BY <2>1 DEF AllMask
  <2> QED BY <2>4, <2>5, <2>6, <2>7
<1> QED BY <1>1, Invariance, PTL

\* And a frame with more fragments than receivedMask has bits is never handed
\* over, nor part of it.
THEOREM TooLargeLost ==
  ASSUME NoWrap
  PROVE  Spec => []TooLargeNeverDelivered
<1>1. IInv => TooLargeNeverDelivered
  BY DEF IInv, DeliveredSound, TooLargeNeverDelivered, Channel!Whole
<1> QED BY <1>1, Invariance, PTL
=============================================================================
