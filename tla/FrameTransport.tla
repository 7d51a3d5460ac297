--------------------------- MODULE FrameTransport ---------------------------
(***************************************************************************)
(* The UDP data channel: AgentNetworkImpl::SendDataFrame cuts a frame that *)
(* does not fit one datagram into fragments, the network loses, reorders   *)
(* and duplicates datagrams, ViewerNetworkImpl::ReceiveDataFrame puts the  *)
(* fragments together again in m_fragments, keyed by a 16-bit id.          *)
(*                                                                         *)
(* A frame is a number (the order of the calls of SendDataFrame) and a     *)
(* count of chunks; chunk i of frame f is <<f, i>>.  A datagram that fails *)
(* to decrypt, or whose header does not parse, is dropped by the receiver  *)
(* and so is the same as a lost one.  Audio frames always fit one datagram *)
(* and their sequence number is not looked at, so they are frames of one   *)
(* chunk here.                                                             *)
(***************************************************************************)
EXTENDS Naturals, Sequences, FiniteSets

CONSTANTS SeqMod,      \* sequence numbers are modulo this (2^16)
          FragLimit,   \* bits of receivedMask (32)
          MaxEntries,  \* hard cap on m_fragments (64)
          StaleAfter,  \* age at which a partial frame is dropped (5000 ms)
          Sizes,       \* bound: chunks per frame
          MaxFrames,   \* bound: frames sent
          MaxTime,     \* bound: the receiver's clock
          Empty        \* a chunk that has not arrived

ASSUME TransportAssumption ==
    /\ SeqMod \in Nat \ {0} /\ FragLimit \in Nat \ {0}
    /\ MaxEntries \in Nat /\ StaleAfter \in Nat
    /\ Sizes \subseteq Nat \ {0}
    /\ MaxFrames \in Nat /\ MaxTime \in Nat
    /\ Empty \notin Nat \X Nat

VARIABLES sizes,      \* sizes[f]: chunks of frame f, for each frame begun
          next,       \* index of the next fragment to send; Sending says whether
          Sending,    \* SendDataFrame is in its loop
          network,    \* datagrams <<f, i>> handed to the network
          m_fragments,        \* id -> partial frame; totalFrags = 0: no entry
          m_lastFragCleanup,
          now,        \* Timer::NowMs() of the viewer
          delivered,  \* what ReceiveDataFrame has returned
          got,        \* fragments that reached the viewer (history)
          evicted     \* ids dropped by the clean-up (history)

sender   == <<sizes, next, Sending, network>>
receiver == <<m_fragments, m_lastFragCleanup, delivered, got, evicted>>
vars     == <<sender, receiver, now>>

Ids == 0 .. SeqMod - 1
SeqOf(f) == f % SeqMod

NoEntry == [totalFrags |-> 0, receivedMask |-> {}, chunks |-> <<>>, firstSeen |-> 0]
Entries == {id \in Ids : m_fragments[id].totalFrags # 0}

----------------------------------------------------------------------------
Init ==
    /\ sizes = <<>> /\ next = 0 /\ Sending = FALSE /\ network = {}
    /\ m_fragments = [id \in Ids |-> NoEntry]
    /\ m_lastFragCleanup = 0
    /\ now = StaleAfter + 1      \* the clock counts from the start of the machine
    /\ delivered = {} /\ got = {} /\ evicted = {}

\* NetworkSendThread takes a frame from m_videoSendQueue and the next number.
BeginFrame ==
    /\ ~Sending
    /\ Len(sizes) < MaxFrames
    /\ \E n \in Sizes : sizes' = Append(sizes, n)
    /\ next' = 0 /\ Sending' = TRUE
    /\ UNCHANGED <<network, receiver, now>>

SendOneTooMany ==           \* mutant of SendFragment: <= in the loop's test
    /\ Sending
    /\ network' = network \cup {<<Len(sizes), next>>}
    /\ next' = next + 1
    /\ Sending' = (next + 1 <= sizes[Len(sizes)])
    /\ UNCHANGED <<sizes, receiver, now>>

\* One turn of the fragment loop, or the single datagram of a small frame.
SendFragment ==
    /\ Sending
    /\ network' = network \cup {<<Len(sizes), next>>}
    /\ next' = next + 1
    /\ Sending' = (next + 1 < sizes[Len(sizes)])
    /\ UNCHANGED <<sizes, receiver, now>>

\* sendto or the encryption fails: SendDataFrame returns false, and what it
\* has already sent stays sent.
SendFails ==
    /\ Sending
    /\ Sending' = FALSE
    /\ UNCHANGED <<sizes, next, network, receiver, now>>

----------------------------------------------------------------------------
\* m_fragments[id] as the fragment of an n-fragment frame finds it.
Entry(id, n) ==
    IF m_fragments[id].totalFrags # 0 THEN m_fragments[id]
    ELSE [totalFrags |-> n, receivedMask |-> {},
          chunks |-> [i \in 0 .. n - 1 |-> Empty], firstSeen |-> now]

StoreAnyCount(b, f, i) ==   \* mutant of Store: totalFrags is not bounded
    IF /\ i < b.totalFrags
       /\ b.chunks[i] = Empty
    THEN [b EXCEPT !.chunks[i] = <<f, i>>,
                   !.receivedMask = @ \cup {i % FragLimit}]
    ELSE b

StoreToggles(b, f, i) ==    \* mutant of Store: a duplicate clears its bit
    IF i < b.totalFrags /\ b.totalFrags <= FragLimit
    THEN [b EXCEPT !.chunks[i] = <<f, i>>,
                   !.receivedMask = IF i \in @ THEN @ \ {i} ELSE @ \cup {i}]
    ELSE b

Store(b, f, i) ==
    IF /\ i < b.totalFrags
       /\ b.totalFrags <= FragLimit
       /\ b.chunks[i] = Empty
    THEN [b EXCEPT !.chunks[i] = <<f, i>>, !.receivedMask = @ \cup {i}]
    ELSE b

AllMask(n) == IF n < FragLimit THEN 0 .. n - 1 ELSE 0 .. FragLimit - 1

\* The fragment branch of ReceiveDataFrame: store, and hand the frame over as
\* soon as every bit is set.  The header is that of the last fragment.
ReceiveFragment(f, i) ==
    LET id == SeqOf(f)
        b  == Store(Entry(id, sizes[f]), f, i)
    IN  /\ sizes[f] > 1
        /\ IF b.receivedMask = AllMask(b.totalFrags)
           THEN /\ delivered' = delivered \cup
                     {[header |-> f, data |-> [k \in 1 .. b.totalFrags |-> b.chunks[k - 1]]]}
                /\ m_fragments' = [m_fragments EXCEPT ![id] = NoEntry]
           ELSE /\ m_fragments' = [m_fragments EXCEPT ![id] = b]
                /\ UNCHANGED delivered
        /\ got' = got \cup {<<f, i>>}
        /\ UNCHANGED <<m_lastFragCleanup, evicted>>

Stale == {id \in Entries : now - m_fragments[id].firstSeen > StaleAfter}

\* What the clean-up may keep: all fresh entries, or, above the cap, the
\* MaxEntries youngest.
Kept == LET fresh == Entries \ Stale
        IN  IF Cardinality(fresh) <= MaxEntries THEN {fresh}
            ELSE {K \in SUBSET fresh :
                    /\ Cardinality(K) = MaxEntries
                    /\ \A k \in K, e \in fresh \ K :
                         m_fragments[e].firstSeen <= m_fragments[k].firstSeen}

CleanUp ==
    IF now - m_lastFragCleanup > StaleAfter
    THEN /\ m_lastFragCleanup' = now
         /\ \E K \in Kept :
              /\ m_fragments' = [id \in Ids |-> IF id \in K THEN m_fragments[id] ELSE NoEntry]
              /\ evicted' = evicted \cup (Entries \ K)
    ELSE UNCHANGED <<m_lastFragCleanup, m_fragments, evicted>>

\* A frame of one datagram: the clean-up, then the frame is handed over.
ReceiveSingle(f) ==
    /\ sizes[f] = 1
    /\ CleanUp
    /\ delivered' = delivered \cup {[header |-> f, data |-> <<<<f, 0>>>>]}
    /\ UNCHANGED got

\* ReceiveDataFrame: any datagram the network holds may arrive, again and
\* again, in any order; one that never arrives is lost.
Receive ==
    /\ \E p \in network : ReceiveFragment(p[1], p[2]) \/ ReceiveSingle(p[1])
    /\ UNCHANGED <<sender, now>>

Tick ==
    /\ now < MaxTime
    /\ now' = now + 1
    /\ UNCHANGED <<sender, receiver>>

Next == BeginFrame \/ SendFragment \/ SendFails \/ Receive \/ Tick

Spec == Init /\ [][Next]_vars

----------------------------------------------------------------------------
EntryOf(n) ==
    [totalFrags : {n}, receivedMask : SUBSET (0 .. n - 1),
     chunks : [0 .. n - 1 -> (Nat \X Nat) \cup {Empty}], firstSeen : Nat]

TypeOK ==
    /\ sizes \in Seq(Sizes) /\ Len(sizes) <= MaxFrames
    /\ next \in Nat /\ Sending \in BOOLEAN
    /\ Sending => sizes # <<>> /\ next < sizes[Len(sizes)]
    /\ \A p \in network : p \in Nat \X Nat /\ p[1] \in DOMAIN sizes /\ p[2] < sizes[p[1]]
    /\ DOMAIN m_fragments = Ids
    /\ \A id \in Ids : \/ m_fragments[id] = NoEntry
                       \/ \E n \in Sizes : m_fragments[id] \in EntryOf(n)
    /\ m_lastFragCleanup \in Nat /\ now \in Nat
    /\ got \subseteq network
    /\ evicted \subseteq Ids

\* REASSEMBLY IS SOUND.  While the sequence number has not wrapped, whatever
\* order fragments arrive in, however often, and whatever the clean-up drops,
\* ReceiveDataFrame hands over whole frames of the agent and nothing else.
Channel == INSTANCE LossyFrames
ImplementsLossyFrames == Channel!Spec

\* REASSEMBLY IS COMPLETE.  A frame of at most FragLimit fragments whose
\* fragments have all arrived has been handed over, unless the clean-up took
\* some of them away: no arrival order, duplicate or neighbour can hold it up.
Complete ==
    \A f \in DOMAIN sizes :
        /\ sizes[f] \in 2 .. FragLimit
        /\ \A i \in 0 .. sizes[f] - 1 : <<f, i>> \in got
        /\ SeqOf(f) \notin evicted
        => \E d \in delivered : d.header = f

\* A frame that needs more fragments than receivedMask has bits is never
\* handed over, in whole or in part.
TooLargeNeverDelivered ==
    \A d \in delivered : d.header \in DOMAIN sizes /\ sizes[d.header] <= FragLimit
=============================================================================
