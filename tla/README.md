# Verification of Auto-RemoteControl

TLA+ models, TLC runs and TLAPS proofs of the remote-desktop system in this
repository: the **Agent** captures the desktop of a Windows machine, encodes
it and sends it over UDP; the **Viewer** decodes and shows it, and sends
keyboard and mouse input back over TCP. Both are C++ programs of several
threads joined by bounded queues.

## 1. The system

### Components

| Component | State it keeps | Operations | What makes it correct |
|---|---|---|---|
| `ThreadSafeQueue` (`Common/Utils`) | content, closed flag, two condition variables | push, tryPush, tryPop, pop, close, reopen | linearizable FIFO, bounded, no lost wake-up, close releases everyone |
| Data channel (`AgentNetworkImpl::SendDataFrame`, `ViewerNetworkImpl::ReceiveDataFrame`) | sequence numbers; `m_fragments`: partial frames by 16-bit id | cut into fragments, encrypt, send; receive, reassemble, clean up | only whole frames are handed over, and every frame that arrived in full |
| Session control (`AgentSession`, `AgentNetworkImpl`, `ViewerNetworkImpl`) | sockets, `m_connected`, `m_clientConnected`, `m_encrypted`, `m_secureChannel`, `m_dh`, `m_udpDestAddr`, `m_inputQueue` | connect, challenge, key exchange, session start, message loop, start-up, shutdown | only the password opens the desktop, no frame in the clear, both ends agree, nobody is held up |
| Viewer playback (`ViewerSession`) | `m_videoQueue`, `m_latestFrame` with a texture reference, `m_decodedFrameId`, `m_lastRenderedFrameId`, the pending resize | receive, decode, publish, snapshot, draw, wait, resize, stop | references balanced, newest picture shown, resize applied, Stop returns |
| Capture pipeline (`DxgiScreenCapture`, `AgentSession::CaptureThread`, `EncoderManager`) | duplication, ring of 12 textures and index, `videoInputQueue` of 96 | acquire, copy, submit, encode, reinitialize | references balanced, a queued frame keeps its picture, capture survives a lost desktop |
| `CaptureManager` | D3D11 device, capture objects | facade | - |
| Video encoder (`MfVideoEncoder`, encode thread of `EncoderManager`) | a Media Foundation transform and what it looked ahead at, D3D device, `m_frameIndex`, `m_needKeyFrame`, a validated video processor | choose a transform, convert, feed in three ways, drain, request a key frame | the best transform that works is chosen, no frame is encoded twice, a key frame that is needed comes, encoding goes on |
| Video decoder (`MfVideoDecoder`) | a transform, stream size, output textures with references | feed, drain, renegotiate the output type, feed again | references balanced, the newest picture returned, decoding goes on after a stream change |
| Colour conversion (`BgraToNv12Parallel`, `Nv12ToBgraParallel`, `WorkerThreadPool`) | task queue, count of pending tasks, rows of the picture | enqueue chunks, wait for all, destroy the pool | every row is converted when `WaitAll` returns, and it returns |
| Audio (`WasapiAudioCapture`, `MfAudioEncoder`, `MfAudioDecoder`, `WasapiAudioRenderer`) | WASAPI buffers, queues of 64, 16, 32 and 128 | capture, encode, decode, play | the buffer never blocks for good |
| Input (`ViewerWindow`, `ViewerSession`, `AgentSession`, `InputInjectorImpl`) | input control on or off, focus, send queue of 64, `m_inputQueue` of 32 | translate, queue, send, receive, inject | every key that goes down comes up, events stay in order |
| Messages (`ControlMessage`, `FrameHeader`) | none | serialize, deserialize | round trip |
| Security (`Authenticator`, `DiffieHellman`, `SecureChannel`, `AesGcm`) | challenge, key pair, key | HMAC, DH, AES-GCM | idealised here |
| `RingBuffer` | slots with a ready flag | used by nothing | - |
| Renderer, overlay, configuration, logging, timers | - | GPU calls and I/O | - |

### How they interact

Agent: `CaptureThread` -> `videoInputQueue` -> encode thread of
`EncoderManager` -> `m_videoSendQueue` -> `NetworkSendThread` -> UDP. The accept
thread handles the one control connection (handshake, then messages) and fills
`m_inputQueue` for `InputInjectThread`. Shared between threads without a lock:
`m_running`, `m_clientConnected`, `m_connected`, `m_encrypted` (atomics), but also
`m_secureChannel` and `m_udpDestAddr` (plain members).

Viewer: `NetworkReceiveThread` (UDP and control messages) -> `m_videoQueue` ->
`VideoDecodeThread` -> `m_latestFrame` under `m_frameMutex` -> `RenderThread`; the
window's thread hands over resizes under `m_renderMutex`, queues input for
`InputSendThread`, and stops everything.

### What is hard in it

Interleavings around the condition variables and the snapshot of the picture;
frames still on their way when the viewer changes; failure in the middle of a
handshake or of the start-up; fragments lost, duplicated, reordered and evicted;
a ring of textures shorter than the queue behind it; a desktop that goes away;
transforms that look ahead, refuse input and change their stream under fallbacks
that feed a frame in several ways; condition variables that are notified after
the unlock; keys that are held while the path to the agent is cut.
`PROJECT.json` lists these under "hazards", each at its line, with the
properties that look for it or the reason why none does yet.

## 2. Modules

| Module | Models | Lines of code |
|---|---|---|
| `ThreadSafeQueue` | `Common/Utils/ThreadSafeQueue.h`, every operation | 13-107 |
| `BoundedFifo` | what callers may rely on: calls that take effect atomically on a bounded FIFO | abstract |
| `FrameTransport` | `SendDataFrame`, `ReceiveDataFrame`, the network between them | `AgentNetworkImpl.cpp` 301-415, `ViewerNetworkImpl.cpp` 330-455 |
| `LossyFrames` | what the data channel promises: whole frames, in any order, or nothing | abstract |
| `ViewerPlayback` | the video threads of the viewer and its window thread | `ViewerSession.cpp` 134-231, 343-593 |
| `Session` | control connection, encryption state, frames and input on their way | `AgentNetworkImpl.cpp` 92-346, `AgentSession.cpp` 13-182, 369-385, `ViewerNetworkImpl.cpp` 13-328 |
| `CapturePipeline` | duplication, texture ring, submit, encode | `DxgiScreenCapture.cpp` 107-216, 420-670, `AgentSession.cpp` 184-278, `EncoderManager.cpp` 100-225 |
| `WorkerThreadPool` | `Common/Utils/WorkerThreadPool.h`, every operation | 16-104 |
| `ColorConversion` | the two conversions that split their rows among the pool | `MfVideoEncoder.cpp` 959-986, `MfVideoDecoder.cpp` 371-397 |
| `PixelConversion` | the arithmetic of the conversions on one colour | `BgraToNv12Chunk`, `Nv12ToBgraChunk` |
| `EncoderSetup` | device, resolution ladder, the four lists of transforms and the attempts on each | `MfVideoEncoder.cpp` 79-904 |
| `VideoEncoder` | the encode thread from there on (EXTENDS `EncoderSetup`) | `MfVideoEncoder.cpp` 24-70, 998-1012, 1127-1827, `EncoderManager.cpp` 67-135 |
| `VideoDecoder` | set-up, both decode calls, both drains, the decode thread around them | `MfVideoDecoder.cpp` 22-1210, `ViewerSession.cpp` 60-70, 506-546 |
| `InputPath` | keys and buttons from the window procedure to SendInput | `ViewerWindow.cpp`, `ViewerSession.cpp`, `AgentSession.cpp`, `InputInjectorImpl.cpp` |
| `ThreadSafeQueueProofs`, `FrameTransportProofs`, `ViewerPlaybackProofs`, `SessionProofs`, `CapturePipelineProofs`, `ColorConversionProofs`, `VideoEncoderProofs`, `VideoDecoderProofs` | theorems about the modules they are named after | |
| `MC*` | small instances for TLC | |

Each operator has the name of the variable, function or step it stands for,
and "map" in `PROJECT.json` gives its lines. Operators marked "mutant of" are
not part of any specification: each is a plausible bug in the operator below it, kept to
show that a property can fail.

**ThreadSafeQueue.** One step per critical section. A thread is `idle`, about to
`lock`, in a `wait` (blocked on the condition variable of its operation),
`timedOut`, about to `notify` after the unlock (push, pop, tryPop), or about to
`return`. tryPush notifies under the lock, and does not look at `m_closed`; both
are as in the code. Spurious wake-ups and the choice of the thread that
notify_one wakes are nondeterministic. Any thread may call any operation,
though this repository calls only tryPush, tryPop, close and size.

**FrameTransport.** A frame is a number and a count of chunks, a datagram a pair
of frame and chunk; `network` is the set of datagrams ever sent, so loss,
duplication and reordering are all the same: a datagram arrives any number of
times, at any later moment. The reassembly keeps `receivedMask` as the set of its
bits. `Kept` leaves open which of several entries of the same age the eviction
takes, as the unordered map does. Sequence numbers are modulo `SeqMod`.

**ViewerPlayback.** One step per critical section or access to an atomic. The
mutex is a variable where a thread may be found inside (`Replace` to `Publish`,
and the wait's test of its predicate to its blocking); the other sections are
one step. `refs` counts the references the program holds on each texture.

**Session.** The agent's accept thread goes through the handshake step by step,
with the three writes after the key exchange (`m_secureChannel`, its key,
`m_encrypted`) apart. Any number of viewers; each has the right or a wrong
password and encrypts or not, as does the agent (`config`). TCP is a queue in each
direction. The timeouts of the handshake (10 s and 15 s) may strike at any time.
A viewer can quit or die at any point; `config.polite` viewers send
SESSION_STOP when they leave, which the agent handles although this
repository's viewer does not send it: it is the only way in which the agent
comes to accept a second viewer after a whole session. Frames on their way through the agent's
queues are a count, `pipeline`; `TakeFrame`, `Encrypt` and `SendTo` are the send thread, which
reads the encryption state without a lock. If the channel object is replaced
meanwhile, the frame is encrypted with whatever the freed memory yields
(`Garbage`, the old key, or a failure).

**CapturePipeline.** Copies are numbered, `content` gives the last copy in each
texture; textures are told apart by the making of the pool they come from. The
desktop may go away at any time and change its pixel format.
Any creation of a texture may fail. Pixels are not modelled, so a frame whose
sample is due may always be found identical.

**WorkerThreadPool, ColorConversion.** One step per section under `m_mutex`;
the two notifications follow the unlock in steps of their own, and waits may
return for no reason. The client is the thread that converts, the pool a
static object that is destroyed when the program ends. `rows` holds, for
each row of the buffer, the number of the picture it was last converted from, so a row
that was skipped, or converted after `WaitAll` returned, can be seen. `EvenRows` and
`CeilRows` are the two ways in which the code splits the rows.

**PixelConversion.** The integer arithmetic with its casts to a byte, for an area
of one colour; Media Foundation between the two is the identity.

**EncoderSetup.** `lists` holds which transforms each of the four lists offers
and how far each gets (no activation, no output type, no input type, or works);
`todo` are the positions that are left of the list being tried, of which the first is
next, `stage` is the list, `rung` and `order` the attempt. `FirstThatWorks` compares the
outcome with the first of `Usable`, which knows nothing of attempts; first is meant in the order of
`Place`: H.264 hardware, above 1080p HEVC hardware and HEVC software, H.264 software. `crashed` are the transforms whose
`Initialize` raised a structured exception, caught as in the code.

**VideoEncoder.** `step` says where in `EncodeFrameGpu` or `EncodeFrame` the encode
thread is. The transform is external: `inside` are the frames it keeps, `ready` the outputs
that wait; it may refuse a frame only while output waits, and has output
once it has looked ahead far enough. `fresh` stands for a flushed transform, whose
next output is a key frame. The three ways to feed a frame (texture, uploaded
texture, memory) answer a refusal in three different ways, as in the code.

**VideoDecoder.** As the encoder, with a transform that may change its stream
(`change`), give its own textures or bytes (`backing`), break for good and
swallow the packet during a change. `refs` counts the references on each
texture; `out` is the call's picture, `latest` what the decode thread
published; `early` are the pictures drained after a refusal.

**InputPath.** Events are numbered; both queues are the code's `tryPush`. `missed` is
history: the keys whose last change never left the window, was lost since, or was left in the
closed queue when `InputSendThread` ended: `ToSend` is what that thread will still send, and
only that counts as on its way (`InFlight`). The user goes on pressing and letting go keys after
`Quit`, unseen by the viewer. As its queues
are ThreadSafeQueues, what is proved of it stands in `ThreadSafeQueueProofs`, which extends
both modules; hence the names `InputInit`, `InputNext`, `InputSpec`.

## 3. Runs

Passing runs (state counts are of distinct states):

| Run | Bounds | Shows |
|---|---|---|
| `queue` | 3 threads, 2 items, capacity 2; 312 008 states | types; `NoLostWakeup`; close ends every call, tryPop always returns, an item reaches a blocked consumer; the queue refines `BoundedFifo` |
| `transport` | 3 frames of 1 to 3 chunks, 2 bits of mask, 1 entry kept by the clean-up, 3 ids, clock to 5; 1 212 166 states | types; `Complete`; frames over the limit are never delivered; refinement of `LossyFrames` |
| `playback` | 3 frames, queue of 2, 2 resizes; 176 238 states | types; `TexturesCounted`; the screen keeps up with the counter and only advances; the last picture is shown; at fixed rate resizes are applied and Stop returns |
| `session` | 2 viewers, 1 input and 1 frame on their way, queue of 1; 630 426 states | types; `OnlyAuthenticated`; `NothingInTheClear`; `EndsAgree`; each handshake and each failed start ends |
| `pipeline` | ring of 2, queue of 3, 6 copies, sample every 2nd frame, 2 formats, pool made 3 times; 1 139 620 states | types; `TexturesCounted`; `FullTurn` |

| `conversion` | 3 workers, pictures of 3, 4 and 7 rows, serial below 4, 2 pictures | `NoTaskLeftBehind`; `Whole`; each conversion and the destructor end |
| `encoder` | 2 transforms in 4 lists, ladder of 2, 3 numbered frames and the rest, 3 frames kept, look-ahead 2, a key frame every 3, 2 failures | `FirstThatWorks`; `NothingTwice`; `KeyOnItsWay`; frames that come as textures are encoded for ever |
| `decoder` | 3 numbered packets and the rest, 3 kept, look-ahead 2, 2 stream changes, 2 failures; 953 596 states | `TexturesHeld`; `NewestReturned`; `FedAgainOnlyAfterChange`; decoding goes on |
| `input` | 1 key, 1 button, queues of 2 and 1, 1 message on the wire, 7 things the user does; 587 540 states | `InStep`; `InOrder`; keys come up |

Why these bounds are enough. Queue: one producer and two consumers, or the
reverse, is the smallest case in which a notification can go to the wrong
thread, and a capacity of 2 has a state that is neither empty nor full. Transport: one size
below, one at and one above the limit of the mask; two partial frames exceed
the cap; the clock lets an entry age past the limit twice. Playback: three
pictures let one be replaced while the next is drawn, and one be dropped. Session:
the second viewer meets everything the first one leaves behind. Pipeline: the
queue is longer than the ring, as in the code (96 against 12), and the copies
lap the ring more than once. Conversion: one height is converted serially, one
splits evenly, one leaves a remainder (and, on the encoder, rows below the
last chunk); three workers can be busy, asleep and on their way at once; the
second picture meets the rows of the first. Encoder: two transforms give every
order of two lists; with a look-ahead of 2 the transform keeps a frame while the next is
fed, and with 3 it may refuse; the counter of key frames wraps; two failures let
a frame fail in two ways and fall through to the third. The numbered frames are followed
by any number that share one number, so the transform is observed well past
them. Decoder: two changes can hit the same packet or different ones. Input: seven
events press, hold and release both, with the toggle or the focus
between them, and fill both queues.

Deadlock is checked in `queue` and `pipeline`. The others may stop by right:
all frames sent, all threads joined, all viewers gone, the pool destroyed, no
transform found, the transform broken, the user done; that nothing stops
earlier is what their liveness properties say.

Runs that fail, each a statement of the repository that the code does not keep
(the findings of `PROJECT.json` quote it):

| Run | Property | What happens |
|---|---|---|
| `viewer_stop` | `StopCompletes` | Stop's notification falls between the render thread's look at `m_running` and its wait (variable frame rate); the join never returns |
| `viewer_gone` | `DisconnectNoticed` | the agent does not notice that the viewer has closed the connection and accepts nobody else |
| `luma` | `GreysStayBright` | the CPU conversion computes full-range luma and adds 16; from grey 241 on the byte wraps, and white is shown black |

Disagreements with the code's comments that the listed runs do not include have
configurations to run by hand (`tlc -config <cfg> <module>`; each ends in a counterexample):

| Configuration | Property | What happens |
|---|---|---|
| `MCViewerCpu.cfg` of `MCViewerPlayback` | `DebugCopyCanLock` | the CPU decode path locks `m_frameMutex` twice (`ViewerSession.cpp:577`) |
| `MCSessionPort.cfg` of `MCSession` | `ViewerReachable` | without encryption the agent never learns the viewer's UDP port (`AgentNetworkImpl.cpp:148`) |
| `MCCaptureRing.cfg` of `MCCapturePipeline` | `EncoderSeesItsFrame` | a queued frame is overwritten by a later one (`DxgiScreenCapture.cpp:574`) |
| `MCCaptureResume.cfg` of `MCCapturePipeline` | `CaptureResumes` | a duplication that could not be had again at once is never asked for again (`DxgiScreenCapture.cpp:443`) |
| `MCEncoderStuck.cfg` of `MCVideoEncoder` | `RawEncodingGoesOn` | an uploaded frame that is refused ends the call, and nothing ever drains the output that waits (`MfVideoEncoder.cpp:1621`) |
| `MCEncoderHevc.cfg` of `MCVideoEncoder` | `HevcFirst` | the comment at `MfVideoEncoder.cpp:240-243` says that above 1080p HEVC is tried first; the code tries H.264 hardware first, as its later comment at :251 says, and `FirstThatWorks` states the order of the code |

What else the models show of the code, which the properties therefore allow for:

* `BgraToNv12Parallel` rounds the rows per thread down to an even number: of 900
  rows on 8 threads the last 4 keep what the buffer held (`Covered`).
* An output drained after a refusal is thrown away: a key frame among them is lost until
  the next output (`keyLost`), and on the decoder the texture of the last one is
  leaked (`early`).
* With a frame in memory a refusal is taken for acceptance: the frame is lost.
* Outputs are stamped by count, so frames that were looked ahead at share a time stamp;
  the GPU path does not scale for a lower rung of the ladder.
* A packet swallowed by a stream change is lost when the call has a picture
  already; one the transform kept is decoded twice.
* A transform that gives bytes on the GPU path has no size until its stream changes.
* A key that is held when the focus goes, Scroll Lock is pressed, a queue is full or the viewer
  quits stays down at the agent (`missed`); so does one whose release is in `m_inputSendQueue`
  when the viewer quits, as `InputSendThread` leaves its loop without emptying the queue
  (`ViewerSession.cpp:614`).
* A type without a frame size is taken for the format, with size 0 (`MfVideoDecoder.cpp:480`): on
  the CPU path nothing is returned from then on until the stream changes, which `DecodingGoesOn`
  excepts.
* `Initialize` does not look at whether the desktop could be duplicated at all
  (`DxgiScreenCapture.cpp:93`); if not, nothing is ever captured.


`FairSpec` of each module states the fairness: weak fairness of the threads (the
operating system runs a thread that can run) and no more about the user, the
network, the peer or the desktop. In `ThreadSafeQueue` the timeout of tryPop is
strongly fair: a thread that is woken and finds nothing goes on waiting for the
rest of the time only, so a wait that is entered again and again does end. In
`Session` the timeouts of the handshake are part of the accept thread's step, so its
weak fairness includes that a receive which gets nothing ends. In `VideoEncoder` and `VideoDecoder`
frames and packets keep coming, which the capture and receive threads see to,
and the number of failing calls is bounded; fairness is of the thread as a
whole, so no outcome of a call is promised. In `InputPath` only the threads
are fair.

## 4. Proofs

tlapm proves, for every value of the constants that the modules' assumptions
allow (a finite set of threads and a capacity above zero; any set of viewers):

* `ThreadSafeQueueProofs!TypeCorrect`: types and the bound of the content.
  `TypeOK` is inductive: it says what each location implies about a thread's
  operation, item and result.
* `ThreadSafeQueueProofs!NoWakeupIsLost`: `NoLostWakeup` is inductive given the types. Each
  action changes the content by one and the sets of threads on their way by one; the
  four counting lemmas (`Grows`, `Loses`, `Joins`, `Replaces`) turn set
  inclusions into the inequalities.
* `ThreadSafeQueueProofs!QueueIsFifo`: every step is a step of `BoundedFifo` or leaves its
  variables alone, with `Status` as the refinement mapping: the critical
  section that changes or refuses is where a call takes effect.
* `ThreadSafeQueueProofs!InjectedInOrder` and `AgentInStep`, of `InputPath`, for any keys and
  capacities. `PathInv` has three parts: types; `PathOrder`, that each queue is in order, and
  what is in one is behind what is in the next; and `PathInStep`, which is `InStep` with
  the events on the way as a set and the highest number as the last. A step then moves an
  event (the set stays the same), adds the newest, injects the oldest or loses one, and `WillAdd`,
  `WillInject` and `WillDrop` say what each does to a key: a lost event with a later one of
  its key behind it changes nothing. When the connection breaks or the send thread ends with
  events in its queue, their keys are missed (`LosesMissed`). Only at the end are the four queues put together
  (`InFlightFacts`), where position and number agree.
* `FrameTransportProofs!TypeCorrect`, with no hypothesis, and, under `NoWrap`, `Reassembly`,
  `NothingHeldUp` and `TooLargeLost`. `NoWrap == MaxFrames <= SeqMod` says that no 16-bit
  sequence number is used for two frames; beyond that the first two are false, as
  the hazard at `AgentSession.cpp:328` says, and the code does nothing against it. It is the
  condition the run's bounds satisfy too. The inductive invariant is
  `EntriesSound` (an entry holds chunks of one frame, each in its place, and is not yet
  full), `DeliveredSound` (what was handed over is a whole frame within the limit) and `GotKept`
  (a fragment that arrived is in its entry, or its frame was handed over, or the clean-up took
  it). With it every step is one of `LossyFrames` or leaves its variables alone, and a
  full entry that was not handed over is a contradiction.
* `ViewerPlaybackProofs!TypeCorrect`, `Counting`, `NothingSkipped` and the action property
  `NeverBack`, for any queue and any number of pictures. `InOrder` says that pictures
  stay in order from the network through the queue and the decode thread's hand to the published ones;
  `Latest`, that `m_latestFrame` is the last published picture or the one about
  to be; `Screen`, that the picture the render thread took is no older than the number it
  read before, and the screen no newer than the picture it took. `Counted` is stronger than
  `TexturesCounted` in that it also holds on the CPU path, where nothing is counted.
* `SessionProofs!TypeCorrect`: types, the bound of `m_inputQueue`, and that the accept
  thread has a client wherever it uses one.
* `SessionProofs!OnlyPasswordIsServed`: `OnlyAuthenticated` is not inductive. `AuthInv`
  adds that responses under way are honest about the viewer's password, and that the
  client past the challenge has the password.
* `SessionProofs!NothingIsSentInTheClear`: `SecretInv` adds that from the
  key exchange on there is a channel object, that once a handshake is
  complete, and as long as a frame is on its way, the flag is set and the
  channel exists, and that a frame about to be sent carries a key.
* `SessionProofs!EndsAlwaysAgree`: `AgreeInv` relates the place of the accept thread, the place of the
  viewer it serves, and the messages between them. A viewer in the listen queue
  is there once and has been sent nothing (`WaitsOnce`); a key on its way to a viewer that is
  served is of the agent's last key pair (`KeysToViewer`), one on its way back
  is the viewer's own (`KeysToAgent`); a viewer past its key exchange holds what belongs to the
  agent's last key pair (`ViewerKeys`); and `ChannelAgrees` says for each place of the accept
  thread what of the channel, the flag and the address has been set.
* `CapturePipelineProofs!TypeCorrect`, `Counting` and `FullTurnKept`, for any ring and any queue.
  `FullTurn` is about the past, so the invariant says the same of every texture in flight
  (`InFlight`), and of the ring that a slot is written again a full turn later at the earliest
  (`Ring`, counted in the copies until its turn). `OwnSlots` (no texture is in two slots, each
  was made) and `Unwritten` cover the remaking of the pool. Counting needs
  `OwnSlots` beside the types, and a lemma for each way in which the cardinalities of
  `PoolCount` and `QueueCount` change.
* `ColorConversionProofs!TypeCorrect`, `NoTaskIsLeftBehind` and `PictureIsWhole`: for any number of
  workers and pictures of any height. Three parts make the inductive invariant: the pool's
  types; the counting of `NoTaskLeftBehind` (`m_pending` is the tasks in the queue and in
  hands, and each task in the queue of sleeping workers has a worker on its way); and, for
  `Whole`, that every chunk enqueued is in the queue, with a worker, or its rows
  hold the picture. When `WaitAll` returns, the first two are empty. That the chunks
  cover `Covered` is an arithmetical lemma about both ways to split the rows.
* `VideoEncoderProofs!NothingIsEncodedTwice`: `NothingTwice` is not inductive; `OrderInv` adds that
  the frame about to be fed is newer than all the transform keeps as long as it has not
  been accepted, whichever of the three ways it takes. Every step falls into one of
  five kinds (`StepIsOfAKind`), so the set-up's actions need no case of their own.
* `VideoEncoderProofs!KeyFramesComeAsNeeded`: `KeyOnItsWay` is inductive given the types, for every interval
  of key frames and every look-ahead.
* `VideoEncoderProofs!FirstIsChosen`: for any transforms and rungs. `NothingPassedOver` says
  that every transform that could be used is left in the list, in a list to come, or is
  being tried; `CrashedBehind` that those whose set-up crashed are not; `Attempt` what an
  attempt that is under way has refused so far. As the lists are sorted by place, the one
  that is accepted is the first. That a set of positions has a first is the
  well-foundedness of the naturals (`FirstFacts`).
* `VideoDecoderProofs!TexturesAreHeld`: `TexturesHeld` needs to know what a call has in hand where it
  forgets it. `InHand` says so: nothing when a packet comes or is fed again after a stream
  change, and else a picture drained after a refusal. `NothingHeldBefore` covers the
  choice of the path at the end of the set-up.

* `VideoDecoderProofs!NewestIsReturned` and `FedAgainForChange`: while no call has failed
  (`Clean`), nothing waits in the transform outside the drains, so a packet is not refused twice
  (`NothingWaits`); the picture in hand is the newest, of the stream's size
  (`NewestInHand`); and `FedCount` says how often the packet has been accepted at each step, and
  that a change of the stream came with the second time.

Every invariant and every action property that a run checks is proved, and both refinements.
Only model-checked: liveness, as fairness and ENABLED are out of the prover's reach
(`WatchedCloseReleases`, `WatchedTryPopReturns`, `ItemReachesConsumer`, `LastFrameShown`,
`CfrResizeApplied`, `CfrStopCompletes`, `HandshakeEnds`, `FailedInitEnds`, `ConversionEnds`,
`EncodingGoesOn`, `DecodingGoesOn`, `KeysComeUp`). `TypeOK` of `VideoEncoder`, `VideoDecoder` and
`InputPath` (there `InputTypeOK`) hold in TLC and take no place in a configuration; the
proofs use weaker types of their own. The bounds of the constants in `ASSUME` are those that
the code's values satisfy; no theorem but the three under `NoWrap` has a hypothesis.

## 5. Not modelled

Components marked `not_modelled` in `PROJECT.json`, with the reasons. In what is
modelled: QUALITY_ADJUST (no viewer sends it) and with it `SetBitrate`, the size in
SESSION_START (handled like the codec), statistics and logging, a control message cut
in two by a receive timeout, `AgentSession::Stop` (only the end of the process reaches
it: nothing clears `m_running` of a running agent), the CPU capture path (not used),
`Shutdown` of encoder and decoder, what a transform does after a `SetOutputType` that failed
after a stream change (the code logs it and goes on, and so does the model), the search for the layout of a locked NV12 buffer, the
bilinear `DownscaleBgra`, the decoder's own D3D device (its caller always has one), the mouse
wheel and pointer, the clipping of the cursor, and the byte layout of messages.

## 6. Plan

Done: transport, playback, session, capture, conversion, encoder, decoder and
input, with the proofs of section 4. Next:

1. `ControlChannel`: the byte-level framing with timeouts; the wire headers.
2. `AudioPath`: the four queues and the WASAPI buffer.
3. Composition of capture, send, transport and playback at the level of their
   abstract specifications: the viewer's screen only shows pictures of the desktop.

Other theorems worth proving: that a ring longer than the queue by two keeps every queued
frame intact (`EncoderSeesItsFrame` of `CapturePipeline`, which the code's 12 against 96 does not
satisfy); the type invariants of `VideoEncoder`, `VideoDecoder` and `InputPath`; and the safety half
of `LastFrameShown`, that the render thread does not sleep while a picture it has not drawn is
published.
