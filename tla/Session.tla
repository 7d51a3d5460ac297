------------------------------ MODULE Session ------------------------------
(***************************************************************************)
(* The control plane: the agent's accept thread (AgentSession::AcceptThread*)
(* and AgentNetworkImpl::AcceptConnection, PerformHandshake), the viewers  *)
(* that connect to it (ViewerNetworkImpl::Connect, PerformHandshake), the  *)
(* agent's Initialize, which starts the accept thread before the encoder is*)
(* known, and the send thread, which reads what the handshake writes.      *)
(*                                                                         *)
(* A viewer is one run of the program, so it connects once.  The messages  *)
(* of a TCP connection are read whole.  The codec is what the encoder chose*)
(* ("actual") or the value the network object starts with ("default").     *)
(***************************************************************************)
EXTENDS Naturals, Sequences

CONSTANTS Viewers,
          InputCap,    \* capacity of m_inputQueue (32)
          MaxInputs,   \* bound: input messages per viewer
          MaxFrames,   \* bound: frames between the capture and the network
          NoViewer, NoKey, Garbage

ASSUME SessionAssumption ==
    /\ InputCap \in Nat /\ MaxInputs \in Nat /\ MaxFrames \in Nat
    /\ NoViewer \notin Viewers

VARIABLES
    config,       \* what the programs were started with; polite: the viewers
                  \* say SESSION_STOP when they leave (those of Viewer/ do not)
    \* the agent
    m_running, m_connected, m_clientConnected, m_encrypted,
    m_udpDestAddr,     \* <<viewer, "tcp" or "udp">>: whose port is written to
    m_secureChannel,   \* [gen, key]: which object, and its key; gen = 0: none
    m_dh,              \* number of the last key pair
    m_codecType,
    accept,            \* accept thread: [at, client, pub], the peer's public key
    init,              \* where AgentSession::Initialize is
    m_inputQueue, injected,
    pipeline,          \* frames captured and not yet sent
    send,              \* send thread: [at, gen, key]
    datagrams,         \* [to, key] of every datagram sent (history)
    \* the viewers
    viewer,            \* per viewer: [at, key, codec, inputs]
    \* TCP
    backlog, toViewer, toAgent,
    viewerOpen, agentOpen    \* who has closed its end

flags   == <<m_running, m_connected, m_clientConnected>>
crypto  == <<m_encrypted, m_udpDestAddr, m_secureChannel, m_dh>>
inputs  == <<m_inputQueue, injected>>
sending == <<pipeline, send, datagrams>>
tcp     == <<backlog, toViewer, toAgent, viewerOpen, agentOpen>>
vars == <<config, flags, crypto, m_codecType, accept, init, inputs, sending, viewer, tcp>>

Init ==
    /\ config \in [agentEncrypts : BOOLEAN, encrypts : [Viewers -> BOOLEAN],
                   password : [Viewers -> BOOLEAN], polite : BOOLEAN]
    /\ m_running = TRUE /\ m_connected = FALSE /\ m_clientConnected = FALSE
    /\ m_encrypted = FALSE /\ m_udpDestAddr = <<NoViewer, "tcp">>
    /\ m_secureChannel = [gen |-> 0, key |-> NoKey] /\ m_dh = 0
    /\ m_codecType = "default"
    /\ accept = [at |-> "top", client |-> NoViewer, pub |-> NoViewer]
    /\ init = "encoder"
    /\ m_inputQueue = <<>> /\ injected = {}
    /\ pipeline = 0 /\ send = [at |-> "top", gen |-> 0, key |-> NoKey] /\ datagrams = {}
    /\ viewer = [v \in Viewers |-> [at |-> "off", key |-> NoKey, codec |-> "none", inputs |-> 0]]
    /\ backlog = <<>>
    /\ toViewer = [v \in Viewers |-> <<>>] /\ toAgent = [v \in Viewers |-> <<>>]
    /\ viewerOpen = [v \in Viewers |-> FALSE] /\ agentOpen = [v \in Viewers |-> FALSE]

----------------------------------------------------------------------------
(* The viewer *)

ViewerFrame == UNCHANGED <<config, flags, crypto, m_codecType, accept, init, inputs, sending>>

\* The connect succeeds as soon as the agent listens; accept comes later.
Connect(v) ==
    /\ viewer[v].at = "off" /\ init # "shutDown"
    /\ viewer' = [viewer EXCEPT ![v].at = "auth"]
    /\ viewerOpen' = [viewerOpen EXCEPT ![v] = TRUE]
    /\ agentOpen' = [agentOpen EXCEPT ![v] = TRUE]
    /\ backlog' = Append(backlog, v)
    /\ UNCHANGED <<toViewer, toAgent>> /\ ViewerFrame

\* Refused five times: the agent is gone, or the listen queue (of one) is full.
ConnectFails(v) ==
    /\ viewer[v].at = "off" /\ (init = "shutDown" \/ backlog # <<>>)
    /\ viewer' = [viewer EXCEPT ![v].at = "failed"]
    /\ UNCHANGED tcp /\ ViewerFrame

\* The viewer closes its socket: a handshake that failed or timed out
\* (Connect calls Disconnect), Stop, or the end of the process.
Leave(v, l) ==
    /\ viewer' = [viewer EXCEPT ![v].at = l]
    /\ viewerOpen' = [viewerOpen EXCEPT ![v] = FALSE]
    /\ UNCHANGED <<backlog, toViewer, agentOpen>> /\ ViewerFrame

\* The next control message for viewer v is of type ty.
Hears(v, ty) == toViewer[v] # <<>> /\ Head(toViewer[v]).type = ty

Answer(v, msgs) ==
    /\ toViewer' = [toViewer EXCEPT ![v] = Tail(@)]
    /\ toAgent' = [toAgent EXCEPT ![v] = @ \o msgs]
    /\ UNCHANGED <<backlog, viewerOpen, agentOpen>> /\ ViewerFrame

AnswerChallenge(v) ==
    /\ viewer[v].at = "auth" /\ Hears(v, "AUTH_REQUEST")
    /\ viewer' = [viewer EXCEPT ![v].at = IF config.encrypts[v] THEN "key" ELSE "session"]
    /\ Answer(v, <<[type |-> "AUTH_RESPONSE", right |-> config.password[v]]>>)

\* The shared secret of key pair pub of the agent and the viewer's own.
Shared(pub, v) == <<pub, v>>

AnswerKey(v) ==
    /\ viewer[v].at = "key" /\ Hears(v, "KEY_EXCHANGE")
    /\ viewer' = [viewer EXCEPT ![v].at = "session",
                                ![v].key = Shared(Head(toViewer[v]).pub, v)]
    /\ Answer(v, <<[type |-> "KEY_EXCHANGE", pub |-> v]>>)

StartAnyMessage(v) ==       \* mutant of StartSession: the type is not looked at
    /\ viewer[v].at \in {"key", "session"} /\ toViewer[v] # <<>>
    /\ viewer' = [viewer EXCEPT ![v].at = "connected"]
    /\ Answer(v, <<>>)

StartSession(v) ==
    /\ viewer[v].at = "session" /\ Hears(v, "SESSION_START")
    /\ viewer' = [viewer EXCEPT ![v].at = "connected", ![v].codec = Head(toViewer[v]).codec]
    /\ Answer(v, <<>>)

Expects(v) == CASE viewer[v].at = "auth"    -> "AUTH_REQUEST"
                [] viewer[v].at = "key"     -> "KEY_EXCHANGE"
                [] viewer[v].at = "session" -> "SESSION_START"

\* Nothing comes for 15 s, the agent has closed, or another message comes.
HandshakeFails(v) ==
    /\ viewer[v].at \in {"auth", "key", "session"}
    /\ ~agentOpen[v] \/ ~Hears(v, Expects(v))
    /\ Leave(v, "failed") /\ UNCHANGED toAgent

SendInput(v) ==
    /\ viewer[v].at = "connected" /\ viewer[v].inputs < MaxInputs
    /\ viewer' = [viewer EXCEPT ![v].inputs = @ + 1]
    /\ toAgent' = [toAgent EXCEPT ![v] = Append(@, [type |-> "INPUT_EVENT"])]
    /\ UNCHANGED <<backlog, toViewer, viewerOpen, agentOpen>> /\ ViewerFrame

\* The user closes the window, or the process dies.
Quit(v) ==
    /\ viewer[v].at \in {"auth", "key", "session", "connected"}
    /\ \/ UNCHANGED toAgent
       \/ /\ config.polite /\ viewer[v].at = "connected"
          /\ toAgent' = [toAgent EXCEPT ![v] = Append(@, [type |-> "SESSION_STOP"])]
    /\ Leave(v, "closed")

ViewerStep(v) ==
    AnswerChallenge(v) \/ AnswerKey(v) \/ StartSession(v) \/ HandshakeFails(v)

----------------------------------------------------------------------------
(* The agent's accept thread *)

AcceptFrame == UNCHANGED <<config, m_running, m_codecType, init, sending, viewer>>

Client == accept.client

\* The next message on m_tcpClient is of type ty.
AgentHears(ty) == /\ Client # NoViewer /\ agentOpen[Client]
                  /\ toAgent[Client] # <<>> /\ Head(toAgent[Client]).type = ty

AgentGoes(l) == accept' = [accept EXCEPT !.at = l]

\* Reads one message from the client, if rd, and sends it msgs.
Exchange(rd, msgs) ==
    /\ toAgent' = IF rd THEN [toAgent EXCEPT ![Client] = Tail(@)] ELSE toAgent
    /\ toViewer' = IF agentOpen[Client] THEN [toViewer EXCEPT ![Client] = @ \o msgs] ELSE toViewer
    /\ UNCHANGED <<backlog, viewerOpen, agentOpen>>

\* AcceptConnection up to AUTH_REQUEST: a client accepted earlier is forgotten,
\* not closed, and the data goes to the new client's address from now on.
Accept ==
    /\ accept.at = "poll" /\ init # "shutDown" /\ backlog # <<>>
    /\ accept' = [at |-> "auth", client |-> Head(backlog), pub |-> NoViewer]
    /\ backlog' = Tail(backlog)
    /\ m_udpDestAddr' = <<Head(backlog), "tcp">>
    /\ toViewer' = [toViewer EXCEPT ![Head(backlog)] = Append(@, [type |-> "AUTH_REQUEST"])]
    /\ UNCHANGED <<toAgent, viewerOpen, agentOpen, m_connected, m_clientConnected,
                   m_encrypted, m_secureChannel, m_dh, inputs>>
    /\ AcceptFrame

AcceptsAnyResponse ==       \* mutant of VerifyResponse: the result is not looked at
    /\ accept.at = "auth" /\ AgentHears("AUTH_RESPONSE")
    /\ IF config.agentEncrypts
       THEN /\ m_dh' = m_dh + 1 /\ AgentGoes("key")
            /\ Exchange(TRUE, <<[type |-> "KEY_EXCHANGE", pub |-> m_dh + 1]>>)
       ELSE m_dh' = m_dh /\ AgentGoes("start") /\ Exchange(TRUE, <<>>)
    /\ UNCHANGED <<m_connected, m_clientConnected, m_encrypted, m_udpDestAddr,
                   m_secureChannel, inputs>>
    /\ AcceptFrame

\* The response is right: on to the key exchange, or straight to the session.
VerifyResponse ==
    /\ accept.at = "auth" /\ AgentHears("AUTH_RESPONSE") /\ Head(toAgent[Client]).right
    /\ IF config.agentEncrypts
       THEN /\ m_dh' = m_dh + 1 /\ AgentGoes("key")
            /\ Exchange(TRUE, <<[type |-> "KEY_EXCHANGE", pub |-> m_dh + 1]>>)
       ELSE m_dh' = m_dh /\ AgentGoes("start") /\ Exchange(TRUE, <<>>)
    /\ UNCHANGED <<m_connected, m_clientConnected, m_encrypted, m_udpDestAddr,
                   m_secureChannel, inputs>>
    /\ AcceptFrame

WaitsForever ==             \* mutant of HandshakeError: only a wrong message ends the wait
    /\ accept.at \in {"auth", "key"} /\ toAgent[Client] # <<>>
    /\ \/ accept.at = "auth" /\ ~(AgentHears("AUTH_RESPONSE") /\ Head(toAgent[Client]).right)
       \/ accept.at = "key" /\ ~AgentHears("KEY_EXCHANGE")
    /\ accept' = [at |-> "top", client |-> NoViewer, pub |-> NoViewer]
    /\ agentOpen' = [agentOpen EXCEPT ![Client] = FALSE]
    /\ UNCHANGED <<backlog, toViewer, toAgent, viewerOpen, m_connected, m_clientConnected,
                   crypto, inputs>>
    /\ AcceptFrame

\* The handshake ends the connection: a wrong response (after ERROR_MSG), no
\* message or another one within 10 s, the viewer gone, or Shutdown; and in the
\* key exchange a message without a key, or one of the steps that make the channel
\* fails: the key pair, the shared secret, Initialize.
HandshakeError ==
    /\ \/ accept.at = "auth" /\ ~(AgentHears("AUTH_RESPONSE") /\ Head(toAgent[Client]).right)
       \/ accept.at \in {"key", "replace", "initialize"}
    /\ accept' = [at |-> "top", client |-> NoViewer, pub |-> NoViewer]
    /\ agentOpen' = [agentOpen EXCEPT ![Client] = FALSE]
    /\ toViewer' = IF accept.at = "auth" /\ AgentHears("AUTH_RESPONSE")
                   THEN [toViewer EXCEPT ![Client] = Append(@, [type |-> "ERROR_MSG"])]
                   ELSE toViewer
    /\ UNCHANGED <<backlog, toAgent, viewerOpen, m_connected, m_clientConnected, crypto, inputs>>
    /\ AcceptFrame

\* The viewer's public key and the port of its UDP socket.
AcceptKey ==
    /\ accept.at = "key" /\ AgentHears("KEY_EXCHANGE")
    /\ accept' = [accept EXCEPT !.at = "replace", !.pub = Head(toAgent[Client]).pub]
    /\ m_udpDestAddr' = <<Client, "udp">>
    /\ Exchange(TRUE, <<>>)
    /\ UNCHANGED <<m_connected, m_clientConnected, m_encrypted, m_secureChannel, m_dh, inputs>>
    /\ AcceptFrame

\* m_secureChannel becomes a new object, without a key yet; the old one is freed.
ReplaceChannel ==
    /\ accept.at = "replace" /\ AgentGoes("initialize")
    /\ m_secureChannel' = [gen |-> m_dh, key |-> NoKey]
    /\ UNCHANGED <<tcp, m_connected, m_clientConnected, m_encrypted, m_udpDestAddr, m_dh, inputs>>
    /\ AcceptFrame

KeepOldKey ==               \* mutant of InitializeChannel: the first key is used for good
    /\ accept.at = "initialize" /\ AgentGoes("encrypt")
    /\ m_secureChannel' = [m_secureChannel EXCEPT !.key = Shared(1, accept.pub)]
    /\ UNCHANGED <<tcp, m_connected, m_clientConnected, m_encrypted, m_udpDestAddr, m_dh, inputs>>
    /\ AcceptFrame

InitializeChannel ==
    /\ accept.at = "initialize" /\ AgentGoes("encrypt")
    /\ m_secureChannel' = [m_secureChannel EXCEPT !.key = Shared(m_dh, accept.pub)]
    /\ UNCHANGED <<tcp, m_connected, m_clientConnected, m_encrypted, m_udpDestAddr, m_dh, inputs>>
    /\ AcceptFrame

ForgetsEncrypted ==         \* mutant of SetEncrypted: the flag is left as it is
    /\ accept.at = "encrypt" /\ AgentGoes("start")
    /\ UNCHANGED <<tcp, m_connected, m_clientConnected, crypto, inputs>>
    /\ AcceptFrame

SetEncrypted ==
    /\ accept.at = "encrypt" /\ AgentGoes("start")
    /\ m_encrypted' = TRUE
    /\ UNCHANGED <<tcp, m_connected, m_clientConnected, m_udpDestAddr, m_secureChannel, m_dh, inputs>>
    /\ AcceptFrame

\* SESSION_START; whether the send succeeds is not looked at.
SendStart ==
    /\ accept.at = "start" /\ AgentGoes("accepted")
    /\ Exchange(FALSE, <<[type |-> "SESSION_START", codec |-> m_codecType]>>)
    /\ UNCHANGED <<m_connected, m_clientConnected, crypto, inputs>>
    /\ AcceptFrame

\* AcceptConnection returns true and AcceptThread enters its message loop.
Accepted ==
    /\ accept.at = "accepted" /\ AgentGoes("loop")
    /\ m_connected' = TRUE /\ m_clientConnected' = TRUE
    /\ UNCHANGED <<tcp, crypto, inputs>>
    /\ AcceptFrame

QueuesAnyInput ==           \* mutant of TakeInput: the queue is not bounded
    /\ accept.at = "loop" /\ m_running /\ m_connected /\ AgentHears("INPUT_EVENT")
    /\ m_inputQueue' = Append(m_inputQueue, Client)
    /\ Exchange(TRUE, <<>>)
    /\ UNCHANGED <<accept, m_connected, m_clientConnected, crypto, injected>>
    /\ AcceptFrame

\* INPUT_EVENT: the event is queued, or dropped when the queue is full.
TakeInput ==
    /\ accept.at = "loop" /\ m_running /\ m_connected /\ AgentHears("INPUT_EVENT")
    /\ m_inputQueue' = IF Len(m_inputQueue) < InputCap
                       THEN Append(m_inputQueue, Client) ELSE m_inputQueue
    /\ Exchange(TRUE, <<>>)
    /\ UNCHANGED <<accept, m_connected, m_clientConnected, crypto, injected>>
    /\ AcceptFrame

\* The loop ends on SESSION_STOP, or when its test fails; the end of the
\* connection is not seen here, and m_connected stays as it is.
LoopEnds ==
    /\ accept.at = "loop" /\ AgentGoes("top")
    /\ m_clientConnected' = FALSE
    /\ \/ m_running /\ m_connected /\ AgentHears("SESSION_STOP") /\ Exchange(TRUE, <<>>)
       \/ ~(m_running /\ m_connected) /\ UNCHANGED tcp
    /\ UNCHANGED <<m_connected, crypto, inputs>>
    /\ AcceptFrame

\* The test of AcceptThread's outer loop.
AcceptTop ==
    /\ accept.at = "top" /\ AgentGoes(IF m_running THEN "poll" ELSE "ended")
    /\ UNCHANGED <<tcp, m_connected, m_clientConnected, crypto, inputs>>
    /\ AcceptFrame

\* AcceptConnection returns false: nobody has come for a second, or the
\* listening socket is closed.
PollTimeout ==
    /\ accept.at = "poll" /\ (backlog = <<>> \/ init = "shutDown") /\ AgentGoes("top")
    /\ UNCHANGED <<tcp, m_connected, m_clientConnected, crypto, inputs>>
    /\ AcceptFrame

AcceptStep ==
    \/ Accept \/ VerifyResponse \/ HandshakeError \/ AcceptKey
    \/ ReplaceChannel \/ InitializeChannel \/ SetEncrypted \/ SendStart \/ Accepted
    \/ TakeInput \/ LoopEnds \/ AcceptTop \/ PollTimeout

----------------------------------------------------------------------------
(* AgentSession::Initialize after the accept thread has started *)

InitFrame == UNCHANGED <<config, m_clientConnected, m_udpDestAddr, m_secureChannel, m_dh,
                         accept, inputs, sending, viewer>>

\* Everything is up: SetCodecType, then Run starts the other threads.
EncoderReady ==
    /\ init = "encoder" /\ init' = "run"
    /\ m_codecType' = "actual"
    /\ UNCHANGED <<m_running, m_connected, m_encrypted, tcp>> /\ InitFrame

\* No monitor, no encoder, no capture: the accept thread is told to end...
FailsRunning ==             \* mutant of EncoderFails: m_running is left set
    /\ init = "encoder" /\ init' = "failed"
    /\ UNCHANGED <<m_running, m_connected, m_encrypted, m_codecType, tcp>> /\ InitFrame

EncoderFails ==
    /\ init = "encoder" /\ init' = "failed"
    /\ m_running' = FALSE
    /\ UNCHANGED <<m_connected, m_encrypted, m_codecType, tcp>> /\ InitFrame

\* ... and the sockets are closed under it; Initialize then joins it.
Shutdown ==
    /\ init = "failed" /\ init' = "shutDown"
    /\ m_connected' = FALSE /\ m_encrypted' = FALSE
    /\ agentOpen' = [v \in Viewers |->
                        agentOpen[v] /\ v # Client /\ v \notin {backlog[i] : i \in DOMAIN backlog}]
    /\ backlog' = <<>>
    /\ UNCHANGED <<m_running, m_codecType, toViewer, toAgent, viewerOpen>> /\ InitFrame

InitStep == EncoderReady \/ EncoderFails \/ Shutdown

----------------------------------------------------------------------------
(* The agent's threads that run once Initialize is done *)

RunFrame == UNCHANGED <<config, flags, crypto, m_codecType, accept, init, viewer, tcp>>

\* A frame goes on its way from the capture to m_videoSendQueue: only while a
\* client is connected, but frames on their way stay when it goes.
Capture ==
    /\ init = "run" /\ m_clientConnected /\ pipeline < MaxFrames
    /\ pipeline' = pipeline + 1
    /\ UNCHANGED <<send, datagrams, inputs>> /\ RunFrame

\* SendDataFrame up to the call of m_secureChannel->EncryptFrameOut.
TakeFrame ==
    /\ init = "run" /\ send.at = "top" /\ pipeline > 0
    /\ pipeline' = pipeline - 1
    /\ send' = IF m_encrypted /\ m_secureChannel.gen # 0
               THEN [at |-> "encrypt", gen |-> m_secureChannel.gen, key |-> m_secureChannel.key]
               ELSE [at |-> "sendto", gen |-> 0, key |-> NoKey]
    /\ UNCHANGED <<datagrams, inputs>> /\ RunFrame

\* The frame is encrypted with the object the pointer was to.  If the accept
\* thread has freed it meanwhile, with whatever the memory holds now.
Encrypt ==
    /\ send.at = "encrypt"
    /\ \E k \in IF m_secureChannel.gen = send.gen THEN {m_secureChannel.key}
                                                  ELSE {send.key, Garbage, NoKey} :
         send' = IF k = NoKey THEN [at |-> "top", gen |-> 0, key |-> NoKey]
                              ELSE [at |-> "sendto", gen |-> 0, key |-> k]
    /\ UNCHANGED <<pipeline, datagrams, inputs>> /\ RunFrame

\* sendto, to the address of that moment.
SendTo ==
    /\ send.at = "sendto"
    /\ datagrams' = datagrams \cup {[to |-> m_udpDestAddr, key |-> send.key]}
    /\ send' = [at |-> "top", gen |-> 0, key |-> NoKey]
    /\ UNCHANGED <<pipeline, inputs>> /\ RunFrame

\* InputInjectThread.
Inject ==
    /\ init = "run" /\ m_inputQueue # <<>>
    /\ injected' = injected \cup {Head(m_inputQueue)}
    /\ m_inputQueue' = Tail(m_inputQueue)
    /\ UNCHANGED sending /\ RunFrame

Next ==
    \/ \E v \in Viewers : Connect(v) \/ ConnectFails(v) \/ ViewerStep(v) \/ SendInput(v) \/ Quit(v)
    \/ AcceptStep
    \/ InitStep
    \/ Capture \/ TakeFrame \/ Encrypt \/ SendTo \/ Inject

Spec == Init /\ [][Next]_vars

\* Threads are scheduled, and a receive that gets nothing times out.
FairSpec ==
    /\ Spec
    /\ \A v \in Viewers : WF_vars(ViewerStep(v))
    /\ WF_vars(AcceptStep) /\ WF_vars(InitStep)

----------------------------------------------------------------------------
Keys == {NoKey, Garbage} \cup (Nat \X Viewers)

Codecs == {"default", "actual"}

MessagesToViewer == [type : {"AUTH_REQUEST", "ERROR_MSG"}]
                    \cup [type : {"KEY_EXCHANGE"}, pub : Nat]
                    \cup [type : {"SESSION_START"}, codec : Codecs]

MessagesToAgent == [type : {"INPUT_EVENT", "SESSION_STOP"}]
                   \cup [type : {"AUTH_RESPONSE"}, right : BOOLEAN]
                   \cup [type : {"KEY_EXCHANGE"}, pub : Viewers]

ServingPoints == {"auth", "key", "replace", "initialize", "encrypt", "start", "accepted", "loop"}

ConfigType ==
    config \in [agentEncrypts : BOOLEAN, encrypts : [Viewers -> BOOLEAN],
                password : [Viewers -> BOOLEAN], polite : BOOLEAN]

AcceptType ==
    /\ accept \in [at : ServingPoints \cup {"top", "poll", "ended"},
                   client : Viewers \cup {NoViewer}, pub : Viewers \cup {NoViewer}]
    /\ accept.at \in ServingPoints => accept.client \in Viewers
    /\ accept.at \in {"replace", "initialize"} => accept.pub \in Viewers
    /\ m_clientConnected \in BOOLEAN
    /\ m_clientConnected => accept.at = "loop"

AgentType ==
    /\ m_running \in BOOLEAN /\ m_connected \in BOOLEAN /\ m_encrypted \in BOOLEAN
    /\ m_udpDestAddr \in (Viewers \cup {NoViewer}) \X {"tcp", "udp"}
    /\ m_dh \in Nat
    /\ m_secureChannel \in [gen : Nat, key : Keys]
    /\ m_codecType \in Codecs
    /\ init \in {"encoder", "run", "failed", "shutDown"}

InputType ==
    /\ m_inputQueue \in Seq(Viewers) /\ Len(m_inputQueue) <= InputCap
    /\ injected \subseteq Viewers

SendType ==
    /\ pipeline \in 0 .. MaxFrames
    /\ send \in [at : {"top", "encrypt", "sendto"}, gen : Nat, key : Keys]
    /\ datagrams \subseteq [to : (Viewers \cup {NoViewer}) \X {"tcp", "udp"}, key : Keys]

ViewerType ==
    viewer \in [Viewers -> [at : {"off", "auth", "key", "session", "connected", "failed", "closed"},
                            key : Keys, codec : Codecs \cup {"none"}, inputs : 0 .. MaxInputs]]

TcpType ==
    /\ backlog \in Seq(Viewers)
    /\ toViewer \in [Viewers -> Seq(MessagesToViewer)]
    /\ toAgent \in [Viewers -> Seq(MessagesToAgent)]
    /\ viewerOpen \in [Viewers -> BOOLEAN] /\ agentOpen \in [Viewers -> BOOLEAN]

\* Types, the bound of m_inputQueue, and that the accept thread has a client
\* wherever it uses one.
TypeOK ==
    /\ ConfigType /\ AcceptType /\ AgentType /\ InputType /\ SendType /\ ViewerType /\ TcpType

\* ONLY THE PASSWORD OPENS THE DESKTOP.  The client the agent serves, and
\* whoever's input it has queued or injected, has answered the challenge with
\* the agent's password (AgentNetworkImpl.cpp:187-197).
OnlyAuthenticated ==
    /\ m_clientConnected => config.password[Client]
    /\ \A v \in injected \cup {m_inputQueue[i] : i \in DOMAIN m_inputQueue} : config.password[v]

\* NOTHING IN THE CLEAR.  An agent started with encryption sends no frame
\* unencrypted: not before the first key, not between two clients, whatever
\* was still on its way when the first one left.
NothingInTheClear ==
    config.agentEncrypts => \A d \in datagrams : d.key # NoKey

\* THE ENDS AGREE.  When both ends take the session for established, both
\* encrypt or neither does, and if they do they hold the same key and the
\* agent writes to the viewer's UDP port.
EndsAgree ==
    m_running /\ m_clientConnected /\ viewer[Client].at = "connected" =>
        /\ config.agentEncrypts = config.encrypts[Client]
        /\ config.agentEncrypts => /\ m_encrypted
                                   /\ m_secureChannel.key = viewer[Client].key
                                   /\ m_udpDestAddr = <<Client, "udp">>

InHandshake == accept.at \in {"auth", "key", "replace", "initialize", "encrypt", "start", "accepted"}

\* A client that stops answering does not hold up the accept thread: every
\* handshake of the agent ends.
HandshakeEnds == InHandshake ~> ~InHandshake

\* When Initialize fails with a viewer already connecting or connected, the
\* join of the accept thread returns (AgentSession.cpp:50-52).
FailedInitEnds == (init = "failed") ~> (accept.at = "ended")

\* A viewer that has gone is noticed, so that the agent returns to accept
\* ("100ms ... avoid blocking for long in ReceiveControlMessage, unable to
\* handle other events such as the network's disconnect", AgentSession.cpp:157,
\* "[Accept] Viewer disconnected", :178).
DisconnectNoticed ==
    \A v \in Viewers : (accept.at = "loop" /\ Client = v /\ ~viewerOpen[v]) ~> (accept.at # "loop")

\* The data goes to the port the viewer listens on: "Port is the same - the
\* Viewer uses the same port for UDP" (AgentNetworkImpl.cpp:148).
ViewerReachable ==
    m_clientConnected /\ viewer[Client].at = "connected" => m_udpDestAddr = <<Client, "udp">>
=============================================================================
