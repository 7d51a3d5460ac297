--------------------------- MODULE SessionProofs ---------------------------
(***************************************************************************)
(* What is proved of Session for any set of viewers and any bounds: its    *)
(* types, that only a viewer with the agent's password is served, that an  *)
(* agent started with encryption sends nothing in the clear, and that the  *)
(* two ends of a session hold the same key.                                *)
(***************************************************************************)
EXTENDS Session, TLAPS

----------------------------------------------------------------------------
(* Types *)

\* What is taken from a sequence of messages, and what is left of it.
LEMMA TailType == ASSUME NEW S, NEW s \in Seq(S), s # <<>>
                  PROVE  Tail(s) \in Seq(S) /\ Head(s) \in S
OBVIOUS

\* Keys, and what goes over TCP.
LEMMA KeyTypes ==
  /\ NoKey \in Keys /\ Garbage \in Keys
  /\ \A n \in Nat, v \in Viewers : Shared(n, v) \in Keys
BY DEF Keys, Shared

\* Each message the two ends send is one of the kinds they exchange.
LEMMA MessageTypes ==
  /\ \A n \in Nat : [type |-> "KEY_EXCHANGE", pub |-> n] \in MessagesToViewer
  /\ \A c \in Codecs : [type |-> "SESSION_START", codec |-> c] \in MessagesToViewer
  /\ [type |-> "AUTH_REQUEST"] \in MessagesToViewer
  /\ [type |-> "ERROR_MSG"] \in MessagesToViewer
  /\ \A v \in Viewers : [type |-> "KEY_EXCHANGE", pub |-> v] \in MessagesToAgent
  /\ \A b \in BOOLEAN : [type |-> "AUTH_RESPONSE", right |-> b] \in MessagesToAgent
  /\ [type |-> "INPUT_EVENT"] \in MessagesToAgent
  /\ [type |-> "SESSION_STOP"] \in MessagesToAgent
BY DEF MessagesToViewer, MessagesToAgent

\* A message of a type has the fields of its type.
LEMMA MessageFields ==
  /\ \A m \in MessagesToViewer : /\ m.type = "KEY_EXCHANGE" => m.pub \in Nat
                                 /\ m.type = "SESSION_START" => m.codec \in Codecs
  /\ \A m \in MessagesToAgent : m.type = "KEY_EXCHANGE" => m.pub \in Viewers
BY DEF MessagesToViewer, MessagesToAgent

\* Initially the types are right.
LEMMA InitType == Init => TypeOK
<1> SUFFICES ASSUME Init PROVE TypeOK
  OBVIOUS
<1> USE SessionAssumption, KeyTypes DEF Init
<1>1. ConfigType /\ AcceptType
  BY DEF ConfigType, AcceptType, ServingPoints
<1>2. AgentType
  BY DEF AgentType, Codecs
<1>4. InputType
  BY DEF InputType
<1>5. SendType
  BY DEF SendType
<1>3. ViewerType /\ TcpType
  BY DEF ViewerType, TcpType
<1> QED BY <1>1, <1>2, <1>3, <1>4, <1>5 DEF TypeOK

\* A step of a viewer leaves the agent alone.
LEMMA ViewerFrameType ==
  ASSUME TypeOK, ViewerFrame
  PROVE  ConfigType' /\ AcceptType' /\ AgentType' /\ InputType' /\ SendType'
<1> USE DEF TypeOK, ViewerFrame, flags, crypto, inputs, sending
<1>1. ConfigType' /\ AcceptType'
  BY DEF ConfigType, AcceptType
<1>2. AgentType' /\ InputType' /\ SendType'
  BY DEF AgentType, InputType, SendType
<1> QED BY <1>1, <1>2

\* A step of a viewer keeps the types.
LEMMA ViewerStepType ==
  ASSUME TypeOK, NEW v \in Viewers,
         Connect(v) \/ ConnectFails(v) \/ ViewerStep(v) \/ SendInput(v) \/ Quit(v)
  PROVE  TypeOK'
<1>1. ASSUME ViewerFrame, ViewerType', TcpType' PROVE TypeOK'
  BY <1>1, ViewerFrameType DEF TypeOK
<1>2. ViewerType /\ TcpType /\ ConfigType
  BY DEF TypeOK
<1>3. ASSUME NEW msgs \in Seq(MessagesToAgent), toViewer[v] # <<>>, Answer(v, msgs)
      PROVE  TcpType' /\ ViewerFrame
  <2>1. Tail(toViewer[v]) \in Seq(MessagesToViewer) /\ toAgent[v] \o msgs \in Seq(MessagesToAgent)
    BY <1>2, <1>3, TailType DEF TcpType
  <2> QED BY <1>2, <1>3, <2>1 DEF Answer, TcpType
<1>4. CASE Connect(v)
  <2>1. ViewerType' /\ ViewerFrame
    BY <1>2, <1>4 DEF Connect, ViewerType
  <2>2. backlog' \in Seq(Viewers)
    BY <1>2, <1>4 DEF Connect, TcpType
  <2>3. TcpType'
    BY <1>2, <1>4, <2>2 DEF Connect, TcpType
  <2> QED BY <1>1, <2>1, <2>3
<1>5. CASE ConnectFails(v)
  BY <1>1, <1>2, <1>5 DEF ConnectFails, ViewerType, TcpType, tcp
<1>6. CASE AnswerChallenge(v)
  <2>1. <<[type |-> "AUTH_RESPONSE", right |-> config.password[v]]>> \in Seq(MessagesToAgent)
    BY <1>2, MessageTypes DEF ConfigType
  <2>2. ViewerType'
    BY <1>2, <1>6 DEF AnswerChallenge, ViewerType
  <2> QED BY <1>1, <1>3, <1>6, <2>1, <2>2 DEF AnswerChallenge, Hears
<1>7. CASE AnswerKey(v)
  <2>1. <<[type |-> "KEY_EXCHANGE", pub |-> v]>> \in Seq(MessagesToAgent)
    BY MessageTypes
  <2>2. Head(toViewer[v]) \in MessagesToViewer /\ Head(toViewer[v]).type = "KEY_EXCHANGE"
    BY <1>2, <1>7, TailType DEF AnswerKey, Hears, TcpType
  <2>3. Shared(Head(toViewer[v]).pub, v) \in Keys
    BY <2>2, MessageFields, KeyTypes
  <2>4. ViewerType'
    BY <1>2, <1>7, <2>3 DEF AnswerKey, ViewerType
  <2> QED BY <1>1, <1>3, <1>7, <2>1, <2>4 DEF AnswerKey, Hears
<1>8. CASE StartSession(v)
  <2>1. Head(toViewer[v]) \in MessagesToViewer /\ Head(toViewer[v]).type = "SESSION_START"
    BY <1>2, <1>8, TailType DEF StartSession, Hears, TcpType
  <2>2. Head(toViewer[v]).codec \in Codecs
    BY <2>1, MessageFields
  <2>3. ViewerType'
    BY <1>2, <1>8, <2>2 DEF StartSession, ViewerType
  <2>4. <<>> \in Seq(MessagesToAgent)
    OBVIOUS
  <2> QED BY <1>1, <1>3, <1>8, <2>3, <2>4 DEF StartSession, Hears
<1>9. CASE HandshakeFails(v)
  BY <1>1, <1>2, <1>9 DEF HandshakeFails, Leave, ViewerType, TcpType
<1>10. CASE SendInput(v)
  <2>1. Append(toAgent[v], [type |-> "INPUT_EVENT"]) \in Seq(MessagesToAgent)
    BY <1>2, MessageTypes DEF TcpType
  <2>2. ViewerType'
    BY <1>2, <1>10, SessionAssumption DEF SendInput, ViewerType
  <2>3. TcpType'
    BY <1>2, <1>10, <2>1 DEF SendInput, TcpType
  <2> QED BY <1>1, <1>10, <2>2, <2>3 DEF SendInput
<1>11. CASE Quit(v)
  <2>0. Append(toAgent[v], [type |-> "SESSION_STOP"]) \in Seq(MessagesToAgent)
    BY <1>2, MessageTypes DEF TcpType
  <2>1. toAgent' \in [Viewers -> Seq(MessagesToAgent)]
    BY <1>2, <1>11, <2>0 DEF Quit, TcpType
  <2>2. ViewerType' /\ ViewerFrame
    BY <1>2, <1>11 DEF Quit, Leave, ViewerType
  <2> QED BY <1>1, <1>2, <1>11, <2>1, <2>2 DEF Quit, Leave, TcpType
<1> QED BY <1>4, <1>5, <1>6, <1>7, <1>8, <1>9, <1>10, <1>11 DEF ViewerStep

\* A step of the accept thread leaves the rest of the program alone.
LEMMA AcceptFrameType ==
  ASSUME TypeOK, AcceptFrame
  PROVE  ConfigType' /\ SendType' /\ ViewerType'
BY DEF TypeOK, AcceptFrame, sending, ConfigType, SendType, ViewerType

\* Reading from the client and writing to it.
LEMMA ExchangeType ==
  ASSUME TypeOK, NEW rd \in BOOLEAN, NEW msgs \in Seq(MessagesToViewer), Exchange(rd, msgs),
         Client \in Viewers, rd => toAgent[Client] # <<>>
  PROVE  TcpType'
<1>1. TcpType
  BY DEF TypeOK
<1>2. rd => Tail(toAgent[Client]) \in Seq(MessagesToAgent)
  BY <1>1, TailType DEF TcpType
<1>3. toViewer[Client] \o msgs \in Seq(MessagesToViewer)
  BY <1>1 DEF TcpType
<1>4. toAgent' \in [Viewers -> Seq(MessagesToAgent)]
  BY <1>1, <1>2 DEF Exchange, TcpType
<1>5. toViewer' \in [Viewers -> Seq(MessagesToViewer)]
  BY <1>1, <1>3 DEF Exchange, TcpType
<1> QED BY <1>1, <1>4, <1>5 DEF Exchange, TcpType

\* A step of the accept thread keeps the types.
LEMMA AcceptStepType == ASSUME TypeOK, AcceptStep PROVE TypeOK'
<1>1. ASSUME AcceptFrame, AcceptType', AgentType', InputType', TcpType' PROVE TypeOK'
  BY <1>1, AcceptFrameType DEF TypeOK
<1>2. AcceptType /\ AgentType /\ InputType /\ TcpType
  BY DEF TypeOK
<1>4. <<>> \in Seq(MessagesToViewer)
  OBVIOUS
<1>5. CASE Accept
  <2>1. Head(backlog) \in Viewers /\ Tail(backlog) \in Seq(Viewers)
    BY <1>2, <1>5, TailType DEF Accept, TcpType
  <2>2. AcceptType'
    BY <1>2, <1>5, <2>1 DEF Accept, AcceptType, ServingPoints
  <2>6. m_udpDestAddr' \in (Viewers \cup {NoViewer}) \X {"tcp", "udp"}
    BY <1>5, <2>1 DEF Accept
  <2>3. AgentType' /\ InputType'
    BY <1>2, <1>5, <2>6 DEF Accept, AcceptFrame, AgentType, InputType, inputs
  <2>4. Append(toViewer[Head(backlog)], [type |-> "AUTH_REQUEST"]) \in Seq(MessagesToViewer)
    BY <1>2, <2>1, MessageTypes DEF TcpType
  <2>5. TcpType'
    BY <1>2, <1>5, <2>1, <2>4 DEF Accept, TcpType
  <2> QED BY <1>1, <1>5, <2>2, <2>3, <2>5 DEF Accept
<1>6. CASE VerifyResponse
  <2>1. Client \in Viewers /\ toAgent[Client] # <<>> /\ m_dh + 1 \in Nat
    BY <1>2, <1>6 DEF VerifyResponse, AgentHears, AcceptType, AgentType, ServingPoints, Client
  <2>2. AcceptType'
    BY <1>2, <1>6 DEF VerifyResponse, AgentGoes, AcceptType, ServingPoints
  <2>6. m_dh' \in Nat /\ InputType'
    BY <1>2, <1>6, <2>1 DEF VerifyResponse, AgentType, InputType, inputs
  <2>3. AgentType' /\ InputType'
    BY <1>2, <1>6, <2>6 DEF VerifyResponse, AcceptFrame, AgentType
  <2>4. <<[type |-> "KEY_EXCHANGE", pub |-> m_dh + 1]>> \in Seq(MessagesToViewer)
    BY <2>1, MessageTypes
  <2>5. TcpType'
    BY <1>4, <1>6, <2>1, <2>4, ExchangeType DEF VerifyResponse
  <2> QED BY <1>1, <1>6, <2>2, <2>3, <2>5 DEF VerifyResponse
<1>7. CASE HandshakeError
  <2>1. Client \in Viewers
    BY <1>2, <1>7 DEF HandshakeError, AcceptType, ServingPoints, Client
  <2>2. AcceptType'
    BY <1>2, <1>7 DEF HandshakeError, AcceptType, ServingPoints
  <2>3. AgentType' /\ InputType'
    BY <1>2, <1>7 DEF HandshakeError, AcceptFrame, AgentType, InputType, inputs, crypto
  <2>4. Append(toViewer[Client], [type |-> "ERROR_MSG"]) \in Seq(MessagesToViewer)
    BY <1>2, <2>1, MessageTypes DEF TcpType
  <2>5. TcpType'
    BY <1>2, <1>7, <2>1, <2>4 DEF HandshakeError, TcpType
  <2> QED BY <1>1, <1>7, <2>2, <2>3, <2>5 DEF HandshakeError
<1>8. CASE AcceptKey
  <2>1. /\ Client \in Viewers /\ toAgent[Client] # <<>>
        /\ Head(toAgent[Client]) \in MessagesToAgent
        /\ Head(toAgent[Client]).type = "KEY_EXCHANGE"
    BY <1>2, <1>8, TailType DEF AcceptKey, AgentHears, AcceptType, TcpType, ServingPoints, Client
  <2>2. Head(toAgent[Client]).pub \in Viewers
    BY <2>1, MessageFields
  <2>3. AcceptType'
    BY <1>2, <1>8, <2>2 DEF AcceptKey, AcceptType, ServingPoints
  <2>4. AgentType' /\ InputType'
    BY <1>2, <1>8, <2>1 DEF AcceptKey, AcceptFrame, AgentType, InputType, inputs
  <2>5. TcpType'
    BY <1>4, <1>8, <2>1, ExchangeType DEF AcceptKey
  <2> QED BY <1>1, <1>8, <2>3, <2>4, <2>5 DEF AcceptKey
<1>9. CASE ReplaceChannel \/ InitializeChannel \/ SetEncrypted
  <2>1. AcceptType'
    BY <1>2, <1>9 DEF ReplaceChannel, InitializeChannel, SetEncrypted, AgentGoes, AcceptType,
                      ServingPoints
  <2>2. InitializeChannel => Shared(m_dh, accept.pub) \in Keys
    BY <1>2, KeyTypes DEF InitializeChannel, AcceptType, AgentType
  <2>3. m_secureChannel' \in [gen : Nat, key : Keys]
    BY <1>2, <1>9, <2>2, KeyTypes DEF ReplaceChannel, InitializeChannel, SetEncrypted, AgentType
  <2>4. AgentType' /\ InputType'
    BY <1>2, <1>9, <2>3 DEF ReplaceChannel, InitializeChannel, SetEncrypted, AcceptFrame,
                            AgentType, InputType, inputs
  <2>5. TcpType'
    BY <1>2, <1>9 DEF ReplaceChannel, InitializeChannel, SetEncrypted, tcp, TcpType
  <2> QED BY <1>1, <1>9, <2>1, <2>4, <2>5 DEF ReplaceChannel, InitializeChannel, SetEncrypted
<1>10. CASE SendStart
  <2>1. Client \in Viewers
    BY <1>2, <1>10 DEF SendStart, AcceptType, ServingPoints, Client
  <2>2. AcceptType'
    BY <1>2, <1>10 DEF SendStart, AgentGoes, AcceptType, ServingPoints
  <2>3. AgentType' /\ InputType'
    BY <1>2, <1>10 DEF SendStart, AcceptFrame, AgentType, InputType, inputs, crypto
  <2>4. <<[type |-> "SESSION_START", codec |-> m_codecType]>> \in Seq(MessagesToViewer)
    BY <1>2, MessageTypes DEF AgentType
  <2>5. TcpType'
    BY <1>10, <2>1, <2>4, ExchangeType DEF SendStart
  <2> QED BY <1>1, <1>10, <2>2, <2>3, <2>5 DEF SendStart
<1>11. CASE TakeInput
  <2>1. Client \in Viewers /\ toAgent[Client] # <<>>
    BY <1>2, <1>11 DEF TakeInput, AgentHears, AcceptType, ServingPoints, Client
  <2>2. AcceptType' /\ AgentType'
    BY <1>2, <1>11 DEF TakeInput, AcceptFrame, AcceptType, AgentType, crypto
  <2>3. Append(m_inputQueue, Client) \in Seq(Viewers)
    BY <1>2, <2>1 DEF InputType
  <2>4. InputType'
    BY <1>2, <1>11, <2>1, <2>3, SessionAssumption DEF TakeInput, InputType
  <2>5. TcpType'
    BY <1>4, <1>11, <2>1, ExchangeType DEF TakeInput
  <2> QED BY <1>1, <1>11, <2>2, <2>4, <2>5 DEF TakeInput
<1>12. CASE LoopEnds
  <2>1. Client \in Viewers
    BY <1>2, <1>12 DEF LoopEnds, AcceptType, ServingPoints, Client
  <2>2. AcceptType'
    BY <1>2, <1>12 DEF LoopEnds, AgentGoes, AcceptType, ServingPoints
  <2>3. AgentType' /\ InputType'
    BY <1>2, <1>12 DEF LoopEnds, AcceptFrame, AgentType, InputType, inputs, crypto
  <2>4. CASE AgentHears("SESSION_STOP") /\ Exchange(TRUE, <<>>)
    BY <1>1, <1>4, <1>12, <2>1, <2>2, <2>3, <2>4, ExchangeType DEF LoopEnds, AgentHears
  <2>5. CASE UNCHANGED tcp
    BY <1>1, <1>2, <1>12, <2>2, <2>3, <2>5 DEF LoopEnds, tcp, TcpType
  <2> QED BY <1>12, <2>4, <2>5 DEF LoopEnds
<1>13. CASE Accepted \/ AcceptTop \/ PollTimeout
  <2>4. ASSUME Accepted PROVE AcceptType'
    <3>1. accept' = [accept EXCEPT !.at = "loop"] /\ accept.at \in ServingPoints
      BY <2>4 DEF Accepted, AgentGoes, ServingPoints
    <3>2. m_clientConnected' \in BOOLEAN
      BY <2>4 DEF Accepted
    <3>3. accept'.at = "loop" /\ accept'.client = accept.client /\ accept'.pub = accept.pub
      BY <1>2, <3>1 DEF AcceptType
    <3>4. accept' \in [at : ServingPoints \cup {"top", "poll", "ended"},
                      client : Viewers \cup {NoViewer}, pub : Viewers \cup {NoViewer}]
      BY <1>2, <3>1 DEF AcceptType, ServingPoints
    <3> QED BY <1>2, <3>1, <3>2, <3>3, <3>4 DEF AcceptType
  <2>5. ASSUME AcceptTop \/ PollTimeout PROVE AcceptType'
    <3>1. \E l \in {"top", "poll", "ended"} : accept' = [accept EXCEPT !.at = l]
      BY <2>5 DEF AcceptTop, PollTimeout, AgentGoes
    <3>2. accept.at \in {"top", "poll"} /\ m_clientConnected' = m_clientConnected
      BY <2>5 DEF AcceptTop, PollTimeout
    <3>3. ~m_clientConnected
      BY <1>2, <3>2 DEF AcceptType
    <3>4. ~m_clientConnected' /\ m_clientConnected' \in BOOLEAN
      BY <1>2, <3>2, <3>3 DEF AcceptType
    <3>5. /\ accept' \in [at : ServingPoints \cup {"top", "poll", "ended"},
                         client : Viewers \cup {NoViewer}, pub : Viewers \cup {NoViewer}]
          /\ accept'.at \in {"top", "poll", "ended"}
      BY <1>2, <3>1 DEF AcceptType
    <3> QED BY <3>4, <3>5 DEF AcceptType, ServingPoints
  <2>1. AcceptType'
    BY <1>13, <2>4, <2>5
  <2>2. AgentType' /\ InputType'
    BY <1>2, <1>13 DEF Accepted, AcceptTop, PollTimeout, AcceptFrame, AgentType, InputType,
                       inputs, crypto
  <2>3. TcpType'
    BY <1>2, <1>13 DEF Accepted, AcceptTop, PollTimeout, tcp, TcpType
  <2> QED BY <1>1, <1>13, <2>1, <2>2, <2>3 DEF Accepted, AcceptTop, PollTimeout
<1> QED
  BY <1>5, <1>6, <1>7, <1>8, <1>9, <1>10, <1>11, <1>12, <1>13 DEF AcceptStep

\* So does a step of Initialize.
LEMMA InitStepType == ASSUME TypeOK, InitStep PROVE TypeOK'
<1>1. ConfigType' /\ AcceptType' /\ InputType' /\ SendType' /\ ViewerType'
  BY DEF TypeOK, InitStep, EncoderReady, EncoderFails, Shutdown, InitFrame, inputs, sending,
         ConfigType, AcceptType, InputType, SendType, ViewerType
<1>2. AgentType'
  BY DEF TypeOK, InitStep, EncoderReady, EncoderFails, Shutdown, InitFrame, AgentType, Codecs
<1>3. CASE EncoderReady \/ EncoderFails
  BY <1>1, <1>2, <1>3 DEF TypeOK, EncoderReady, EncoderFails, tcp, TcpType
<1>4. CASE Shutdown
  <2>1. backlog' \in Seq(Viewers) /\ agentOpen' \in [Viewers -> BOOLEAN]
    BY <1>4 DEF Shutdown, TypeOK, TcpType
  <2> QED BY <1>1, <1>2, <1>4, <2>1 DEF TypeOK, Shutdown, TcpType
<1> QED BY <1>3, <1>4 DEF InitStep

\* And so does a step of the threads that move frames and input events.
LEMMA RunStepType ==
  ASSUME TypeOK, Capture \/ TakeFrame \/ Encrypt \/ SendTo \/ Inject
  PROVE  TypeOK'
<1>1. RunFrame
  BY DEF Capture, TakeFrame, Encrypt, SendTo, Inject
<1>2. ConfigType' /\ AcceptType' /\ AgentType' /\ ViewerType' /\ TcpType'
  BY <1>1 DEF TypeOK, RunFrame, flags, crypto, tcp, ConfigType, AcceptType, AgentType, ViewerType,
              TcpType
<1>3. CASE Capture \/ TakeFrame \/ Encrypt \/ SendTo
  <2>1. InputType'
    BY <1>3 DEF Capture, TakeFrame, Encrypt, SendTo, inputs, TypeOK, InputType
  <2>2. pipeline' \in 0 .. MaxFrames
    BY <1>3, SessionAssumption DEF Capture, TakeFrame, Encrypt, SendTo, TypeOK, SendType
  <2>3. send' \in [at : {"top", "encrypt", "sendto"}, gen : Nat, key : Keys]
    BY <1>3, KeyTypes DEF Capture, TakeFrame, Encrypt, SendTo, TypeOK, SendType, AgentType
  <2>4. datagrams' \subseteq [to : (Viewers \cup {NoViewer}) \X {"tcp", "udp"}, key : Keys]
    BY <1>3 DEF Capture, TakeFrame, Encrypt, SendTo, TypeOK, SendType, AgentType
  <2> QED BY <1>2, <2>1, <2>2, <2>3, <2>4 DEF TypeOK, SendType
<1>4. CASE Inject
  <2>1. /\ Head(m_inputQueue) \in Viewers /\ Tail(m_inputQueue) \in Seq(Viewers)
        /\ Len(Tail(m_inputQueue)) <= InputCap
    BY <1>4, TailType, SessionAssumption DEF Inject, TypeOK, InputType
  <2>2. InputType' /\ SendType'
    BY <1>4, <2>1 DEF Inject, sending, TypeOK, InputType, SendType
  <2> QED BY <1>2, <2>2 DEF TypeOK
<1> QED BY <1>3, <1>4

\* Every step keeps the types.
LEMMA NextType == TypeOK /\ [Next]_vars => TypeOK'
<1> SUFFICES ASSUME TypeOK, [Next]_vars PROVE TypeOK'
  OBVIOUS
<1>1. CASE UNCHANGED vars
  <2>1. ConfigType' /\ AcceptType' /\ AgentType' /\ InputType'
    BY <1>1 DEF TypeOK, vars, flags, crypto, inputs, ConfigType, AcceptType, AgentType, InputType
  <2>2. SendType' /\ ViewerType' /\ TcpType'
    BY <1>1 DEF TypeOK, vars, sending, tcp, SendType, ViewerType, TcpType
  <2> QED BY <2>1, <2>2 DEF TypeOK
<1> QED
  BY <1>1, ViewerStepType, AcceptStepType, InitStepType, RunStepType DEF Next

\* TYPE CORRECTNESS.  The input queue keeps its bound and the accept thread has
\* a client wherever it reads from one or writes to one.
THEOREM TypeCorrect == Spec => []TypeOK
<1>1. Init => TypeOK
  BY InitType
<1>2. TypeOK /\ [Next]_vars => TypeOK'
  BY NextType
<1> QED BY <1>1, <1>2, PTL DEF Spec

----------------------------------------------------------------------------
(* Only the password opens the desktop *)

\* A response on its way says what the viewer's password is; past the check of
\* it the client has the password; so have those whose input was taken.
Honest(v, msgs) ==
    \A i \in DOMAIN msgs : msgs[i].type = "AUTH_RESPONSE" => msgs[i].right = config.password[v]

ServesPassword == accept.at \in ServingPoints \ {"auth"} => config.password[Client]

InputHasPassword ==
    /\ \A v \in injected : config.password[v]
    /\ \A i \in DOMAIN m_inputQueue : config.password[m_inputQueue[i]]

AuthInv ==
    /\ \A v \in Viewers : Honest(v, toAgent[v])
    /\ ServesPassword
    /\ InputHasPassword

\* Taking a message and adding one of another type, or an honest response.
LEMMA HonestTail ==
  ASSUME NEW v, NEW s \in Seq(MessagesToAgent), s # <<>>, Honest(v, s)
  PROVE  Honest(v, Tail(s)) /\ (Head(s).type = "AUTH_RESPONSE" => Head(s).right = config.password[v])
<1>1. \A i \in DOMAIN Tail(s) : i + 1 \in DOMAIN s /\ Tail(s)[i] = s[i + 1]
  OBVIOUS
<1>2. 1 \in DOMAIN s /\ Head(s) = s[1]
  OBVIOUS
<1> QED BY <1>1, <1>2 DEF Honest

\* Adding a message keeps the responses honest if it is no dishonest response.
LEMMA HonestAppend ==
  ASSUME NEW v, NEW s \in Seq(MessagesToAgent), Honest(v, s), NEW m \in MessagesToAgent,
         m.type = "AUTH_RESPONSE" => m.right = config.password[v]
  PROVE  Honest(v, Append(s, m)) /\ Honest(v, s \o <<m>>)
<1>1. s \o <<m>> = Append(s, m)
  OBVIOUS
<1>2. \A i \in DOMAIN Append(s, m) : \/ i \in DOMAIN s /\ Append(s, m)[i] = s[i]
                                     \/ Append(s, m)[i] = m
  OBVIOUS
<1> QED BY <1>1, <1>2 DEF Honest

\* A step of a viewer keeps AuthInv: it answers with the password it has.
LEMMA ViewerStepAuth ==
  ASSUME TypeOK, AuthInv, NEW v \in Viewers,
         Connect(v) \/ ConnectFails(v) \/ ViewerStep(v) \/ SendInput(v) \/ Quit(v)
  PROVE  AuthInv'
<1>1. ViewerFrame
  BY DEF Connect, ConnectFails, ViewerStep, SendInput, Quit, AnswerChallenge, AnswerKey,
         StartSession, HandshakeFails, Answer, Leave
<1>2. ServesPassword' /\ InputHasPassword' /\ config' = config
  BY <1>1 DEF AuthInv, ViewerFrame, inputs, ServesPassword, InputHasPassword, Client
<1>3. toAgent \in [Viewers -> Seq(MessagesToAgent)] /\ config.password[v] \in BOOLEAN
  BY DEF TypeOK, TcpType, ConfigType
<1>4. \/ toAgent' = toAgent
      \/ \E m \in MessagesToAgent :
            /\ m.type = "AUTH_RESPONSE" => m.right = config.password[v]
            /\ \/ toAgent' = [toAgent EXCEPT ![v] = Append(@, m)]
               \/ toAgent' = [toAgent EXCEPT ![v] = @ \o <<m>>]
  <2>1. CASE Connect(v) \/ ConnectFails(v) \/ HandshakeFails(v)
    BY <2>1 DEF Connect, ConnectFails, HandshakeFails, tcp
  <2>2. CASE AnswerChallenge(v)
    BY <1>3, <2>2, MessageTypes DEF AnswerChallenge, Answer
  <2>3. CASE AnswerKey(v)
    BY <2>3, MessageTypes DEF AnswerKey, Answer
  <2>4. CASE StartSession(v)
    <3>1. toAgent[v] \o <<>> = toAgent[v]
      BY <1>3
    <3>2. toAgent' = [toAgent EXCEPT ![v] = toAgent[v] \o <<>>]
      BY <2>4 DEF StartSession, Answer
    <3> QED BY <1>3, <3>1, <3>2
  <2>5. CASE SendInput(v)
    BY <2>5, MessageTypes DEF SendInput
  <2>6. CASE Quit(v)
    BY <2>6, MessageTypes DEF Quit
  <2> QED BY <2>1, <2>2, <2>3, <2>4, <2>5, <2>6 DEF ViewerStep
<1>5. ASSUME NEW w \in Viewers PROVE Honest(w, toAgent'[w])
  <2>1. Honest(w, toAgent[w]) /\ toAgent[w] \in Seq(MessagesToAgent)
    BY <1>3 DEF AuthInv
  <2>2. CASE toAgent'[w] = toAgent[w]
    BY <2>1, <2>2
  <2>3. CASE toAgent'[w] # toAgent[w]
    <3>1. PICK m \in MessagesToAgent :
             /\ m.type = "AUTH_RESPONSE" => m.right = config.password[v]
             /\ \/ toAgent' = [toAgent EXCEPT ![v] = Append(@, m)]
                \/ toAgent' = [toAgent EXCEPT ![v] = @ \o <<m>>]
      BY <1>4, <2>3
    <3>2. /\ w = v
          /\ toAgent'[w] = Append(toAgent[w], m) \/ toAgent'[w] = toAgent[w] \o <<m>>
      BY <1>3, <2>3, <3>1
    <3>3. Honest(w, Append(toAgent[w], m)) /\ Honest(w, toAgent[w] \o <<m>>)
      <4>1. m.type = "AUTH_RESPONSE" => m.right = config.password[w]
        BY <3>1, <3>2
      <4> QED BY <2>1, <4>1, HonestAppend
    <3> QED BY <3>2, <3>3
  <2> QED BY <2>2, <2>3
<1>6. \A w \in Viewers : Honest(w, toAgent[w])'
  BY <1>2, <1>5 DEF Honest
<1> QED BY <1>2, <1>6 DEF AuthInv

\* A step of the accept thread: it goes past "auth" by the right response only.
LEMMA AcceptStepAuth == ASSUME TypeOK, AuthInv, AcceptStep PROVE AuthInv'
<1>1. AcceptFrame
  BY DEF AcceptStep, Accept, VerifyResponse, HandshakeError, AcceptKey, ReplaceChannel,
         InitializeChannel, SetEncrypted, SendStart, Accepted, TakeInput, LoopEnds, AcceptTop,
         PollTimeout
<1>2. config' = config
  BY <1>1 DEF AcceptFrame
<1>3. /\ toAgent \in [Viewers -> Seq(MessagesToAgent)] /\ m_inputQueue \in Seq(Viewers)
      /\ accept.at \in ServingPoints => Client \in Viewers
  BY DEF TypeOK, TcpType, InputType, AcceptType, Client
<1>4. \/ toAgent' = toAgent
      \/ /\ Client \in Viewers /\ toAgent[Client] # <<>>
         /\ toAgent' = [toAgent EXCEPT ![Client] = Tail(@)]
  BY <1>3 DEF AcceptStep, Accept, VerifyResponse, HandshakeError, AcceptKey, ReplaceChannel,
              InitializeChannel, SetEncrypted, SendStart, Accepted, TakeInput, LoopEnds, AcceptTop,
              PollTimeout, Exchange, tcp, AgentHears, ServingPoints
<1>5. \A w \in Viewers : Honest(w, toAgent'[w])
  BY <1>3, <1>4, HonestTail DEF AuthInv
<1>6. \A w \in Viewers : Honest(w, toAgent[w])'
  BY <1>2, <1>5 DEF Honest
<1>7. ServesPassword'
  <2>1. CASE VerifyResponse
    <3>1. /\ Client \in Viewers /\ toAgent[Client] # <<>>
          /\ Head(toAgent[Client]).type = "AUTH_RESPONSE" /\ Head(toAgent[Client]).right
      BY <1>3, <2>1 DEF VerifyResponse, AgentHears, ServingPoints
    <3>2. config.password[Client]
      BY <1>3, <3>1, HonestTail DEF AuthInv
    <3>3. accept'.client = accept.client
      BY <2>1 DEF VerifyResponse, AgentGoes, TypeOK, AcceptType
    <3> QED BY <1>2, <3>2, <3>3 DEF ServesPassword, Client
  <2>2. CASE Accept \/ HandshakeError
    BY <2>2 DEF Accept, HandshakeError, ServesPassword, ServingPoints
  <2>3. CASE LoopEnds \/ AcceptTop \/ PollTimeout
    BY <2>3 DEF LoopEnds, AcceptTop, PollTimeout, AgentGoes, ServesPassword, ServingPoints, TypeOK,
                AcceptType
  <2>4. CASE TakeInput
    BY <1>2, <2>4 DEF TakeInput, ServesPassword, AuthInv, Client
  <2>5. CASE \/ AcceptKey \/ ReplaceChannel \/ InitializeChannel \/ SetEncrypted
             \/ SendStart \/ Accepted
    <3>1. accept.at \in ServingPoints \ {"auth"} /\ accept'.client = accept.client
      BY <2>5 DEF AcceptKey, ReplaceChannel, InitializeChannel, SetEncrypted, SendStart, Accepted,
                  AgentGoes, ServingPoints, TypeOK, AcceptType
    <3> QED BY <1>2, <3>1 DEF ServesPassword, AuthInv, Client
  <2> QED BY <2>1, <2>2, <2>3, <2>4, <2>5 DEF AcceptStep
<1>8. InputHasPassword'
  <2>1. CASE TakeInput
    <3>1. config.password[Client] /\ Client \in Viewers
      BY <1>3, <2>1 DEF TakeInput, AuthInv, ServesPassword, ServingPoints
    <3>2. \/ m_inputQueue' = m_inputQueue
          \/ \A i \in DOMAIN m_inputQueue' : \/ i \in DOMAIN m_inputQueue /\ m_inputQueue'[i] = m_inputQueue[i]
                                             \/ m_inputQueue'[i] = Client
      BY <1>3, <2>1, <3>1 DEF TakeInput
    <3> QED BY <1>2, <2>1, <3>1, <3>2 DEF TakeInput, AuthInv, InputHasPassword
  <2>2. CASE ~TakeInput
    <3>1. UNCHANGED inputs
      BY <2>2 DEF AcceptStep, Accept, VerifyResponse, HandshakeError, AcceptKey, ReplaceChannel,
                  InitializeChannel, SetEncrypted, SendStart, Accepted, LoopEnds, AcceptTop,
                  PollTimeout
    <3> QED BY <1>2, <3>1 DEF inputs, AuthInv, InputHasPassword
  <2> QED BY <2>1, <2>2
<1> QED BY <1>6, <1>7, <1>8 DEF AuthInv

\* Every step keeps AuthInv.
LEMMA NextAuth == TypeOK /\ AuthInv /\ [Next]_vars => AuthInv'
<1> SUFFICES ASSUME TypeOK, AuthInv, [Next]_vars PROVE AuthInv'
  OBVIOUS
<1>1. CASE UNCHANGED vars
  BY <1>1 DEF vars, inputs, tcp, AuthInv, Honest, ServesPassword, InputHasPassword, Client
<1>2. CASE InitStep
  BY <1>2 DEF InitStep, EncoderReady, EncoderFails, Shutdown, InitFrame, inputs, tcp,
              AuthInv, Honest, ServesPassword, InputHasPassword, Client
<1>3. CASE Capture \/ TakeFrame \/ Encrypt \/ SendTo
  BY <1>3 DEF Capture, TakeFrame, Encrypt, SendTo, RunFrame, inputs, tcp,
              AuthInv, Honest, ServesPassword, InputHasPassword, Client
<1>4. CASE Inject
  <2>1. /\ 1 \in DOMAIN m_inputQueue /\ Head(m_inputQueue) = m_inputQueue[1]
        /\ \A i \in DOMAIN Tail(m_inputQueue) :
              i + 1 \in DOMAIN m_inputQueue /\ Tail(m_inputQueue)[i] = m_inputQueue[i + 1]
    BY <1>4 DEF Inject, TypeOK, InputType
  <2>2. InputHasPassword'
    BY <1>4, <2>1 DEF Inject, RunFrame, AuthInv, InputHasPassword
  <2> QED BY <1>4, <2>2 DEF Inject, RunFrame, tcp, AuthInv, Honest, ServesPassword, Client
<1> QED BY <1>1, <1>2, <1>3, <1>4, ViewerStepAuth, AcceptStepAuth DEF Next

\* ONLY THE PASSWORD OPENS THE DESKTOP: whoever is served, and whoever's input
\* is queued or injected, has answered the challenge with the agent's password.
THEOREM OnlyPasswordIsServed == Spec => []OnlyAuthenticated
<1>1. Init => TypeOK /\ AuthInv
  <2> SUFFICES ASSUME Init PROVE AuthInv
    BY InitType
  <2> QED BY DEF Init, AuthInv, Honest, ServesPassword, InputHasPassword, ServingPoints
<1>2. (TypeOK /\ AuthInv) /\ [Next]_vars => (TypeOK /\ AuthInv)'
  BY NextType, NextAuth
<1>3. TypeOK /\ AuthInv => OnlyAuthenticated
  BY DEF TypeOK, AcceptType, AuthInv, ServesPassword, ServingPoints, InputHasPassword,
         OnlyAuthenticated
<1> QED BY <1>1, <1>2, <1>3, PTL DEF Spec

----------------------------------------------------------------------------
(* Nothing in the clear *)

\* Once an agent with encryption has come to the end of a handshake, and as
\* long as a frame of that session is on its way, the send thread finds
\* m_encrypted set and a channel to encrypt with.
ChannelComes ==
    /\ accept.at \in {"key", "replace"} => m_dh # 0
    /\ accept.at \in {"initialize", "encrypt"} => m_secureChannel.gen # 0

ChannelStays ==
    init \in {"encoder", "run"} /\ (accept.at \in {"start", "accepted", "loop"} \/ pipeline > 0)
    => m_encrypted /\ m_secureChannel.gen # 0

SecretInv ==
    /\ config.agentEncrypts => ChannelComes /\ ChannelStays
    /\ pipeline > 0 => init = "run"
    /\ config.agentEncrypts /\ send.at = "sendto" => send.key # NoKey
    /\ NothingInTheClear

\* A step of the accept thread keeps SecretInv: the flag is set after the
\* channel has its key, and neither is ever taken back.
LEMMA AcceptStepSecret == ASSUME TypeOK, SecretInv, AcceptStep PROVE SecretInv'
<1>1. AcceptFrame
  BY DEF AcceptStep, Accept, VerifyResponse, HandshakeError, AcceptKey, ReplaceChannel,
         InitializeChannel, SetEncrypted, SendStart, Accepted, TakeInput, LoopEnds, AcceptTop,
         PollTimeout
<1>2. UNCHANGED <<config, init, pipeline, send, datagrams>>
  BY <1>1 DEF AcceptFrame, sending
<1>3. SUFFICES ASSUME config.agentEncrypts PROVE ChannelComes' /\ ChannelStays'
  BY <1>2 DEF SecretInv, NothingInTheClear
<1>4. ChannelComes /\ ChannelStays
  BY <1>3 DEF SecretInv
<1>5. m_dh \in Nat /\ accept = [at |-> accept.at, client |-> accept.client, pub |-> accept.pub]
  BY DEF TypeOK, AgentType, AcceptType
<1>6. m_secureChannel \in [gen : Nat, key : Keys]
  BY DEF TypeOK, AgentType
<1>7. CASE VerifyResponse
  <2>1. accept'.at = "key" /\ m_dh' = m_dh + 1 /\ UNCHANGED <<m_encrypted, m_secureChannel>>
    BY <1>3, <1>5, <1>7 DEF VerifyResponse, AgentGoes
  <2> QED BY <1>2, <1>4, <1>5, <2>1 DEF ChannelComes, ChannelStays
<1>8. CASE ReplaceChannel
  <2>1. /\ accept.at = "replace" /\ accept'.at = "initialize" /\ m_secureChannel'.gen = m_dh
        /\ UNCHANGED <<m_encrypted, m_dh>>
    BY <1>5, <1>8 DEF ReplaceChannel, AgentGoes
  <2> QED BY <1>2, <1>4, <2>1 DEF ChannelComes, ChannelStays
<1>9. CASE InitializeChannel
  <2>1. /\ accept.at = "initialize" /\ accept'.at = "encrypt"
        /\ m_secureChannel'.gen = m_secureChannel.gen /\ UNCHANGED <<m_encrypted, m_dh>>
    BY <1>5, <1>6, <1>9 DEF InitializeChannel, AgentGoes
  <2> QED BY <1>2, <1>4, <2>1 DEF ChannelComes, ChannelStays
<1>10. CASE SetEncrypted
  <2>1. /\ accept.at = "encrypt" /\ accept'.at = "start" /\ m_encrypted' = TRUE
        /\ UNCHANGED <<m_secureChannel, m_dh>>
    BY <1>5, <1>10 DEF SetEncrypted, AgentGoes
  <2> QED BY <1>2, <1>4, <2>1 DEF ChannelComes, ChannelStays
<1>11. CASE AcceptKey
  <2>1. /\ accept.at = "key" /\ accept'.at = "replace"
        /\ UNCHANGED <<m_encrypted, m_secureChannel, m_dh>>
    BY <1>5, <1>11 DEF AcceptKey
  <2> QED BY <1>2, <1>4, <2>1 DEF ChannelComes, ChannelStays
<1>12. CASE SendStart \/ Accepted \/ TakeInput
  <2>1. /\ accept.at \in {"start", "accepted", "loop"} /\ accept'.at \in {"accepted", "loop"}
        /\ UNCHANGED <<m_encrypted, m_secureChannel, m_dh>>
    BY <1>5, <1>12 DEF SendStart, Accepted, TakeInput, AgentGoes, crypto
  <2> QED BY <1>2, <1>4, <2>1 DEF ChannelComes, ChannelStays
<1>13. CASE Accept \/ HandshakeError \/ LoopEnds \/ AcceptTop \/ PollTimeout
  <2>1. UNCHANGED <<m_encrypted, m_secureChannel, m_dh>>
    BY <1>13 DEF Accept, HandshakeError, LoopEnds, AcceptTop, PollTimeout, crypto
  <2>2. CASE Accept \/ HandshakeError
    <3>1. accept'.at \in {"auth", "top"}
      BY <2>2 DEF Accept, HandshakeError
    <3> QED BY <1>2, <1>4, <2>1, <3>1 DEF ChannelComes, ChannelStays
  <2>3. CASE LoopEnds \/ AcceptTop \/ PollTimeout
    <3>1. \E l \in {"top", "poll", "ended"} : accept' = [accept EXCEPT !.at = l]
      BY <2>3 DEF LoopEnds, AcceptTop, PollTimeout, AgentGoes
    <3>2. accept'.at \in {"top", "poll", "ended"}
      BY <1>5, <3>1
    <3> QED BY <1>2, <1>4, <2>1, <3>2 DEF ChannelComes, ChannelStays
  <2> QED BY <1>13, <2>2, <2>3
<1> QED BY <1>7, <1>8, <1>9, <1>10, <1>11, <1>12, <1>13 DEF AcceptStep

\* Every step keeps SecretInv.
LEMMA NextSecret == TypeOK /\ SecretInv /\ [Next]_vars => SecretInv'
<1> SUFFICES ASSUME TypeOK, SecretInv, [Next]_vars PROVE SecretInv'
  OBVIOUS
<1> USE DEF SecretInv, NothingInTheClear, ChannelComes, ChannelStays
<1>1. CASE UNCHANGED vars
  BY <1>1 DEF vars, crypto, sending
<1>2. ASSUME NEW v \in Viewers,
             Connect(v) \/ ConnectFails(v) \/ ViewerStep(v) \/ SendInput(v) \/ Quit(v)
      PROVE  SecretInv'
  <2>1. ViewerFrame
    BY <1>2 DEF Connect, ConnectFails, ViewerStep, SendInput, Quit, AnswerChallenge, AnswerKey,
                StartSession, HandshakeFails, Answer, Leave
  <2> QED BY <2>1 DEF ViewerFrame, crypto, sending
<1>3. CASE InitStep
  BY <1>3 DEF InitStep, EncoderReady, EncoderFails, Shutdown, InitFrame, sending
<1>4. CASE Inject
  BY <1>4 DEF Inject, RunFrame, crypto, sending
<1>5. CASE Capture
  BY <1>5 DEF Capture, RunFrame, crypto, TypeOK, AcceptType, SendType
<1>6. CASE TakeFrame
  <2>1. UNCHANGED <<config, m_encrypted, m_secureChannel, m_dh, accept, init, datagrams>>
    BY <1>6 DEF TakeFrame, RunFrame, crypto
  <2>2. /\ pipeline' > 0 => pipeline > 0
        /\ config.agentEncrypts => send'.at = "encrypt"
    BY <1>6 DEF TakeFrame, TypeOK, SendType
  <2> QED BY <2>1, <2>2
<1>7. CASE Encrypt
  <2>1. UNCHANGED <<config, m_encrypted, m_secureChannel, m_dh, accept, init, datagrams, pipeline>>
    BY <1>7 DEF Encrypt, RunFrame, crypto
  <2>2. send'.at = "sendto" => send'.key # NoKey
    BY <1>7 DEF Encrypt
  <2> QED BY <2>1, <2>2
<1>8. CASE SendTo
  BY <1>8 DEF SendTo, RunFrame, crypto
<1> QED BY <1>1, <1>2, <1>3, <1>4, <1>5, <1>6, <1>7, <1>8, AcceptStepSecret DEF Next

\* NOTHING IN THE CLEAR: an agent started with encryption encrypts every frame
\* it sends, those still on their way from one client to the next included.
THEOREM NothingIsSentInTheClear == Spec => []NothingInTheClear
<1>1. Init => TypeOK /\ SecretInv
  <2> SUFFICES ASSUME Init PROVE SecretInv
    BY InitType
  <2> QED BY DEF Init, SecretInv, NothingInTheClear, ChannelComes, ChannelStays
<1>2. (TypeOK /\ SecretInv) /\ [Next]_vars => (TypeOK /\ SecretInv)'
  BY NextType, NextSecret
<1>3. SecretInv => NothingInTheClear
  BY DEF SecretInv
<1> QED BY <1>1, <1>2, <1>3, PTL DEF Spec
----------------------------------------------------------------------------
(* The ends agree *)

Elements(s) == {s[i] : i \in DOMAIN s}

\* No element of s comes twice.
Once(s) == \A i, j \in DOMAIN s : s[i] = s[j] => i = j

\* The accept thread has not come to viewer v.
NotAccepted(v) == v \in Elements(backlog) \/ viewer[v].at = "off"

\* The accept thread serves viewer v.
Serves(v) == accept.at \in ServingPoints /\ Client = v

\* A viewer waits in the listen queue once, and hears nothing while it does.
WaitsOnce ==
    /\ \A v \in Viewers : viewer[v].at = "off" => v \notin Elements(backlog)
    /\ Once(backlog)
    /\ \A v \in Viewers : NotAccepted(v) => /\ toViewer[v] = <<>> /\ ~Serves(v)
                                           /\ viewer[v].at \in {"off", "auth", "failed", "closed"}

\* An agent's key comes from an agent that encrypts; the viewer it serves has
\* been sent no other key than that of its last key pair.
KeysToViewer == \A v \in Viewers : \A m \in Elements(toViewer[v]) :
    m.type = "KEY_EXCHANGE" => /\ config.agentEncrypts
                               /\ Serves(v) => accept.at # "auth" /\ m.pub = m_dh

\* A viewer's key comes from a viewer that encrypts and is its own.
KeysToAgent == \A v \in Viewers : \A m \in Elements(toAgent[v]) :
    m.type = "KEY_EXCHANGE" => config.encrypts[v] /\ m.pub = v

\* A viewer that encrypts comes past "key" with the agent's last key pair only.
ViewerKeys == \A v \in Viewers :
    /\ viewer[v].at = "key" => config.encrypts[v]
    /\ config.encrypts[v] /\ viewer[v].at \in {"session", "connected"}
       => /\ config.agentEncrypts
          /\ Serves(v) => accept.at # "auth" /\ viewer[v].key = Shared(m_dh, v)

\* What the handshake of an agent that encrypts leaves behind at each point.
ChannelAgrees ==
    /\ accept.at \in {"replace", "initialize"} => accept.pub = Client
    /\ accept.at \in {"replace", "initialize", "encrypt", "start", "accepted", "loop"}
       => config.encrypts[Client] /\ m_udpDestAddr = <<Client, "udp">>
    /\ accept.at \in {"encrypt", "start", "accepted", "loop"}
       => m_secureChannel.key = Shared(m_dh, Client)

AgreeInv ==
    /\ WaitsOnce /\ KeysToViewer /\ KeysToAgent /\ ViewerKeys
    /\ config.agentEncrypts => ChannelAgrees
    /\ m_running => init \in {"encoder", "run"}

LEMMA ElementsEmpty == Elements(<<>>) = {} /\ Once(<<>>)
BY DEF Elements, Once

LEMMA ElementsTail ==
  ASSUME NEW S, NEW s \in Seq(S), s # <<>>
  PROVE  /\ Elements(Tail(s)) \subseteq Elements(s) /\ Head(s) \in Elements(s)
         /\ Once(s) => Once(Tail(s)) /\ Head(s) \notin Elements(Tail(s))
<1>1. /\ 1 \in DOMAIN s /\ Head(s) = s[1]
      /\ \A i \in DOMAIN Tail(s) : /\ i + 1 \in DOMAIN s /\ Tail(s)[i] = s[i + 1]
                                   /\ i \in Nat /\ i > 0
  OBVIOUS
<1>2. Elements(Tail(s)) \subseteq Elements(s) /\ Head(s) \in Elements(s)
  BY <1>1 DEF Elements
<1>3. ASSUME Once(s) PROVE Once(Tail(s))
  <2> SUFFICES ASSUME NEW i \in DOMAIN Tail(s), NEW j \in DOMAIN Tail(s), Tail(s)[i] = Tail(s)[j]
               PROVE  i = j
    BY DEF Once
  <2>1. i + 1 = j + 1
    BY <1>1, <1>3 DEF Once
  <2> QED BY <1>1, <2>1
<1>4. ASSUME Once(s), Head(s) \in Elements(Tail(s)) PROVE FALSE
  <2>1. PICK i \in DOMAIN Tail(s) : Tail(s)[i] = Head(s)
    BY <1>4 DEF Elements
  <2>2. i + 1 = 1
    BY <1>1, <1>4, <2>1 DEF Once
  <2> QED BY <1>1, <2>2
<1> QED BY <1>2, <1>3, <1>4

LEMMA ElementsAppend ==
  ASSUME NEW S, NEW s \in Seq(S), NEW e \in S
  PROVE  /\ Elements(Append(s, e)) = Elements(s) \cup {e}
         /\ s \o <<e>> = Append(s, e) /\ s \o <<>> = s
         /\ Once(s) /\ e \notin Elements(s) => Once(Append(s, e))
<1>1. /\ s \o <<e>> = Append(s, e) /\ s \o <<>> = s
      /\ Len(s) \in Nat /\ DOMAIN s = 1 .. Len(s)
      /\ DOMAIN Append(s, e) = 1 .. Len(s) + 1
      /\ Append(s, e)[Len(s) + 1] = e /\ \A i \in DOMAIN s : Append(s, e)[i] = s[i]
  OBVIOUS
<1>2. /\ \A i \in DOMAIN Append(s, e) : i \in DOMAIN s \/ i = Len(s) + 1
      /\ \A i \in DOMAIN s : i \in DOMAIN Append(s, e)
      /\ Len(s) + 1 \in DOMAIN Append(s, e)
  BY <1>1
<1>3. Elements(Append(s, e)) = Elements(s) \cup {e}
  BY <1>1, <1>2 DEF Elements
<1>4. ASSUME Once(s), e \notin Elements(s) PROVE Once(Append(s, e))
  <2> SUFFICES ASSUME NEW i \in DOMAIN Append(s, e), NEW j \in DOMAIN Append(s, e),
                      Append(s, e)[i] = Append(s, e)[j]
               PROVE  i = j
    BY DEF Once
  <2>1. \A k \in DOMAIN s : s[k] # e
    BY <1>4 DEF Elements
  <2> QED BY <1>1, <1>2, <1>4, <2>1 DEF Once
<1> QED BY <1>1, <1>3, <1>4

\* What a step of a viewer does to what the agent and the others see of it.
LEMMA ViewerMoves ==
  ASSUME TypeOK, NEW v \in Viewers,
         Connect(v) \/ ConnectFails(v) \/ ViewerStep(v) \/ SendInput(v) \/ Quit(v)
  PROVE  /\ ViewerFrame
         /\ \A w \in Viewers : w # v => viewer'[w] = viewer[w]
         /\ \/ /\ viewer[v].at = "off" /\ viewer'[v].at = "auth"
               /\ backlog' = Append(backlog, v) /\ toViewer' = toViewer
            \/ /\ viewer'[v].at \in {"failed", "closed"}
               /\ UNCHANGED <<backlog, toViewer>>
            \/ /\ viewer[v].at = "connected" /\ viewer'[v].at = "connected"
               /\ viewer'[v].key = viewer[v].key
               /\ UNCHANGED <<backlog, toViewer>>
            \/ /\ toViewer[v] # <<>> /\ toViewer' = [toViewer EXCEPT ![v] = Tail(@)]
               /\ UNCHANGED backlog /\ viewer[v].at # "off"
               /\ \/ viewer'[v].at = "key" /\ config.encrypts[v]
                  \/ viewer'[v].at = "session" /\ ~config.encrypts[v]
                  \/ /\ viewer'[v].at = "session" /\ Head(toViewer[v]).type = "KEY_EXCHANGE"
                     /\ viewer'[v].key = Shared(Head(toViewer[v]).pub, v)
                  \/ /\ viewer[v].at = "session" /\ viewer'[v].at = "connected"
                     /\ viewer'[v].key = viewer[v].key
<1>1. ViewerType
  BY DEF TypeOK
<1>2. CASE Connect(v) \/ ConnectFails(v)
  BY <1>1, <1>2 DEF Connect, ConnectFails, ViewerType, tcp
<1>3. CASE AnswerChallenge(v)
  BY <1>1, <1>3 DEF AnswerChallenge, Answer, Hears, ViewerType
<1>4. CASE AnswerKey(v)
  BY <1>1, <1>4 DEF AnswerKey, Answer, Hears, ViewerType
<1>5. CASE StartSession(v)
  BY <1>1, <1>5 DEF StartSession, Answer, Hears, ViewerType
<1>6. CASE HandshakeFails(v) \/ Quit(v)
  BY <1>1, <1>6 DEF HandshakeFails, Quit, Leave, ViewerType
<1>7. CASE SendInput(v)
  BY <1>1, <1>7 DEF SendInput, ViewerType
<1> QED BY <1>2, <1>3, <1>4, <1>5, <1>6, <1>7 DEF ViewerStep

\* What a step of a viewer sends the agent: a key is its own, sent when it encrypts.
LEMMA ViewerSends ==
  ASSUME TypeOK, ViewerKeys, NEW v \in Viewers,
         Connect(v) \/ ConnectFails(v) \/ ViewerStep(v) \/ SendInput(v) \/ Quit(v)
  PROVE  \A w \in Viewers : \A m \in Elements(toAgent'[w]) :
            m \in Elements(toAgent[w]) \/ (m.type = "KEY_EXCHANGE" => w = v /\ config.encrypts[v]
                                                                    /\ m.pub = v)
<1>1. toAgent \in [Viewers -> Seq(MessagesToAgent)] /\ config.password[v] \in BOOLEAN
  BY DEF TypeOK, TcpType, ConfigType
<1>2. \/ toAgent' = toAgent
      \/ toAgent' = [toAgent EXCEPT ![v] = @ \o <<>>]
      \/ \E m \in MessagesToAgent :
            /\ m.type = "KEY_EXCHANGE" => config.encrypts[v] /\ m.pub = v
            /\ \/ toAgent' = [toAgent EXCEPT ![v] = Append(@, m)]
               \/ toAgent' = [toAgent EXCEPT ![v] = @ \o <<m>>]
  <2>1. CASE Connect(v) \/ ConnectFails(v) \/ HandshakeFails(v)
    BY <2>1 DEF Connect, ConnectFails, HandshakeFails, tcp
  <2>2. CASE AnswerChallenge(v)
    BY <1>1, <2>2, MessageTypes DEF AnswerChallenge, Answer
  <2>3. CASE AnswerKey(v)
    <3>1. config.encrypts[v]
      BY <2>3 DEF AnswerKey, ViewerKeys
    <3> QED BY <2>3, <3>1, MessageTypes DEF AnswerKey, Answer
  <2>4. CASE StartSession(v)
    BY <2>4 DEF StartSession, Answer
  <2>5. CASE SendInput(v)
    BY <2>5, MessageTypes DEF SendInput
  <2>6. CASE Quit(v)
    BY <2>6, MessageTypes DEF Quit
  <2> QED BY <2>1, <2>2, <2>3, <2>4, <2>5, <2>6 DEF ViewerStep
<1>3. toAgent[v] \in Seq(MessagesToAgent) /\ toAgent[v] \o <<>> = toAgent[v]
  BY <1>1
<1>4. CASE toAgent' = toAgent \/ toAgent' = [toAgent EXCEPT ![v] = @ \o <<>>]
  BY <1>1, <1>3, <1>4
<1>5. ASSUME NEW m \in MessagesToAgent, m.type = "KEY_EXCHANGE" => config.encrypts[v] /\ m.pub = v,
             \/ toAgent' = [toAgent EXCEPT ![v] = Append(@, m)]
             \/ toAgent' = [toAgent EXCEPT ![v] = @ \o <<m>>]
      PROVE  \A w \in Viewers : \A n \in Elements(toAgent'[w]) :
                \/ n \in Elements(toAgent[w])
                \/ n.type = "KEY_EXCHANGE" => w = v /\ config.encrypts[v] /\ n.pub = v
  <2>1. /\ Elements(Append(toAgent[v], m)) = Elements(toAgent[v]) \cup {m}
        /\ toAgent[v] \o <<m>> = Append(toAgent[v], m)
    BY <1>3, ElementsAppend
  <2>2. \A w \in Viewers : toAgent'[w] = IF w = v THEN Append(toAgent[v], m) ELSE toAgent[w]
    BY <1>1, <1>5, <2>1
  <2> QED BY <1>5, <2>1, <2>2
<1> QED BY <1>2, <1>4, <1>5

\* A step of a viewer keeps AgreeInv: it goes on by what it has been sent only.
LEMMA ViewerStepAgree ==
  ASSUME TypeOK, AgreeInv, NEW v \in Viewers,
         Connect(v) \/ ConnectFails(v) \/ ViewerStep(v) \/ SendInput(v) \/ Quit(v)
  PROVE  AgreeInv'
<1>1. /\ UNCHANGED <<config, m_running, m_udpDestAddr, m_secureChannel, m_dh, accept, init>>
      /\ \A w \in Viewers : w # v => viewer'[w] = viewer[w]
  BY ViewerMoves DEF ViewerFrame, flags, crypto
<1>2. /\ backlog \in Seq(Viewers) /\ toViewer \in [Viewers -> Seq(MessagesToViewer)]
      /\ toViewer[v] \in Seq(MessagesToViewer)
  BY DEF TypeOK, TcpType
<1>3. WaitsOnce /\ KeysToViewer /\ KeysToAgent /\ ViewerKeys
  BY DEF AgreeInv
<1>4. \A w : Serves(w)' <=> Serves(w)
  BY <1>1 DEF Serves, Client
<1>5. KeysToAgent'
  BY <1>1, <1>3, ViewerSends DEF KeysToAgent
<1>6. /\ config.agentEncrypts' => ChannelAgrees'
      /\ m_running' => init' \in {"encoder", "run"}
  BY <1>1 DEF AgreeInv, ChannelAgrees, Client
<1>7. CASE /\ viewer[v].at = "off" /\ viewer'[v].at = "auth"
           /\ backlog' = Append(backlog, v) /\ toViewer' = toViewer
  <2>1. /\ Elements(backlog') = Elements(backlog) \cup {v} /\ v \notin Elements(backlog)
        /\ Once(backlog')
    BY <1>2, <1>3, <1>7, ElementsAppend DEF WaitsOnce
  <2>2. WaitsOnce'
    BY <1>1, <1>3, <1>4, <1>7, <2>1 DEF WaitsOnce, NotAccepted
  <2>3. KeysToViewer'
    BY <1>1, <1>3, <1>4, <1>7 DEF KeysToViewer
  <2>4. ViewerKeys'
    BY <1>1, <1>3, <1>4, <1>7 DEF ViewerKeys
  <2> QED BY <1>5, <1>6, <2>2, <2>3, <2>4 DEF AgreeInv
<1>8. CASE /\ UNCHANGED <<backlog, toViewer>>
           /\ \/ viewer'[v].at \in {"failed", "closed"}
              \/ /\ viewer[v].at = "connected" /\ viewer'[v].at = "connected"
                 /\ viewer'[v].key = viewer[v].key
  <2>1. \A w \in Viewers : /\ viewer'[w].at = "off" => viewer[w].at = "off"
                           /\ NotAccepted(w)' => NotAccepted(w)
    BY <1>1, <1>8 DEF NotAccepted
  <2>2. WaitsOnce'
    BY <1>1, <1>3, <1>4, <1>8, <2>1 DEF WaitsOnce, NotAccepted
  <2>3. KeysToViewer'
    BY <1>1, <1>3, <1>4, <1>8 DEF KeysToViewer
  <2>4. ViewerKeys'
    BY <1>1, <1>3, <1>4, <1>8 DEF ViewerKeys
  <2> QED BY <1>5, <1>6, <2>2, <2>3, <2>4 DEF AgreeInv
<1>9. CASE /\ toViewer[v] # <<>> /\ toViewer' = [toViewer EXCEPT ![v] = Tail(@)]
           /\ UNCHANGED backlog /\ viewer[v].at # "off"
           /\ \/ viewer'[v].at = "key" /\ config.encrypts[v]
              \/ viewer'[v].at = "session" /\ ~config.encrypts[v]
              \/ /\ viewer'[v].at = "session" /\ Head(toViewer[v]).type = "KEY_EXCHANGE"
                 /\ viewer'[v].key = Shared(Head(toViewer[v]).pub, v)
              \/ /\ viewer[v].at = "session" /\ viewer'[v].at = "connected"
                 /\ viewer'[v].key = viewer[v].key
  <2>1. /\ Elements(Tail(toViewer[v])) \subseteq Elements(toViewer[v])
        /\ Head(toViewer[v]) \in Elements(toViewer[v])
    BY <1>2, <1>9, ElementsTail
  <2>2. \A w \in Viewers : toViewer'[w] = IF w = v THEN Tail(toViewer[v]) ELSE toViewer[w]
    BY <1>2, <1>9
  <2>3. ~NotAccepted(v) /\ viewer'[v].at # "off"
    BY <1>3, <1>9 DEF WaitsOnce
  <2>4. \A w \in Viewers : NotAccepted(w)' => NotAccepted(w) /\ w # v
    BY <1>1, <1>9, <2>3 DEF NotAccepted
  <2>5. WaitsOnce'
    BY <1>1, <1>3, <1>4, <1>9, <2>2, <2>3, <2>4 DEF WaitsOnce, NotAccepted
  <2>6. KeysToViewer'
    BY <1>1, <1>3, <1>4, <2>1, <2>2 DEF KeysToViewer
  <2>7. Head(toViewer[v]).type = "KEY_EXCHANGE"
        => /\ config.agentEncrypts
           /\ Serves(v) => accept.at # "auth" /\ Head(toViewer[v]).pub = m_dh
    BY <1>3, <2>1 DEF KeysToViewer
  <2>8. ViewerKeys'
    BY <1>1, <1>3, <1>4, <1>9, <2>7 DEF ViewerKeys
  <2> QED BY <1>5, <1>6, <2>5, <2>6, <2>8 DEF AgreeInv
<1> QED BY <1>7, <1>8, <1>9, ViewerMoves

\* What the agent sends its client is added to what the client has still to read.
LEMMA ExchangeElements ==
  ASSUME TypeOK, Client \in Viewers, NEW rd \in BOOLEAN, NEW msgs, Exchange(rd, msgs),
         \/ msgs = <<>>
         \/ \E m \in MessagesToViewer : msgs = <<m>>
  PROVE  /\ \A w \in Viewers : w # Client \/ msgs = <<>> => toViewer'[w] = toViewer[w]
         /\ \A m \in Elements(toViewer'[Client]) : \/ m \in Elements(toViewer[Client])
                                                   \/ msgs = <<m>>
         /\ backlog' = backlog
<1>1. toViewer \in [Viewers -> Seq(MessagesToViewer)] /\ toViewer[Client] \in Seq(MessagesToViewer)
  BY DEF TypeOK, TcpType
<1>2. toViewer' = toViewer \/ toViewer' = [toViewer EXCEPT ![Client] = @ \o msgs]
  BY DEF Exchange
<1>3. CASE msgs = <<>>
  <2>1. toViewer[Client] \o <<>> = toViewer[Client]
    BY <1>1
  <2> QED BY <1>1, <1>2, <1>3, <2>1 DEF Exchange
<1>4. ASSUME NEW m \in MessagesToViewer, msgs = <<m>>
      PROVE  /\ \A w \in Viewers : w # Client \/ msgs = <<>> => toViewer'[w] = toViewer[w]
             /\ \A n \in Elements(toViewer'[Client]) : \/ n \in Elements(toViewer[Client])
                                                       \/ msgs = <<n>>
             /\ backlog' = backlog
  <2>1. /\ Elements(Append(toViewer[Client], m)) = Elements(toViewer[Client]) \cup {m}
        /\ toViewer[Client] \o <<m>> = Append(toViewer[Client], m)
    BY <1>1, ElementsAppend
  <2>2. msgs # <<>>
    BY <1>4
  <2>3. CASE toViewer' = toViewer
    BY <2>2, <2>3 DEF Exchange
  <2>4. CASE toViewer' = [toViewer EXCEPT ![Client] = @ \o msgs]
    <3>1. toViewer'[Client] = Append(toViewer[Client], m)
      BY <1>1, <1>4, <2>1, <2>4
    <3>2. \A w \in Viewers : w # Client => toViewer'[w] = toViewer[w]
      BY <1>1, <2>4
    <3>3. Elements(toViewer'[Client]) = Elements(toViewer[Client]) \cup {m}
      BY <2>1, <3>1
    <3> QED BY <1>4, <2>2, <3>2, <3>3 DEF Exchange
  <2> QED BY <1>2, <2>3, <2>4
<1> QED BY <1>3, <1>4

LEMMA SendOne ==
  ASSUME TypeOK, Client \in Viewers, NEW rd \in BOOLEAN, NEW k \in MessagesToViewer,
         Exchange(rd, <<k>>)
  PROVE  /\ \A w \in Viewers : w # Client => toViewer'[w] = toViewer[w]
         /\ \A m \in Elements(toViewer'[Client]) : m \in Elements(toViewer[Client]) \/ m = k
         /\ backlog' = backlog
<1> DEFINE msgs == <<k>>
<1>1. /\ \A m : msgs = <<m>> => m = k
      /\ \E m \in MessagesToViewer : msgs = <<m>>
  OBVIOUS
<1>2. Exchange(rd, msgs)
  OBVIOUS
<1> HIDE DEF msgs
<1>3. /\ \A w \in Viewers : w # Client \/ msgs = <<>> => toViewer'[w] = toViewer[w]
      /\ \A m \in Elements(toViewer'[Client]) : \/ m \in Elements(toViewer[Client])
                                                \/ msgs = <<m>>
      /\ backlog' = backlog
  BY <1>1, <1>2, ExchangeElements
<1> QED BY <1>1, <1>3

\* Steps of the accept thread that make no key, and send none.
LEMMA KeepsAgree ==
  ASSUME TypeOK, AgreeInv, UNCHANGED <<config, viewer, backlog, m_dh>>,
         \A w \in Viewers : Serves(w)' => Serves(w),
         \A w \in Viewers : \/ toViewer'[w] = toViewer[w]
                            \/ /\ Serves(w)
                               /\ \A m \in Elements(toViewer'[w]) :
                                     m \in Elements(toViewer[w]) \/ m.type # "KEY_EXCHANGE",
         accept'.at # "auth"
  PROVE  WaitsOnce' /\ KeysToViewer' /\ ViewerKeys'
<1>1. WaitsOnce /\ KeysToViewer /\ ViewerKeys
  BY DEF AgreeInv
<1>2. \A w \in Viewers : NotAccepted(w)' <=> NotAccepted(w)
  BY DEF NotAccepted
<1>3. WaitsOnce'
  BY <1>1, <1>2 DEF WaitsOnce
<1>4. KeysToViewer'
  BY <1>1 DEF KeysToViewer
<1>5. ViewerKeys'
  BY <1>1 DEF ViewerKeys
<1> QED BY <1>3, <1>4, <1>5

\* The next client comes from the listen queue and has heard nothing yet.
LEMMA AcceptAgree == ASSUME TypeOK, AgreeInv, Accept PROVE AgreeInv'
<1>0. /\ backlog \in Seq(Viewers) /\ backlog # <<>> /\ Head(backlog) \in Viewers
      /\ toViewer \in [Viewers -> Seq(MessagesToViewer)]
  BY TailType DEF TypeOK, TcpType, Accept
<1>c. PICK c \in Viewers : c = Head(backlog)
  BY <1>0
<1>1. /\ backlog \in Seq(Viewers) /\ backlog # <<>> /\ c = Head(backlog)
      /\ toViewer \in [Viewers -> Seq(MessagesToViewer)]
  BY <1>0, <1>c
<1>2. WaitsOnce /\ KeysToViewer /\ KeysToAgent /\ ViewerKeys
  BY DEF AgreeInv
<1>3. /\ accept' = [at |-> "auth", client |-> c, pub |-> NoViewer] /\ backlog' = Tail(backlog)
      /\ toViewer' = [toViewer EXCEPT ![c] = Append(@, [type |-> "AUTH_REQUEST"])]
      /\ UNCHANGED <<config, m_running, init, viewer, toAgent, m_secureChannel, m_dh>>
  BY <1>1 DEF Accept, AcceptFrame
<1>4. /\ Elements(backlog') \subseteq Elements(backlog) /\ c \in Elements(backlog)
      /\ c \notin Elements(backlog') /\ Once(backlog')
  BY <1>1, <1>2, <1>3, ElementsTail DEF WaitsOnce
<1>5. /\ toViewer[c] = <<>> /\ viewer[c].at \in {"auth", "failed", "closed"}
      /\ ~NotAccepted(c)'
  <2>1. NotAccepted(c) /\ viewer[c].at # "off"
    BY <1>1, <1>2, <1>4 DEF WaitsOnce, NotAccepted
  <2>2. toViewer[c] = <<>> /\ viewer[c].at \in {"off", "auth", "failed", "closed"}
    BY <1>1, <1>2, <2>1 DEF WaitsOnce
  <2> QED BY <1>3, <1>4, <2>1, <2>2 DEF NotAccepted
<1>6. /\ accept'.at = "auth" /\ accept'.client = c
      /\ \A w : Serves(w)' <=> w = c
  BY <1>3 DEF Serves, Client, ServingPoints
<1>7. /\ \A w \in Viewers : w # c => toViewer'[w] = toViewer[w]
      /\ Elements(toViewer'[c]) = {[type |-> "AUTH_REQUEST"]}
  <2>1. toViewer'[c] = Append(<<>>, [type |-> "AUTH_REQUEST"])
    BY <1>1, <1>3, <1>5
  <2>2. <<>> \in Seq(MessagesToViewer)
    OBVIOUS
  <2>3. \A e \in MessagesToViewer : Elements(Append(<<>>, e)) = Elements(<<>>) \cup {e}
    BY <2>2, ElementsAppend
  <2>4. Elements(Append(<<>>, [type |-> "AUTH_REQUEST"])) = {[type |-> "AUTH_REQUEST"]}
    BY <2>3, MessageTypes, ElementsEmpty
  <2> QED BY <1>1, <1>3, <2>1, <2>4
<1>8. \A w \in Viewers : NotAccepted(w)' => NotAccepted(w) /\ w # c
  BY <1>3, <1>4, <1>5 DEF NotAccepted
<1>9. WaitsOnce'
  BY <1>2, <1>3, <1>4, <1>6, <1>7, <1>8 DEF WaitsOnce, NotAccepted
<1>10. KeysToViewer'
  BY <1>2, <1>3, <1>6, <1>7 DEF KeysToViewer
<1>11. ViewerKeys' /\ KeysToAgent'
  BY <1>2, <1>3, <1>5, <1>6 DEF ViewerKeys, KeysToAgent
<1>12. /\ config.agentEncrypts' => ChannelAgrees'
       /\ m_running' => init' \in {"encoder", "run"}
  BY <1>3, <1>6 DEF AgreeInv, ChannelAgrees
<1> QED BY <1>9, <1>10, <1>11, <1>12 DEF AgreeInv

\* A new key pair is made for a client that has seen no key yet.
LEMMA VerifyAgree ==
  ASSUME TypeOK, AgreeInv, KeysToAgent', VerifyResponse
  PROVE  AgreeInv'
<1>1. /\ accept.at = "auth" /\ Client \in Viewers /\ m_dh \in Nat
      /\ accept = [at |-> accept.at, client |-> accept.client, pub |-> accept.pub]
  BY DEF VerifyResponse, TypeOK, AcceptType, AgentType, AgentHears, Client, ServingPoints
<1>2. WaitsOnce /\ KeysToViewer /\ KeysToAgent /\ ViewerKeys
  BY DEF AgreeInv
<1>3. UNCHANGED <<config, m_running, init, viewer>>
  BY DEF VerifyResponse, AcceptFrame
<1>4. m_running' => init' \in {"encoder", "run"}
  BY <1>3 DEF AgreeInv
<1>5. CASE config.agentEncrypts
  <2>1. /\ accept'.at = "key" /\ accept'.client = Client /\ m_dh' = m_dh + 1
        /\ Exchange(TRUE, <<[type |-> "KEY_EXCHANGE", pub |-> m_dh + 1]>>)
    BY <1>1, <1>5 DEF VerifyResponse, AgentGoes, Client
  <2>2. PICK k \in MessagesToViewer : k = [type |-> "KEY_EXCHANGE", pub |-> m_dh + 1]
    <3>1. m_dh + 1 \in Nat
      BY <1>1
    <3> QED BY <3>1, MessageTypes
  <2>3. k.type = "KEY_EXCHANGE" /\ k.pub = m_dh'
    BY <2>1, <2>2
  <2>4. /\ \A w \in Viewers : w # Client => toViewer'[w] = toViewer[w]
        /\ \A m \in Elements(toViewer'[Client]) : m \in Elements(toViewer[Client]) \/ m = k
        /\ backlog' = backlog
    BY <1>1, <2>1, <2>2, SendOne
  <2>5. \A w : /\ Serves(w) <=> w = Client
               /\ Serves(w)' <=> w = Client
    BY <1>1, <2>1 DEF Serves, Client, ServingPoints
  <2>6. \A w \in Viewers : NotAccepted(w)' <=> NotAccepted(w)
    BY <1>3, <2>4 DEF NotAccepted
  <2>7. WaitsOnce'
    BY <1>1, <1>2, <1>3, <2>4, <2>5, <2>6 DEF WaitsOnce
  <2>8. KeysToViewer'
    <3> SUFFICES ASSUME NEW w \in Viewers, NEW m \in Elements(toViewer'[w]), m.type = "KEY_EXCHANGE"
                 PROVE  config.agentEncrypts /\ (w = Client => m.pub = m_dh')
      BY <1>3, <2>1, <2>5 DEF KeysToViewer
    <3>1. CASE w = Client
      <4>1. m \notin Elements(toViewer[Client])
        BY <1>1, <1>2, <2>5, <3>1 DEF KeysToViewer
      <4> QED BY <1>5, <2>3, <2>4, <3>1, <4>1
    <3>2. CASE w # Client
      BY <1>5, <3>2
    <3> QED BY <3>1, <3>2
  <2>9. ViewerKeys'
    BY <1>1, <1>2, <1>3, <2>5 DEF ViewerKeys
  <2>10. ChannelAgrees'
    BY <2>1 DEF ChannelAgrees
  <2> QED BY <1>4, <2>7, <2>8, <2>9, <2>10 DEF AgreeInv
<1>6. CASE ~config.agentEncrypts
  <2>1. /\ accept'.at = "start" /\ accept'.client = Client /\ m_dh' = m_dh
        /\ Exchange(TRUE, <<>>)
    BY <1>1, <1>6 DEF VerifyResponse, AgentGoes, Client
  <2>2. (\A w \in Viewers : toViewer'[w] = toViewer[w]) /\ backlog' = backlog
    BY <1>1, <2>1, ExchangeElements
  <2>3. \A w : Serves(w)' => Serves(w)
    BY <1>1, <2>1 DEF Serves, Client, ServingPoints
  <2>4. WaitsOnce' /\ KeysToViewer' /\ ViewerKeys'
    BY <1>3, <2>1, <2>2, <2>3, KeepsAgree
  <2> QED BY <1>3, <1>4, <1>6, <2>4 DEF AgreeInv
<1> QED BY <1>5, <1>6

\* A step of the accept thread keeps AgreeInv: it comes past the key exchange
\* by the key of the viewer it serves only, and computes the same secret.
LEMMA AcceptStepAgree == ASSUME TypeOK, AgreeInv, AcceptStep PROVE AgreeInv'
<1>1. UNCHANGED <<config, m_running, init, viewer>>
  BY DEF AcceptStep, AcceptFrame, Accept, VerifyResponse, HandshakeError, AcceptKey,
         ReplaceChannel, InitializeChannel, SetEncrypted, SendStart, Accepted, TakeInput, LoopEnds,
         AcceptTop, PollTimeout
<1>2. /\ toAgent \in [Viewers -> Seq(MessagesToAgent)] /\ toViewer \in [Viewers -> Seq(MessagesToViewer)]
      /\ accept = [at |-> accept.at, client |-> accept.client, pub |-> accept.pub]
      /\ accept.at \in ServingPoints => Client \in Viewers
      /\ m_secureChannel \in [gen : Nat, key : Keys]
  BY DEF TypeOK, TcpType, AcceptType, AgentType, Client
<1>3. /\ WaitsOnce /\ KeysToViewer /\ KeysToAgent /\ ViewerKeys
      /\ config.agentEncrypts => ChannelAgrees
  BY DEF AgreeInv
<1>4. \/ toAgent' = toAgent
      \/ /\ Client \in Viewers /\ toAgent[Client] # <<>>
         /\ toAgent' = [toAgent EXCEPT ![Client] = Tail(@)]
  BY <1>2 DEF AcceptStep, Accept, VerifyResponse, HandshakeError, AcceptKey, ReplaceChannel,
              InitializeChannel, SetEncrypted, SendStart, Accepted, TakeInput, LoopEnds, AcceptTop,
              PollTimeout, Exchange, tcp, AgentHears, ServingPoints
<1>5. KeysToAgent'
  <2>1. \A w \in Viewers : Elements(toAgent'[w]) \subseteq Elements(toAgent[w])
    BY <1>2, <1>4, ElementsTail
  <2> QED BY <1>1, <1>3, <2>1 DEF KeysToAgent
<1>6. m_running' => init' \in {"encoder", "run"}
  BY <1>1 DEF AgreeInv
<1>7. ASSUME UNCHANGED <<backlog, m_dh>>, accept'.at # "auth",
             \A w \in Viewers : Serves(w)' => Serves(w),
             \A w \in Viewers : \/ toViewer'[w] = toViewer[w]
                                \/ /\ Serves(w)
                                   /\ \A m \in Elements(toViewer'[w]) :
                                         m \in Elements(toViewer[w]) \/ m.type # "KEY_EXCHANGE",
             config.agentEncrypts => ChannelAgrees'
      PROVE  AgreeInv'
  BY <1>1, <1>5, <1>6, <1>7, KeepsAgree DEF AgreeInv
<1>8. CASE HandshakeError
  <2>1. /\ accept'.at = "top" /\ Client \in Viewers /\ UNCHANGED <<backlog, m_dh>>
        /\ Serves(Client)
        /\ \/ toViewer' = toViewer
           \/ toViewer' = [toViewer EXCEPT ![Client] = Append(@, [type |-> "ERROR_MSG"])]
    BY <1>2, <1>8 DEF HandshakeError, crypto, Serves, ServingPoints
  <2>2. Elements(Append(toViewer[Client], [type |-> "ERROR_MSG"]))
          = Elements(toViewer[Client]) \cup {[type |-> "ERROR_MSG"]}
    BY <1>2, <2>1, MessageTypes, ElementsAppend
  <2>3. \A w : ~Serves(w)'
    BY <2>1 DEF Serves, ServingPoints
  <2>4. ChannelAgrees'
    BY <2>1 DEF ChannelAgrees
  <2>5. [type |-> "ERROR_MSG"].type # "KEY_EXCHANGE"
    OBVIOUS
  <2>6. \A w \in Viewers : \/ toViewer'[w] = toViewer[w]
                           \/ /\ Serves(w)
                              /\ \A m \in Elements(toViewer'[w]) :
                                    m \in Elements(toViewer[w]) \/ m.type # "KEY_EXCHANGE"
    BY <1>2, <2>1, <2>2, <2>5
  <2> QED BY <1>7, <2>1, <2>3, <2>4, <2>6
<1>9. CASE AcceptKey
  <2>1. /\ accept.at = "key" /\ accept'.at = "replace" /\ accept'.client = Client
        /\ accept'.pub = Head(toAgent[Client]).pub /\ Client \in Viewers
        /\ toAgent[Client] # <<>> /\ Head(toAgent[Client]).type = "KEY_EXCHANGE"
        /\ m_udpDestAddr' = <<Client, "udp">> /\ m_dh' = m_dh /\ Exchange(TRUE, <<>>)
    <3>1. /\ accept.at = "key" /\ Client \in Viewers /\ toAgent[Client] # <<>>
          /\ Head(toAgent[Client]).type = "KEY_EXCHANGE"
          /\ m_udpDestAddr' = <<Client, "udp">> /\ m_dh' = m_dh /\ Exchange(TRUE, <<>>)
          /\ accept' = [accept EXCEPT !.at = "replace", !.pub = Head(toAgent[Client]).pub]
      BY <1>2, <1>9 DEF AcceptKey, AgentHears, ServingPoints
    <3>2. accept' = [at |-> "replace", client |-> accept.client, pub |-> Head(toAgent[Client]).pub]
      BY <1>2, <3>1
    <3> QED BY <3>1, <3>2 DEF Client
  <2>2. (\A w \in Viewers : toViewer'[w] = toViewer[w]) /\ backlog' = backlog
    BY <2>1, ExchangeElements
  <2>3. config.encrypts[Client] /\ accept'.pub = Client
    <3>1. Head(toAgent[Client]) \in Elements(toAgent[Client])
      BY <1>2, <2>1, ElementsTail
    <3> QED BY <1>3, <2>1, <3>1 DEF KeysToAgent
  <2>4. ChannelAgrees' /\ \A w : Serves(w)' => Serves(w)
    BY <1>1, <2>1, <2>3 DEF ChannelAgrees, Serves, Client, ServingPoints
  <2> QED BY <1>7, <2>1, <2>2, <2>4
<1>10. CASE ReplaceChannel \/ InitializeChannel \/ SetEncrypted
  <2>1. /\ UNCHANGED <<backlog, toViewer, m_dh, m_udpDestAddr>>
        /\ accept'.client = Client /\ accept'.pub = accept.pub
        /\ accept.at \in ServingPoints /\ accept'.at # "auth"
        /\ \/ /\ accept.at = "replace" /\ accept'.at = "initialize"
           \/ /\ accept.at = "initialize" /\ accept'.at = "encrypt"
              /\ m_secureChannel'.key = Shared(m_dh, accept.pub)
           \/ /\ accept.at = "encrypt" /\ accept'.at = "start"
              /\ m_secureChannel' = m_secureChannel
    BY <1>2, <1>10 DEF ReplaceChannel, InitializeChannel, SetEncrypted, AgentGoes, tcp, Client,
                       ServingPoints
  <2>2. config.agentEncrypts => ChannelAgrees'
    BY <1>1, <1>3, <2>1 DEF ChannelAgrees, Client
  <2>3. \A w : Serves(w)' => Serves(w)
    BY <2>1 DEF Serves, Client
  <2> QED BY <1>7, <2>1, <2>2, <2>3
<1>11. CASE SendStart \/ Accepted \/ TakeInput
  <2>1. /\ UNCHANGED <<m_dh, m_udpDestAddr, m_secureChannel>>
        /\ accept'.client = Client /\ accept'.pub = accept.pub /\ Client \in Viewers
        /\ accept.at \in {"start", "accepted", "loop"} /\ accept'.at \in {"accepted", "loop"}
    BY <1>2, <1>11 DEF SendStart, Accepted, TakeInput, AgentGoes, crypto, Client, ServingPoints
  <2>2. Serves(Client) /\ \A w : Serves(w)' => Serves(w)
    BY <2>1 DEF Serves, Client, ServingPoints
  <2>3. config.agentEncrypts => ChannelAgrees'
    BY <1>1, <1>3, <2>1 DEF ChannelAgrees, Client
  <2>4. /\ backlog' = backlog
        /\ \A w \in Viewers : \/ toViewer'[w] = toViewer[w]
                              \/ /\ Serves(w)
                                 /\ \A m \in Elements(toViewer'[w]) :
                                       m \in Elements(toViewer[w]) \/ m.type # "KEY_EXCHANGE"
    <3>1. CASE Accepted
      BY <3>1 DEF Accepted, tcp
    <3>2. CASE TakeInput
      BY <2>1, <3>2, ExchangeElements DEF TakeInput
    <3>3. CASE SendStart
      <4>1. PICK k \in MessagesToViewer : /\ k = [type |-> "SESSION_START", codec |-> m_codecType]
                                          /\ k.type # "KEY_EXCHANGE"
        BY MessageTypes DEF TypeOK, AgentType
      <4>2. Exchange(FALSE, <<k>>)
        BY <3>3, <4>1 DEF SendStart
      <4>3. /\ \A w \in Viewers : w # Client => toViewer'[w] = toViewer[w]
            /\ \A m \in Elements(toViewer'[Client]) : m \in Elements(toViewer[Client]) \/ m = k
            /\ backlog' = backlog
        BY <2>1, <4>2, SendOne
      <4> QED BY <2>2, <4>1, <4>3
    <3> QED BY <1>11, <3>1, <3>2, <3>3
  <2> QED BY <1>7, <2>1, <2>2, <2>3, <2>4
<1>12. CASE LoopEnds \/ AcceptTop \/ PollTimeout
  <2>1. /\ m_dh' = m_dh /\ accept'.at \in {"top", "poll", "ended"}
        /\ \/ UNCHANGED tcp
           \/ accept.at = "loop" /\ Exchange(TRUE, <<>>)
    BY <1>2, <1>12 DEF LoopEnds, AcceptTop, PollTimeout, AgentGoes, crypto
  <2>2. (\A w \in Viewers : toViewer'[w] = toViewer[w]) /\ backlog' = backlog
    BY <1>2, <2>1, ExchangeElements DEF tcp, ServingPoints
  <2>3. ChannelAgrees' /\ \A w : ~Serves(w)'
    BY <2>1 DEF ChannelAgrees, Serves, ServingPoints
  <2> QED BY <1>7, <2>1, <2>2, <2>3
<1> QED BY <1>5, <1>8, <1>9, <1>10, <1>11, <1>12, AcceptAgree, VerifyAgree DEF AcceptStep

\* Every step keeps AgreeInv.
LEMMA NextAgree == TypeOK /\ AgreeInv /\ [Next]_vars => AgreeInv'
<1> SUFFICES ASSUME TypeOK, AgreeInv, [Next]_vars PROVE AgreeInv'
  OBVIOUS
<1> USE DEF WaitsOnce, NotAccepted, Serves, KeysToViewer, KeysToAgent, ViewerKeys, ChannelAgrees,
            Client
<1>1. CASE UNCHANGED vars
  BY <1>1 DEF vars, flags, crypto, tcp, AgreeInv
<1>2. CASE EncoderReady \/ EncoderFails
  BY <1>2 DEF EncoderReady, EncoderFails, InitFrame, tcp, AgreeInv
<1>3. CASE Shutdown
  <2>1. /\ backlog' = <<>> /\ ~m_running
        /\ UNCHANGED <<config, m_running, m_udpDestAddr, m_secureChannel, m_dh, accept, viewer,
                       toViewer, toAgent>>
    BY <1>3 DEF Shutdown, InitFrame, AgreeInv
  <2>2. Elements(backlog') = {} /\ Once(backlog')
    BY <2>1, ElementsEmpty
  <2>3. WaitsOnce'
    BY <2>1, <2>2 DEF AgreeInv
  <2>4. KeysToViewer' /\ KeysToAgent' /\ ViewerKeys'
    BY <2>1 DEF AgreeInv
  <2>5. config.agentEncrypts' => ChannelAgrees'
    BY <2>1 DEF AgreeInv
  <2> QED BY <2>1, <2>3, <2>4, <2>5 DEF AgreeInv
<1>4. CASE Capture \/ TakeFrame \/ Encrypt \/ SendTo \/ Inject
  BY <1>4 DEF Capture, TakeFrame, Encrypt, SendTo, Inject, RunFrame, flags, crypto, tcp, AgreeInv
<1> QED BY <1>1, <1>2, <1>3, <1>4, ViewerStepAgree, AcceptStepAgree DEF Next, InitStep

\* THE ENDS AGREE (PerformHandshake of both ends): when a viewer and the agent
\* both take the session for established, both encrypt or neither does, with
\* one key, and the frames go to the viewer's UDP port.
THEOREM EndsAlwaysAgree == Spec => []EndsAgree
<1>1. Init => TypeOK /\ SecretInv /\ AgreeInv
  <2> SUFFICES ASSUME Init PROVE SecretInv /\ AgreeInv
    BY InitType
  <2>1. SecretInv
    BY DEF Init, SecretInv, NothingInTheClear, ChannelComes, ChannelStays
  <2>2. /\ \A v \in Viewers : /\ Elements(toViewer[v]) = {} /\ Elements(toAgent[v]) = {}
                              /\ viewer[v].at = "off" /\ toViewer[v] = <<>>
        /\ Elements(backlog) = {} /\ Once(backlog)
        /\ accept.at = "top" /\ init = "encoder"
    BY ElementsEmpty DEF Init
  <2>3. WaitsOnce
    BY <2>2 DEF WaitsOnce, NotAccepted, Serves, ServingPoints
  <2> QED BY <2>1, <2>2, <2>3 DEF AgreeInv, KeysToViewer, KeysToAgent, ViewerKeys, ChannelAgrees
<1>2. (TypeOK /\ SecretInv /\ AgreeInv) /\ [Next]_vars => (TypeOK /\ SecretInv /\ AgreeInv)'
  BY NextType, NextSecret, NextAgree
<1>3. TypeOK /\ SecretInv /\ AgreeInv => EndsAgree
  <2> SUFFICES ASSUME TypeOK, SecretInv, AgreeInv, m_running, m_clientConnected,
                      viewer[Client].at = "connected"
               PROVE  /\ config.agentEncrypts = config.encrypts[Client]
                      /\ config.agentEncrypts => /\ m_encrypted
                                                 /\ m_secureChannel.key = viewer[Client].key
                                                 /\ m_udpDestAddr = <<Client, "udp">>
    BY DEF EndsAgree
  <2>1. /\ accept.at = "loop" /\ Client \in Viewers /\ Serves(Client)
        /\ init \in {"encoder", "run"}
        /\ config.agentEncrypts \in BOOLEAN /\ config.encrypts[Client] \in BOOLEAN
    BY DEF TypeOK, AcceptType, ConfigType, Client, Serves, ServingPoints, AgreeInv
  <2>2. config.encrypts[Client] => /\ config.agentEncrypts
                                   /\ viewer[Client].key = Shared(m_dh, Client)
    BY <2>1 DEF AgreeInv, ViewerKeys
  <2>3. config.agentEncrypts => /\ config.encrypts[Client] /\ m_encrypted
                                /\ m_secureChannel.key = Shared(m_dh, Client)
                                /\ m_udpDestAddr = <<Client, "udp">>
    BY <2>1 DEF AgreeInv, ChannelAgrees, SecretInv, ChannelStays
  <2> QED BY <2>1, <2>2, <2>3
<1> QED BY <1>1, <1>2, <1>3, PTL DEF Spec
=============================================================================
