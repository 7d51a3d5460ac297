------------------------------ MODULE InputPath ------------------------------
(***************************************************************************)
(* Keys and mouse buttons on their way from the viewer's user to the       *)
(* agent's desktop: the window procedure (ViewerWindow.cpp), OnKeyEvent    *)
(* and OnMouseEvent with m_inputSendQueue and InputSendThread              *)
(* (ViewerSession.cpp), the control connection, AcceptThread with          *)
(* m_inputQueue and InputInjectThread (AgentSession.cpp), and SendInput    *)
(* (InputInjectorImpl.cpp).                                                *)
(*                                                                         *)
(* What the user does is numbered.  Both queues drop what finds them full. *)
(* The wheel and the pointer, which leave nothing held, are not modelled.  *)
(***************************************************************************)
EXTENDS Naturals, Sequences

CONSTANTS Keys,          \* keys that are forwarded (Scroll Lock is not)
          Buttons,       \* mouse buttons
          SendCapacity,  \* capacity of m_inputSendQueue (64)
          InputCapacity, \* capacity of m_inputQueue (32)
          WireCapacity,  \* bound: messages the connection holds
          MaxEvents      \* bound: things the user does

ASSUME InputAssumption ==
    /\ {SendCapacity, InputCapacity, WireCapacity} \subseteq Nat \ {0}
    /\ MaxEvents \in Nat /\ Keys \cap Buttons = {}

VARIABLES focus,             \* the viewer's window has the focus
          m_inputActive,
          userHeld,          \* the keys and buttons the user holds down
          events,            \* how many things the user has done
          m_running,         \* of the viewer
          m_inputSendQueue,
          sending,           \* what InputSendThread has popped: at most one event
          sender,            \* InputSendThread: "run" or "exit"
          wire,              \* messages sent and not received
          link,              \* the connection is up
          m_inputQueue,
          agentHeld,         \* the keys and buttons down on the agent's desktop
          lastInjected,      \* number of the last event injected (history)
          missed             \* keys whose last change was not passed on (history)

windowVars == <<focus, m_inputActive>>
sendVars   == <<sending, sender>>
agentVars  == <<m_inputQueue, agentHeld, lastInjected>>
inputVars == <<windowVars, userHeld, events, m_running, m_inputSendQueue, sendVars, wire, link,
          agentVars, missed>>

All == Keys \cup Buttons

InputInit ==
    /\ focus = TRUE /\ m_inputActive = FALSE /\ userHeld = {} /\ events = 0
    /\ m_running = TRUE /\ m_inputSendQueue = <<>> /\ sending = <<>> /\ sender = "run"
    /\ wire = <<>> /\ link = TRUE
    /\ m_inputQueue = <<>> /\ agentHeld = {} /\ lastInjected = 0 /\ missed = {}

Event(k, down) == [number |-> events + 1, key |-> k, down |-> down]

PushEvictsOldest(q, e, capacity) ==  \* mutant of tryPush: room is made for the newest
    Append(IF Len(q) < capacity THEN q ELSE Tail(q), e)

\* ThreadSafeQueue::tryPush.
tryPush(q, e, capacity) == IF Len(q) < capacity THEN Append(q, e) ELSE q

\* What InputSendThread will still send: after its loop nothing, and what is in
\* the queue stays there.
ToSend == IF sender = "run" THEN m_inputSendQueue ELSE <<>>

----------------------------------------------------------------------------
(* The window's thread *)

Happens == events < MaxEvents /\ events' = events + 1

\* WndProc hands a message to OnKeyEvent or OnMouseEvent while input is active,
\* and they queue the event if there is room; messages come with the focus only,
\* and not after the message loop, which ends before Stop.
Forward(k, down) ==
    IF m_running /\ focus /\ m_inputActive
    THEN /\ m_inputSendQueue' = tryPush(m_inputSendQueue, Event(k, down), SendCapacity)
         /\ missed' = IF Len(m_inputSendQueue) < SendCapacity THEN missed \ {k}
                      ELSE missed \cup {k}
    ELSE missed' = missed \cup {k} /\ UNCHANGED m_inputSendQueue

Press(k) ==
    /\ k \notin userHeld /\ Happens
    /\ userHeld' = userHeld \cup {k} /\ Forward(k, TRUE)
    /\ UNCHANGED <<windowVars, m_running, sendVars, wire, link, agentVars>>

\* A key that is held repeats; that it was pressed the agent may know already.
Repeat(k) ==
    /\ m_running /\ k \in userHeld \cap Keys /\ focus /\ m_inputActive /\ Happens
    /\ IF Len(m_inputSendQueue) < SendCapacity THEN Forward(k, TRUE)
       ELSE UNCHANGED <<m_inputSendQueue, missed>>
    /\ UNCHANGED <<windowVars, userHeld, m_running, sendVars, wire, link, agentVars>>

ReleaseKey(k) ==
    /\ k \in userHeld /\ Happens
    /\ userHeld' = userHeld \ {k} /\ Forward(k, FALSE)
    /\ UNCHANGED <<windowVars, m_running, sendVars, wire, link, agentVars>>

\* Scroll Lock, but not its repetitions, toggles the input; nothing is released.
ScrollLock ==
    /\ m_running /\ focus /\ Happens
    /\ m_inputActive' = ~m_inputActive
    /\ UNCHANGED <<focus, userHeld, m_running, m_inputSendQueue, sendVars, wire, link,
                   agentVars, missed>>

\* WM_KILLFOCUS ends it.
KillFocus ==
    /\ m_running /\ focus /\ Happens
    /\ focus' = FALSE /\ m_inputActive' = FALSE
    /\ UNCHANGED <<userHeld, m_running, m_inputSendQueue, sendVars, wire, link, agentVars, missed>>

SetFocus ==
    /\ m_running /\ ~focus /\ Happens
    /\ focus' = TRUE
    /\ UNCHANGED <<m_inputActive, userHeld, m_running, m_inputSendQueue, sendVars, wire, link,
                   agentVars, missed>>

\* The message loop ends, and ViewerSession::Stop closes the queue with what is in it.
Quit ==
    /\ m_running /\ m_running' = FALSE
    /\ UNCHANGED <<windowVars, userHeld, events, m_inputSendQueue, sendVars, wire, link,
                   agentVars, missed>>

----------------------------------------------------------------------------
(* InputSendThread *)

\* An event of k is lost on its way: its key is out of step unless a later event
\* of it follows.
Lost(e, behind) ==
    missed' = IF \E i \in DOMAIN behind : behind[i].key = e.key THEN missed
              ELSE missed \cup {e.key}

PopPairs ==                 \* mutant of PopEvent: an event waits for the next one
    /\ sender = "run" /\ sending = <<>> /\ m_running
    /\ Len(m_inputSendQueue) > 1
    /\ sending' = <<Head(m_inputSendQueue)>> /\ m_inputSendQueue' = Tail(m_inputSendQueue)
    /\ UNCHANGED <<windowVars, userHeld, events, m_running, sender, wire, link, agentVars, missed>>

PopEvent ==
    /\ sender = "run" /\ sending = <<>> /\ m_running
    /\ m_inputSendQueue # <<>>
    /\ sending' = <<Head(m_inputSendQueue)>> /\ m_inputSendQueue' = Tail(m_inputSendQueue)
    /\ UNCHANGED <<windowVars, userHeld, events, m_running, sender, wire, link, agentVars, missed>>

\* SendControlMessage, which waits while the connection is full.
SendEvent ==
    /\ sending # <<>> /\ link /\ Len(wire) < WireCapacity
    /\ wire' = wire \o sending /\ sending' = <<>>
    /\ UNCHANGED <<windowVars, userHeld, events, m_running, m_inputSendQueue, sender, link,
                   agentVars, missed>>

SendAgain ==                \* mutant of SendFails: what was not sent is queued again
    /\ sending # <<>> /\ ~(link /\ m_running)
    /\ sending' = <<>>
    /\ m_inputSendQueue' = tryPush(m_inputSendQueue, Head(sending), SendCapacity)
    /\ UNCHANGED <<windowVars, userHeld, events, m_running, sender, wire, link, agentVars, missed>>

\* On a connection that is broken, or closed by Stop, the event is lost.
SendFails ==
    /\ sending # <<>> /\ ~(link /\ m_running)
    /\ sending' = <<>> /\ Lost(Head(sending), ToSend)
    /\ UNCHANGED <<windowVars, userHeld, events, m_running, m_inputSendQueue, sender, wire, link,
                   agentVars>>

\* The loop ends with m_running; what the queue still holds is never sent.
SenderExits ==
    /\ sender = "run" /\ sending = <<>> /\ ~m_running
    /\ sender' = "exit"
    /\ missed' = missed \cup {m_inputSendQueue[i].key : i \in DOMAIN m_inputSendQueue}
    /\ UNCHANGED <<windowVars, userHeld, events, m_running, m_inputSendQueue, sending, wire, link,
                   agentVars>>

InputSendThread == PopEvent \/ SendEvent \/ SendFails \/ SenderExits

\* The connection breaks, with what is on it.
Break ==
    /\ link /\ link' = FALSE /\ wire' = <<>>
    /\ missed' = missed \cup {wire[i].key : i \in DOMAIN wire}
    /\ UNCHANGED <<windowVars, userHeld, events, m_running, m_inputSendQueue, sendVars, agentVars>>

----------------------------------------------------------------------------
(* AcceptThread and InputInjectThread *)

\* AcceptThread receives a message and queues its event if there is room.
Receive ==
    /\ wire # <<>> /\ wire' = Tail(wire)
    /\ m_inputQueue' = tryPush(m_inputQueue, Head(wire), InputCapacity)
    /\ IF Len(m_inputQueue) < InputCapacity THEN UNCHANGED missed
       ELSE Lost(Head(wire), Tail(wire) \o sending \o ToSend)
    /\ UNCHANGED <<windowVars, userHeld, events, m_running, m_inputSendQueue, sendVars, link,
                   agentHeld, lastInjected>>

\* SendInput presses or releases the key or button.
Inject ==
    /\ m_inputQueue # <<>> /\ m_inputQueue' = Tail(m_inputQueue)
    /\ LET e == Head(m_inputQueue) IN
          /\ agentHeld' = IF e.down THEN agentHeld \cup {e.key} ELSE agentHeld \ {e.key}
          /\ lastInjected' = e.number
    /\ UNCHANGED <<windowVars, userHeld, events, m_running, m_inputSendQueue, sendVars, wire, link,
                   missed>>

\* SendInput is refused, as by a window of a higher privilege: the event is lost.
InjectFails ==
    /\ m_inputQueue # <<>> /\ m_inputQueue' = Tail(m_inputQueue)
    /\ Lost(Head(m_inputQueue), Tail(m_inputQueue) \o wire \o sending \o ToSend)
    /\ UNCHANGED <<windowVars, userHeld, events, m_running, m_inputSendQueue, sendVars, wire, link,
                   agentHeld, lastInjected>>

InputInjectThread == Inject \/ InjectFails

----------------------------------------------------------------------------

User ==
    \/ \E k \in All : Press(k) \/ Repeat(k) \/ ReleaseKey(k)
    \/ ScrollLock \/ KillFocus \/ SetFocus \/ Quit

InputNext == User \/ InputSendThread \/ Break \/ Receive \/ InputInjectThread

\* The threads run; the user and the network are free.
InputFairness == WF_inputVars(InputSendThread) /\ WF_inputVars(Receive) /\ WF_inputVars(InputInjectThread)

InputSpec == InputInit /\ [][InputNext]_inputVars
FairInputSpec == InputSpec /\ InputFairness

----------------------------------------------------------------------------
(* Properties *)

\* What is on its way, oldest first.
InFlight == m_inputQueue \o wire \o sending \o ToSend

Events == [number : 1 .. MaxEvents, key : All, down : BOOLEAN]

InputTypeOK ==
    /\ {focus, m_inputActive, m_running, link} \subseteq BOOLEAN
    /\ userHeld \subseteq All /\ agentHeld \subseteq All /\ missed \subseteq All
    /\ {events, lastInjected} \subseteq 0 .. MaxEvents
    /\ InFlight \in Seq(Events) /\ m_inputSendQueue \in Seq(Events)
    /\ Len(m_inputSendQueue) <= SendCapacity /\ Len(sending) <= 1
    /\ Len(wire) <= WireCapacity /\ Len(m_inputQueue) <= InputCapacity
    /\ sender \in {"run", "exit"}

\* How k will be at the agent when all that is on its way has been injected.
WillBeHeld(k) ==
    LET mine == {i \in DOMAIN InFlight : InFlight[i].key = k}
    IN IF mine = {} THEN k \in agentHeld
       ELSE \E i \in mine : InFlight[i].down /\ \A j \in mine : j <= i

\* A key or button of which no change was missed is, or will be, at the agent
\* as it is at the user, whatever was dropped before: two queues that drop, a
\* connection that breaks, failed injections, and a viewer that quits with events
\* unsent or keys held leave no other key stuck.
InStep == \A k \in All \ missed : WillBeHeld(k) <=> k \in userHeld

\* Events are injected in the order the user made them, each at most once, and
\* no failed send or full queue changes that.
InOrder ==
    \A i \in DOMAIN InFlight :
        /\ InFlight[i].number > lastInjected
        /\ \A j \in 1 .. i - 1 : InFlight[j].number < InFlight[i].number

\* A key that the user has let go comes up at the agent if its release is not
\* missed, also when the viewer quits.
KeysComeUp ==
    \A k \in All :
        k \notin userHeld \cup missed
            ~> k \notin agentHeld \/ k \in userHeld \cup missed
=============================================================================
