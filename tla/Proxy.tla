------------------------------- MODULE Proxy -------------------------------
(***************************************************************************)
(* The goroutines of proxy/ and how they meet, for one client endpoint:    *)
(*   - the listener (Proxy.ListenAndServe), which looks a datagram's       *)
(*     endpoint up in the SessionRegistry and then pushes it onto that     *)
(*     session's processQueue or onto the unknown-session queue;           *)
(*   - the unknown-session worker (unknownSession.Process), which answers  *)
(*     the offline handshake and creates and registers sessions;           *)
(*   - one goroutine per Session (handleSession), a select over its        *)
(*     processQueue, its ticker and its poison channel;                    *)
(*   - one listener goroutine per SessionConnector (connectionListener),   *)
(*     whose backend either starts the game, kicks the player, or sends    *)
(*     game packets that are relayed to the client;                        *)
(*   - a RakNet client that follows the handshake and may disconnect.      *)
(* Channels keep Go's semantics: a send on a closed channel panics and     *)
(* ends the process (crashed), a send on a full channel blocks.  The       *)
(* connector's own handshake with the backend is SessionConnector.tla.     *)
(***************************************************************************)
EXTENDS Naturals, Sequences, FiniteSets

CONSTANTS
    MaxSessions,    \* Session objects created in a behaviour
    MaxConnectors,  \* SessionConnector objects created in a behaviour
    QueueCap,       \* capacity of a processQueue (make(chan []byte, 300))
    ClientBudget,   \* datagrams the client sends in a behaviour
    RelayBudget,    \* game packets each backend sends once playing
    Reconnect,      \* may the client open a new connection after leaving?
    Retransmit,     \* may the client resend a request nobody ACKed?
    SendErrors,     \* may a dial or a send of the proxy return an error?
    None

Sessions == 1..MaxSessions
Connectors == 1..MaxConnectors

VARIABLES
    c2p,            \* datagrams from the client to the proxy's socket
    p2c,            \* datagrams from the proxy to the client
    cstage,         \* where the client is in the RakNet/MCPE handshake
    csent,          \* datagrams the client has sent
    lpc,            \* listener: "read" or "push" (holding lpkt for ltarget)
    lpkt,
    ltarget,
    uq,             \* unknownSession.processQueue
    registry,       \* SessionRegistry.byEndpoint[endpoint]
    spc,            \* session goroutine: "none", "select", "abandonSend", "exited"
    state,          \* Session.state
    processQueue,
    pqClosed,
    poison,         \* items buffered in Session.poison (capacity 1)
    poisonClosed,
    abandoned,      \* Session.abandoned
    abandonBegun,   \* history: Abandon got past its abandoned check
    sendFailed,     \* history: an AbandonWithReason's disconnect failed to send
    cowner,         \* SessionConnector.session
    cstate,         \* SessionConnector.state
    clpc,           \* connector listener goroutine: "none", "run", "abandonSend"
    cabandoned,     \* SessionConnector.abandoned
    backend,        \* the backend's side: "handshake", "playing", "closed",
                    \* or "stalled": the handshake will get no answer
    relays,         \* game packets each backend has sent
    crashed         \* a goroutine panicked: the process is gone

vars == <<c2p, p2c, cstage, csent, lpc, lpkt, ltarget, uq, registry, spc,
          state, processQueue, pqClosed, poison, poisonClosed, abandoned,
          abandonBegun, sendFailed, cowner, cstate, clpc, cabandoned, backend, relays,
          crashed>>

clientVars == <<c2p, cstage, csent>>
listenerVars == <<lpc, lpkt, ltarget>>
sessionVars == <<spc, state, processQueue, pqClosed, poison, poisonClosed,
                 abandoned, abandonBegun, sendFailed>>
connectorVars == <<cowner, cstate, clpc, cabandoned, backend, relays>>
proxyVars == <<listenerVars, uq, registry, sessionVars, connectorVars, crashed>>

\* What the client sends (first byte of the UDP payload, datagrams by content).
ClientPackets == {"OCR1", "OCR2", "ConnReq", "Login", "Ping", "Game", "Disconnect"}
\* What the proxy sends the client.
ProxyPackets == {"Reply1", "Reply2", "Accepted", "StartGame", "Pong", "Relay", "Kick"}

\* NewSession leaves serverConnection nil and no code ever assigns it.
serverConnection == [s \in Sessions |-> None]

(* NewSession: STATE_IDENTIFY, an empty processQueue and poison channel,  *)
(* not abandoned.  Sessions exist from the start in this state and the     *)
(* worker starts their goroutine (spc) when it registers one.              *)
NewSessions ==
    /\ state = [s \in Sessions |-> "Identify"]
    /\ processQueue = [s \in Sessions |-> <<>>]
    /\ pqClosed = [s \in Sessions |-> FALSE]
    /\ poison = [s \in Sessions |-> 0]
    /\ poisonClosed = [s \in Sessions |-> FALSE]
    /\ abandoned = [s \in Sessions |-> FALSE]
    /\ abandonBegun = [s \in Sessions |-> FALSE]
    /\ sendFailed = FALSE

\* NewSessionConnector: C_STATE_UNCONNECTED, owned by no session yet.
NewSessionConnectors ==
    /\ cowner = [c \in Connectors |-> None]
    /\ cstate = [c \in Connectors |-> "Unconnected"]
    /\ clpc = [c \in Connectors |-> "none"]
    /\ cabandoned = [c \in Connectors |-> FALSE]

Init ==
    /\ c2p = <<>>
    /\ p2c = <<>>
    /\ cstage = "Offline"
    /\ csent = 0
    /\ lpc = "read" /\ lpkt = None /\ ltarget = None
    /\ uq = <<>>
    /\ registry = None
    /\ spc = [s \in Sessions |-> "none"]
    /\ NewSessions
    /\ NewSessionConnectors
    /\ backend = [c \in Connectors |-> "handshake"]
    /\ relays = [c \in Connectors |-> 0]
    /\ crashed = FALSE

-----------------------------------------------------------------------------
(* Helpers shared by the goroutines.                                       *)

Reply(pkt) == p2c' = Append(p2c, pkt)

\* What the session's handshake cases may change.
handshakeVars == <<registry, spc, abandonBegun, cowner, cstate, clpc,
                   sendFailed, backend>>

\* SessionRegistry.Unregister deletes the endpoint's entry, whoever holds it.
Unregister == registry' = None

(* The first half of Session.Abandon, run by goroutine g's caller: an      *)
(* already abandoned session returns false; otherwise it unregisters and   *)
(* goes on to send on the poison channel (AbandonSend).                    *)
AbandonBegins(s) ==
    /\ ~abandoned[s]
    /\ Unregister
    /\ abandonBegun' = [abandonBegun EXCEPT ![s] = TRUE]

(* The poison send of Session.Abandon: panics on a closed channel, blocks  *)
(* while the one buffered slot is full.  serverConnection is nil, so the   *)
(* cascading SessionConnector.Close never runs.                            *)
PoisonSend(s) ==
    /\ poisonClosed[s] \/ poison[s] = 0
    /\ IF poisonClosed[s]
       THEN /\ crashed' = TRUE /\ UNCHANGED poison
       ELSE /\ poison' = [poison EXCEPT ![s] = 1] /\ UNCHANGED crashed
    /\ IF serverConnection[s] # None
       THEN cabandoned' = [cabandoned EXCEPT ![serverConnection[s]] = TRUE]
       ELSE UNCHANGED cabandoned

-----------------------------------------------------------------------------
(* The client: a RakNet client through the offline handshake, the         *)
(* connection request and the MCPE login, then playing.                    *)

ClientSend(pkt) ==
    /\ csent < ClientBudget
    /\ c2p' = Append(c2p, pkt)
    /\ csent' = csent + 1

ClientOpen ==
    /\ cstage = "Offline"
    /\ ClientSend("OCR1")
    /\ cstage' = "Opening1"
    /\ UNCHANGED <<p2c, proxyVars>>

\* The client reads what the proxy sent and answers the step it waits on.
ClientReceive ==
    /\ p2c # <<>>
    /\ p2c' = Tail(p2c)
    /\ LET pkt == Head(p2c) IN
       CASE pkt = "Reply1" /\ cstage = "Opening1" ->
                ClientSend("OCR2") /\ cstage' = "Opening2"
         [] pkt = "Reply2" /\ cstage = "Opening2" ->
                ClientSend("ConnReq") /\ cstage' = "Requesting"
         [] pkt = "Accepted" /\ cstage = "Requesting" ->
                ClientSend("Login") /\ cstage' = "LoggingIn"
         [] pkt = "StartGame" /\ cstage = "LoggingIn" ->
                cstage' = "Playing" /\ UNCHANGED <<c2p, csent>>
         [] pkt = "Kick" /\ cstage \notin {"Offline", "Left"} ->
                /\ cstage' = IF Reconnect THEN "Offline" ELSE "Left"
                /\ UNCHANGED <<c2p, csent>>
         [] OTHER -> UNCHANGED clientVars
    /\ UNCHANGED proxyVars

\* Once connected the client pings, plays, or says goodbye.
ClientChat ==
    /\ cstage \in {"Requesting", "LoggingIn", "Playing"}
    /\ \/ ClientSend("Ping") /\ UNCHANGED cstage
       \/ cstage = "Playing" /\ ClientSend("Game") /\ UNCHANGED cstage
       \/ /\ ClientSend("Disconnect")
          /\ cstage' = IF Reconnect THEN "Offline" ELSE "Left"
    /\ UNCHANGED <<p2c, proxyVars>>

\* Nothing ACKs the client's reliable datagrams, so it sends them again.
ClientRetransmit ==
    /\ Retransmit
    /\ cstage \in {"Opening2", "Requesting", "LoggingIn"}
    /\ ClientSend(CASE cstage = "Opening2" -> "OCR2"
                    [] cstage = "Requesting" -> "ConnReq"
                    [] cstage = "LoggingIn" -> "Login")
    /\ UNCHANGED <<p2c, cstage, proxyVars>>

(* SessionRegistry.Register: refused while the endpoint is taken.          *)
CanRegister == registry = None

Register(s) == registry' = s

\* SessionRegistry.GetByEndpoint, under the read lock.
GetByEndpoint == registry

-----------------------------------------------------------------------------
(* Proxy.ListenAndServe: read a datagram, look its endpoint up, then push. *)

ListenerRead ==
    /\ lpc = "read"
    /\ c2p # <<>>
    /\ c2p' = Tail(c2p)
    /\ lpkt' = Head(c2p)
    /\ ltarget' = GetByEndpoint
    /\ lpc' = "push"
    /\ UNCHANGED <<p2c, cstage, csent, uq, registry, sessionVars,
                   connectorVars, crashed>>

\* Mutant: the push never waits for room.
QueueFullNever(s) == FALSE

\* A full processQueue makes the listener's send block.
QueueFull(s) == Len(processQueue[s]) >= QueueCap

(* The push onto the session found at lookup time: the session may have   *)
(* closed its processQueue since (a panic) or filled it (the push blocks). *)
ListenerPush ==
    /\ lpc = "push"
    /\ IF ltarget = None
       THEN /\ uq' = Append(uq, lpkt)
            /\ UNCHANGED <<processQueue, crashed>>
       ELSE /\ pqClosed[ltarget] \/ ~QueueFull(ltarget)
            /\ IF pqClosed[ltarget]
               THEN crashed' = TRUE /\ UNCHANGED processQueue
               ELSE /\ processQueue' =
                         [processQueue EXCEPT ![ltarget] = Append(@, lpkt)]
                    /\ UNCHANGED crashed
            /\ UNCHANGED uq
    /\ lpc' = "read" /\ lpkt' = None /\ ltarget' = None
    /\ UNCHANGED <<clientVars, p2c, registry, spc, state, pqClosed, poison,
                   poisonClosed, abandoned, abandonBegun, sendFailed,
                   connectorVars>>

-----------------------------------------------------------------------------
(* unknownSession.Process: the offline handshake.  The second request     *)
(* creates a session; registering it fails while the endpoint has one, and *)
(* the request then goes unanswered.  Anything else is logged and dropped. *)

UnknownSessionProcess ==
    /\ uq # <<>>
    /\ uq' = Tail(uq)
    /\ LET pkt == Head(uq)
           fresh == {s \in Sessions : spc[s] = "none"}
       IN CASE pkt = "OCR1" ->
                 Reply("Reply1") /\ UNCHANGED <<registry, spc>>
            [] pkt = "OCR2" /\ CanRegister /\ fresh # {} ->
                 LET s == CHOOSE s \in fresh : \A t \in fresh : s <= t IN
                 /\ Register(s)
                 /\ spc' = [spc EXCEPT ![s] = "select"]
                 /\ Reply("Reply2")
            [] OTHER -> UNCHANGED <<p2c, registry, spc>>
    /\ UNCHANGED <<clientVars, listenerVars, state, processQueue, pqClosed,
                   poison, poisonClosed, abandoned, abandonBegun, sendFailed,
                   connectorVars, crashed>>

-----------------------------------------------------------------------------
(* Session.handleSession: one action per case of its select.               *)

DisconnectSent(s) ==
    /\ AbandonBegins(s)
    /\ Reply("Kick")
    /\ UNCHANGED sendFailed

(* Session.AbandonWithReason when its SendPackage returns an error (a      *)
(* failed write, or a reason too long for one datagram): it returns false  *)
(* at once, without Abandon and without a word to the client.              *)
DisconnectFails ==
    /\ SendErrors
    /\ sendFailed' = TRUE
    /\ UNCHANGED <<registry, abandonBegun, p2c>>

(* Session.AbandonWithReason, called by goroutine pc of the session: when  *)
(* it got past the disconnect send, that goroutine goes on to Abandon's    *)
(* poison send; when the send failed, it carries on as if nothing was done. *)
AbandonWithReason(s, pc, g) ==
    \/ DisconnectSent(s) /\ pc' = [pc EXCEPT ![g] = "abandonSend"]
    \/ DisconnectFails /\ UNCHANGED pc

(* Session.Connect, as handleIdentify calls it for a login: a new          *)
(* SessionConnector dials the backend (DialUDP), sets C_STATE_IDENTIFY,    *)
(* starts its listener goroutine and sends the first handshake request.    *)
(* An error of either step has the session abandoned with the reason,      *)
(* serverConnection being nil (firstServer); a failed first request leaves *)
(* the listener running for a backend that never heard of it.              *)
Connect(s) ==
    LET fresh == {c \in Connectors : cowner[c] = None}
        c == CHOOSE c \in fresh : \A d \in fresh : c <= d
    IN /\ fresh # {}
       /\ cowner' = [cowner EXCEPT ![c] = s]
       /\ \/ /\ cstate' = [cstate EXCEPT ![c] = "Identify"]
             /\ clpc' = [clpc EXCEPT ![c] = "run"]
             /\ UNCHANGED <<spc, abandonBegun, registry, p2c, sendFailed, backend>>
          \/ /\ SendErrors
             /\ UNCHANGED <<cstate, clpc, backend>>
             /\ AbandonWithReason(s, spc, s)
          \/ /\ SendErrors
             /\ cstate' = [cstate EXCEPT ![c] = "Identify"]
             /\ clpc' = [clpc EXCEPT ![c] = "run"]
             /\ backend' = [backend EXCEPT ![c] = "stalled"]
             /\ AbandonWithReason(s, spc, s)

(* Session.handleIdentify, for what the client's datagrams carry: a        *)
(* connection request is accepted through SendPackage, a login is kept and *)
(* connects to the backend, and anything else is logged as unknown.        *)
handleIdentify(s, pkt) ==
    CASE pkt = "ConnReq" ->
           Reply("Accepted") /\ UNCHANGED handshakeVars
      [] pkt = "Login" ->
           Connect(s)
      [] OTHER ->
           UNCHANGED <<p2c, handshakeVars>>

\* Session.dispatchData handles STATE_IDENTIFY only and drops the rest.
dispatchData(s, pkt) ==
    IF state[s] = "Identify"
    THEN handleIdentify(s, pkt)
    ELSE UNCHANGED <<p2c, handshakeVars>>

(* The processQueue case of handleSession: a connected ping is answered    *)
(* and a disconnect notification abandons the session, whatever its state; *)
(* the rest goes to dispatchData.                                          *)
SessionReceive(s) ==
    /\ spc[s] = "select"
    /\ processQueue[s] # <<>>
    /\ processQueue' = [processQueue EXCEPT ![s] = Tail(@)]
    /\ LET pkt == Head(processQueue[s]) IN
       CASE pkt = "Ping" ->
              Reply("Pong") /\ UNCHANGED handshakeVars
         [] pkt = "Disconnect" /\ ~abandoned[s] ->
              /\ AbandonBegins(s)
              /\ spc' = [spc EXCEPT ![s] = "abandonSend"]
              /\ UNCHANGED <<p2c, cowner, cstate, clpc, sendFailed, backend>>
         [] OTHER ->
              dispatchData(s, pkt)
    /\ UNCHANGED <<clientVars, listenerVars, uq, state, pqClosed, poison,
                   poisonClosed, abandoned, cabandoned, relays, crashed>>

(* The ticker: GarbageCollect and TryResendPackets (DatagramHelper.tla),   *)
(* then AbandonWithReason when nothing came for ten seconds.  The select   *)
(* picks among ready cases at random, so a tick may win over a poison that *)
(* is already pending.                                                      *)
SessionPingTimeout(s) ==
    /\ spc[s] = "select"
    /\ AbandonWithReason(s, spc, s)
    /\ UNCHANGED <<clientVars, listenerVars, uq, state, processQueue,
                   pqClosed, poison, poisonClosed, abandoned, connectorVars,
                   crashed>>

\* The session goroutine's own poison send, at the end of Abandon.
SessionAbandonSend(s) ==
    /\ spc[s] = "abandonSend"
    /\ PoisonSend(s)
    /\ spc' = [spc EXCEPT ![s] = "select"]
    /\ UNCHANGED <<clientVars, p2c, listenerVars, uq, registry, state,
                   processQueue, pqClosed, poisonClosed, abandoned,
                   abandonBegun, sendFailed, cowner, cstate, clpc, backend,
                   relays>>

\* The poison case: mark abandoned, close both channels, stop, return.
SessionPoison(s) ==
    /\ spc[s] = "select"
    /\ poison[s] = 1
    /\ poison' = [poison EXCEPT ![s] = 0]
    /\ abandoned' = [abandoned EXCEPT ![s] = TRUE]
    /\ pqClosed' = [pqClosed EXCEPT ![s] = TRUE]
    /\ poisonClosed' = [poisonClosed EXCEPT ![s] = TRUE]
    /\ spc' = [spc EXCEPT ![s] = "exited"]
    /\ UNCHANGED <<clientVars, p2c, listenerVars, uq, registry, state,
                   processQueue, abandonBegun, sendFailed, connectorVars,
                   crashed>>

-----------------------------------------------------------------------------
(* SessionConnector.connectionListener, by what its backend sends.         *)

(* MCPE_START_GAME in C_STATE_IDENTIFY: Process is started, both states    *)
(* become connected and the packet goes to the client as it is.            *)
ConnectorStartGame(c) ==
    /\ clpc[c] = "run"
    /\ cstate[c] = "Identify"
    /\ backend[c] = "handshake"
    /\ backend' = [backend EXCEPT ![c] = "playing"]
    /\ cstate' = [cstate EXCEPT ![c] = "Connected"]
    /\ state' = [state EXCEPT ![cowner[c]] = "Connected"]
    /\ Reply("StartGame")
    /\ UNCHANGED <<clientVars, listenerVars, uq, registry, spc, processQueue,
                   pqClosed, poison, poisonClosed, abandoned, abandonBegun,
                   sendFailed, cowner, clpc, cabandoned, relays, crashed>>

(* MCPE_DISCONNECT in C_STATE_IDENTIFY: the connector's goroutine calls    *)
(* session.AbandonWithReason, which returns false on an abandoned session. *)
ConnectorKicked(c) ==
    /\ clpc[c] = "run"
    /\ cstate[c] = "Identify"
    /\ backend[c] = "handshake"
    /\ backend' = [backend EXCEPT ![c] = "closed"]
    /\ IF abandoned[cowner[c]]
       THEN UNCHANGED <<registry, abandonBegun, p2c, clpc, sendFailed>>
       ELSE AbandonWithReason(cowner[c], clpc, c)
    /\ UNCHANGED <<clientVars, listenerVars, uq, spc, state, processQueue,
                   pqClosed, poison, poisonClosed, abandoned, cowner, cstate,
                   cabandoned, relays, crashed>>

(* What the connector's own handshake may come to instead of an answer     *)
(* (SessionConnector.tla, LoginLeadsToPlay): a datagram to or from the     *)
(* backend is lost, or one of its sends fails; nothing retries, and the    *)
(* listener then waits for a backend that will never speak.                *)
ConnectorStalls(c) ==
    /\ clpc[c] = "run"
    /\ cstate[c] = "Identify"
    /\ backend[c] = "handshake"
    /\ backend' = [backend EXCEPT ![c] = "stalled"]
    /\ UNCHANGED <<clientVars, p2c, listenerVars, uq, registry, sessionVars,
                   cowner, cstate, clpc, cabandoned, relays, crashed>>

\* The connector goroutine's poison send, at the end of that Abandon.
ConnectorAbandonSend(c) ==
    /\ clpc[c] = "abandonSend"
    /\ PoisonSend(cowner[c])
    /\ clpc' = [clpc EXCEPT ![c] = "run"]
    /\ UNCHANGED <<clientVars, p2c, listenerVars, uq, registry, spc, state,
                   processQueue, pqClosed, poisonClosed, abandoned,
                   abandonBegun, sendFailed, cowner, cstate, backend, relays>>

(* A datagram in C_STATE_CONNECTED is unpacked and every part repackaged   *)
(* through session.SendPackage, whatever became of the session.            *)
ConnectorRelay(c) ==
    /\ clpc[c] = "run"
    /\ cstate[c] = "Connected"
    /\ backend[c] = "playing"
    /\ relays[c] < RelayBudget
    /\ relays' = [relays EXCEPT ![c] = @ + 1]
    /\ Reply("Relay")
    /\ UNCHANGED <<clientVars, listenerVars, uq, registry, sessionVars,
                   cowner, cstate, clpc, cabandoned, backend, crashed>>

-----------------------------------------------------------------------------

(* A panic ends the process; crashed stays TRUE and every property below   *)
(* is about behaviours up to it, so the steps after it do not matter.      *)
Next ==
    \/ ClientOpen \/ ClientReceive \/ ClientChat \/ ClientRetransmit
    \/ ListenerRead \/ ListenerPush \/ UnknownSessionProcess
    \/ \E s \in Sessions :
          \/ SessionReceive(s) \/ SessionPingTimeout(s)
          \/ SessionAbandonSend(s) \/ SessionPoison(s)
    \/ \E c \in Connectors :
          \/ ConnectorStartGame(c) \/ ConnectorKicked(c)
          \/ ConnectorStalls(c) \/ ConnectorAbandonSend(c)
          \/ ConnectorRelay(c)

(* Goroutines that can run do run.  A connector's handshake comes to an    *)
(* end: the backend answers, or the handshake stalls for good; which one   *)
(* is left open.  The client and the ping timeout owe nothing.             *)
Fairness ==
    /\ WF_vars(ClientReceive)
    /\ WF_vars(ListenerRead) /\ WF_vars(ListenerPush)
    /\ WF_vars(UnknownSessionProcess)
    /\ \A s \in Sessions :
          /\ WF_vars(SessionReceive(s)) /\ WF_vars(SessionAbandonSend(s))
          /\ WF_vars(SessionPoison(s))
    /\ \A c \in Connectors :
          /\ WF_vars(ConnectorStartGame(c) \/ ConnectorKicked(c)
                     \/ ConnectorStalls(c))
          /\ WF_vars(ConnectorAbandonSend(c))

Spec == Init /\ [][Next]_vars /\ Fairness

-----------------------------------------------------------------------------

Stages == {"Offline", "Opening1", "Opening2", "Requesting", "LoggingIn",
           "Playing", "Left"}

\* sessionState: STATE_CONNECTING is declared and never assigned.
SessionStates == {"Identify", "Connecting", "Connected"}

\* sessionConnectorState.
ConnectorStates == {"Unconnected", "Identify", "Connected"}

TypeOK ==
    /\ c2p \in Seq(ClientPackets) /\ p2c \in Seq(ProxyPackets)
    /\ cstage \in Stages /\ csent \in 0..ClientBudget
    /\ lpc \in {"read", "push"} /\ lpkt \in ClientPackets \cup {None}
    /\ ltarget \in Sessions \cup {None}
    /\ uq \in Seq(ClientPackets)
    /\ registry \in Sessions \cup {None}
    /\ spc \in [Sessions -> {"none", "select", "abandonSend", "exited"}]
    /\ state \in [Sessions -> SessionStates]
    /\ \A s \in Sessions : Len(processQueue[s]) <= QueueCap
    /\ poison \in [Sessions -> 0..1]
    /\ cowner \in [Connectors -> Sessions \cup {None}]
    /\ cstate \in [Connectors -> ConnectorStates]
    /\ clpc \in [Connectors -> {"none", "run", "abandonSend"}]
    /\ backend \in [Connectors -> {"handshake", "playing", "closed", "stalled"}]
    /\ sendFailed \in BOOLEAN
    /\ relays \in [Connectors -> 0..RelayBudget]

NoPanic == ~crashed

(* A session whose goroutine runs and that nobody has begun to abandon is  *)
(* the one registered for the endpoint: Unregister, called by an older     *)
(* session's Abandon, must not remove a newer session's entry.             *)
RegisteredWhileAlive ==
    \A s \in Sessions :
        spc[s] = "select" /\ ~abandonBegun[s] => registry = s

(* A session that Abandon has begun to tear down eventually ends its       *)
(* goroutine: its poison is sent and taken (or the whole process died).    *)
AbandonedSessionsExit ==
    \A s \in Sessions :
        abandonBegun[s] ~> (spc[s] = "exited" \/ crashed)

(* A session makes at most one backend connection: handleIdentify connects *)
(* on MCPE_LOGIN, and a session has a single serverConnection.             *)
AtMostOneConnector ==
    \A s \in Sessions : Cardinality({c \in Connectors : cowner[c] = s}) <= 1

=============================================================================
