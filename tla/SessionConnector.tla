--------------------------- MODULE SessionConnector ---------------------------
(***************************************************************************)
(* proxy/session_connector.go: the connection a Session opens to the       *)
(* backend server on login, against a RakNet backend over UDP.             *)
(*                                                                         *)
(* The connector's listener goroutine (connectionListener) runs the        *)
(* handshake in C_STATE_IDENTIFY: open connection requests 1 and 2, the    *)
(* connection request, then NewIncomingConnection and the client's login   *)
(* in a batch.  START_GAME starts a Process goroutine and switches to      *)
(* C_STATE_CONNECTED, where datagrams are relayed to the client.  Process  *)
(* pings every 5 s and every 50 ms ACKs what ackQueue holds.               *)
(*                                                                         *)
(* The backend is a RakNet server: it answers the offline requests, keeps  *)
(* each reliable datagram until it is ACKed and may resend it under a new  *)
(* sequence number.  UDP may lose anything when Lossy.  The session is     *)
(* seen through what the client is sent (toClient).                        *)
(***************************************************************************)
EXTENDS Codec, FiniteSets, TLC

CONSTANTS
    MaxDsn,         \* datagrams the connector sends in a behaviour
    BackendMaxDsn,  \* the backend resends only below this sequence number
    RelayBudget,    \* game packets the backend sends once playing
    Lossy,          \* may UDP lose datagrams?
    WriteErrors,    \* may a socket write return an error?
    AckNumbers,     \* numbers SliceAck and the ACK codec are checked over
    MaxAcks,        \* ... in sequences of at most this length
    SessionMtu,     \* Session.mtu, the MTU the client asked for
    GrantedMtus,    \* MTUs the backend may grant in its open connection reply 1
    Int64Values,    \* int64 values the handshake codecs are checked over
    MtuValues,      \* ... int16 MTUs
    PeerAddrs       \* ... and client addresses with a four-byte IP

VARIABLES
    cstate,         \* SessionConnector.state
    mtu,            \* SessionConnector.mtu
    dsn,            \* SessionConnector.datagramSequenceNumber (last issued)
    ackQueue,       \* SessionConnector.ackQueue
    procs,          \* Process goroutines started
    c2b,            \* datagrams in flight to the backend
    b2c,            \* datagrams in flight to the connector
    bstage,         \* the backend's view of the connection
    bdsn,           \* the backend's next datagram sequence number
    pending,        \* the backend's reliable datagrams not yet ACKed
    bmtu,           \* the MTU the backend granted (0 before it replied)
    games,          \* game packets the backend has sent
    received,       \* history: backend sequence numbers the connector read
    acked,          \* history: backend sequence numbers ACKed to the backend
    logins,         \* history: login batches the connector sent
    toClient,       \* what the connector had the session send the client
    loginFits,      \* does CreateDatagrams take the client's login batch?
    dropped,        \* history: has UDP lost a datagram?
    sendFailed      \* history: has a send of the connector returned an error?

vars == <<cstate, mtu, dsn, ackQueue, procs, c2b, b2c, bstage, bdsn, pending,
          bmtu, games, received, acked, logins, toClient, loginFits, dropped,
          sendFailed>>

backendVars == <<bstage, bdsn, pending, bmtu, games>>

\* Offline messages carry no sequence number (n = 0 is never read for them).
Offline(k) == [k |-> k, n |-> 0, bytes |-> <<>>]

\* A RakNet datagram carrying one reliable message of kind k.
Datagram(k, n) == [k |-> k, n |-> n, bytes |-> <<>>]

ToBackendDatagrams == {"ConnReq", "NIC", "Login", "Ping"}
FromBackendDatagrams == {"Accepted", "StartGame", "Kick", "Game"}

IsDatagram(m) == m.k \in FromBackendDatagrams

Init ==
    /\ cstate = "Unconnected"
    /\ mtu = SessionMtu
    /\ dsn = 0
    /\ ackQueue = <<>>
    /\ procs = 0
    /\ c2b = {}
    /\ b2c = {}
    /\ bstage = "Offline"
    /\ bdsn = 0
    /\ pending = {}
    /\ bmtu = 0
    /\ games = 0
    /\ received = {}
    /\ acked = {}
    /\ logins = 0
    /\ toClient = <<>>
    /\ loginFits \in BOOLEAN
    /\ dropped = FALSE
    /\ sendFailed = FALSE

-----------------------------------------------------------------------------
(* The connector.                                                          *)

(* What one SessionConnector.SendPackage of package k can return.  The    *)
(* login batch is a split package unless it fits one datagram, and         *)
(* CreateDatagrams refuses every split part ("Datagram too big");          *)
(* otherwise the one datagram is written, and the write may fail.          *)
SendOutcomes(k) ==
    IF k = "Login" /\ ~loginFits THEN {"tooBig"}
    ELSE {"sent"} \cup (IF WriteErrors THEN {"writeFailed"} ELSE {})

(* SessionConnector.SendPackage of the packages ks, in order, returning at *)
(* the first error as every caller does: each call takes the next datagram *)
(* sequence number (CreateDatagrams takes it before it can fail), and j    *)
(* calls succeed.  Nothing keeps a datagram for a resend.                  *)
SendPackages(ks) ==
    \E j \in 0..Len(ks) :
        /\ \A i \in 1..j : "sent" \in SendOutcomes(ks[i])
        /\ j < Len(ks) => SendOutcomes(ks[j + 1]) # {"sent"}
        /\ c2b' = c2b \cup {Datagram(ks[i], dsn + i) : i \in 1..j}
        /\ dsn' = dsn + (IF j < Len(ks) THEN j + 1 ELSE j)
        /\ logins' = logins + Cardinality({i \in 1..j : ks[i] = "Login"})
        /\ sendFailed' = (sendFailed \/ j < Len(ks))

(* SessionConnector.SendPacket (a write on the dialled socket) of m.       *)
SendPacket(m) ==
    \/ c2b' = c2b \cup {m} /\ UNCHANGED sendFailed
    \/ WriteErrors /\ sendFailed' = TRUE /\ UNCHANGED c2b

(* A packet handed to the session for the client (Session.SendPackage,    *)
(* SendDirect or AbandonWithReason).  Whether the session's own write then *)
(* fails is Proxy.tla's concern (AbandonWithReason); toClient records what *)
(* the connector handed over, in order.                                    *)
SendToClient(k) == toClient' = Append(toClient, k) /\ UNCHANGED sendFailed

(* SessionConnector.Connect: dial, C_STATE_IDENTIFY, start the listener,   *)
(* then the first request, which asks for mtu - 32 (in int16) of padding. *)
(* A failed write is returned to Session.Connect (Proxy.tla), with the     *)
(* connector left in C_STATE_IDENTIFY.                                     *)
Connect ==
    /\ cstate = "Unconnected"
    /\ cstate' = "Identify"
    /\ SendPacket([k |-> "OCR1", n |-> Int16(mtu - 32), bytes |-> <<>>])
    /\ UNCHANGED <<mtu, dsn, ackQueue, procs, b2c, backendVars, received, acked,
                   logins, toClient, loginFits, dropped>>

\* sessionConnectorState.
ConnectorStates == {"Unconnected", "Identify", "Connected"}

(* SessionConnector.handleDatagram: the datagram's number, as the backend *)
(* wrote it in 24 bits and RakNetDatagram.Decode read it back, is appended *)
(* to ackQueue (under ackQueueLock, in a defer).  Every datagram here      *)
(* carries one unsplit message.                                            *)
handleDatagram(m) == ackQueue' = Append(ackQueue, ReadInt24(WriteInt24(m.n)).val)

\* Mutant: an identify handler that forwards what it does not recognise.
IdentifyItemForwarding(k) ==
    CASE k = "Accepted" ->
           /\ SendPackages(<<"NIC", "Login">>)
           /\ UNCHANGED <<cstate, procs, toClient>>
      [] k = "StartGame" ->
           /\ procs' = procs + 1
           /\ cstate' = "Connected"
           /\ SendToClient("StartGame")
           /\ UNCHANGED <<c2b, dsn, logins>>
      [] OTHER ->
           /\ SendToClient(k)
           /\ UNCHANGED <<cstate, procs, c2b, dsn, logins>>

(* handleIdentify for one message of a datagram: connection accepted sends *)
(* NewIncomingConnection and the login batch, an MCPE disconnect has the   *)
(* session abandoned with the reason, START_GAME starts Process, switches  *)
(* both states and then goes to the client; anything else is ignored.      *)
IdentifyItem(k) ==
    CASE k = "Accepted" ->
           /\ SendPackages(<<"NIC", "Login">>)
           /\ UNCHANGED <<cstate, procs, toClient>>
      [] k = "Kick" ->
           /\ SendToClient("Kick")
           /\ UNCHANGED <<cstate, procs, c2b, dsn, logins>>
      [] k = "StartGame" ->
           /\ procs' = procs + 1
           /\ cstate' = "Connected"
           /\ SendToClient("StartGame")
           /\ UNCHANGED <<c2b, dsn, logins>>
      [] OTHER ->
           UNCHANGED <<cstate, procs, c2b, dsn, logins, toClient, sendFailed>>

(* The open connection replies 1 the backend can send, each read once by *)
(* RakNetOpenConnectionReply1.Decode into a table TLC computes once.       *)
Reply1Wire(g) == EncodeOCReply1([guid |-> [hi |-> 0, lo |-> 1], secure |-> 0, mtu |-> g])

Reply1Wires == {Reply1Wire(g) : g \in GrantedMtus}

Reply1Read == [w \in Reply1Wires |-> DecodeOCReply1(Tail(w))]

(* The open connection reply 1: a reply that does not decode is dropped   *)
(* (the early return); otherwise the connector adopts the MTU it read and  *)
(* sends the open connection request 2 with it.                           *)
handleReply1(m) ==
    IF Reply1Read[m.bytes].err # "none"
    THEN UNCHANGED <<mtu, c2b, sendFailed>>
    ELSE /\ mtu' = Reply1Read[m.bytes].mtu
         /\ SendPacket([k |-> "OCR2", n |-> Reply1Read[m.bytes].mtu, bytes |-> <<>>])

\* Mutant: the open connection reply 2 left unanswered.
handleIdentifyNoReply2(m) ==
    CASE m.k = "Reply1" ->
           /\ handleReply1(m)
           /\ UNCHANGED <<cstate, dsn, ackQueue, procs, logins, toClient>>
      [] IsDatagram(m) ->
           /\ handleDatagram(m)
           /\ IdentifyItem(m.k)
           /\ UNCHANGED mtu
      [] OTHER ->
           UNCHANGED <<cstate, mtu, dsn, ackQueue, procs, c2b, logins, toClient,
                       sendFailed>>

(* SessionConnector.handleIdentify: the two open connection replies are    *)
(* answered; a datagram's number goes onto ackQueue (handleDatagram's      *)
(* defer) and its message to IdentifyItem.                                 *)
handleIdentify(m) ==
    CASE m.k = "Reply1" ->
           /\ handleReply1(m)
           /\ UNCHANGED <<cstate, dsn, ackQueue, procs, logins, toClient>>
      [] m.k = "Reply2" ->
           /\ SendPackages(<<"ConnReq">>)
           /\ UNCHANGED <<cstate, mtu, ackQueue, procs, toClient>>
      [] IsDatagram(m) ->
           /\ handleDatagram(m)
           /\ IdentifyItem(m.k)
           /\ UNCHANGED mtu
      [] OTHER ->
           UNCHANGED <<cstate, mtu, dsn, ackQueue, procs, c2b, logins, toClient,
                       sendFailed>>

(* SessionConnector.handleConnected: ACKs and NAKs are dropped, and every  *)
(* message of a datagram is repackaged through session.SendPackage.       *)
handleConnected(m) ==
    /\ IF IsDatagram(m)
       THEN /\ handleDatagram(m)
            /\ SendToClient(m.k)
       ELSE UNCHANGED <<ackQueue, toClient, sendFailed>>
    /\ UNCHANGED <<cstate, mtu, dsn, procs, c2b, logins>>

\* connectionListener reads a datagram and dispatchData routes it by state.
ConnectorReceive ==
    \E m \in b2c :
        /\ b2c' = b2c \ {m}
        /\ received' = IF IsDatagram(m) THEN received \cup {m.n} ELSE received
        /\ IF cstate = "Identify" THEN handleIdentify(m) ELSE handleConnected(m)
        /\ UNCHANGED <<backendVars, acked, loginFits, dropped>>

\* Mutant: the range left open when the loop ends is never appended.
RECURSIVE SliceFromNoLeftover(_, _, _, _)
SliceFromNoLeftover(acks, i, start, currSeq) ==
    IF i > Len(acks) THEN <<>>
    ELSE IF acks[i] - currSeq = 1
    THEN SliceFromNoLeftover(acks, i + 1, start, acks[i])
    ELSE <<[min |-> start, max |-> currSeq]>> \o SliceFromNoLeftover(acks, i + 1, acks[i], acks[i])

\* Mutant: the index loop runs one past the end.
DrainedInclusive(q) == [i \in 1..Len(q) + 1 |-> i - 1]

(* The numbers Process's fast tick ACKs: the ackQueue is ranged over with  *)
(* "for item := range", which yields the indices 0 .. len-1.               *)
Drained(q) == [i \in 1..Len(q) |-> i - 1]

(* SliceAck's loop over the sorted numbers from the i-th on: a number one  *)
(* above the current one extends the range, anything else (a gap or a      *)
(* repeat) closes it and starts the next.                                  *)
RECURSIVE SliceFrom(_, _, _, _)
SliceFrom(acks, i, start, currSeq) ==
    IF i > Len(acks) THEN <<[min |-> start, max |-> currSeq]>>
    ELSE IF acks[i] - currSeq = 1
    THEN SliceFrom(acks, i + 1, start, acks[i])
    ELSE <<[min |-> start, max |-> currSeq]>> \o SliceFrom(acks, i + 1, acks[i], acks[i])

\* SliceAck: sort.Ints, then ranges of consecutive numbers.
SliceAck(acks) ==
    LET sorted == SortSeq(acks, <) IN SliceFrom(sorted, 2, sorted[1], sorted[1])

\* The numbers a sequence of ranges covers.
AckedNumbers(ranges) == UNION {ranges[i].min .. ranges[i].max : i \in 1..Len(ranges)}

(* What the backend reads from the bytes of an ACK: after the id, the      *)
(* ranges in the ACK format of RakNetAck.Decode (the wire format of a     *)
(* RakNet ACK).                                                            *)
BackendAcked(bytes) == AckedNumbers(DecodeAck(Tail(bytes)).ranges)

(* The backend's reading of every ACK the connector can write, as a table *)
(* TLC computes once: ackQueue holds one number per backend datagram read, *)
(* at most one per sequence number the backend issues, and what Drained   *)
(* makes of a queue depends on its length only.                           *)
MaxAckQueue == BackendMaxDsn + RelayBudget + 2

AckWires == {EncodeAck(SliceAck(Drained([i \in 1..n |-> 0]))) : n \in 1..MaxAckQueue}

AckedBy == [w \in AckWires |-> BackendAcked(w)]

(* Process, fast tick: ackQueue is drained under its lock and, when it     *)
(* held anything, an ACK of SliceAck of the drained numbers is written.    *)
ProcessFastTick ==
    /\ procs > 0
    /\ ackQueue # <<>>
    /\ ackQueue' = <<>>
    /\ SendPacket([k |-> "Ack", n |-> 0,
                   bytes |-> EncodeAck(SliceAck(Drained(ackQueue)))])
    /\ UNCHANGED <<cstate, mtu, dsn, procs, b2c, backendVars, received, acked,
                   logins, toClient, loginFits, dropped>>

\* Process, slow tick: a connected ping through SendPackage.
ProcessSlowTick ==
    /\ procs > 0
    /\ dsn < MaxDsn
    /\ SendPackages(<<"Ping">>)
    /\ UNCHANGED <<cstate, mtu, ackQueue, procs, b2c, backendVars, received, acked,
                   toClient, loginFits, dropped>>

-----------------------------------------------------------------------------
(* The backend: a RakNet server with MCPE login.                           *)

\* A reliable datagram: sent under the next number and kept until ACKed.
ReliableSend(k) ==
    /\ b2c' = b2c \cup {Datagram(k, bdsn)}
    /\ pending' = pending \cup {Datagram(k, bdsn)}
    /\ bdsn' = bdsn + 1

(* The backend answers an open connection request 1 with a reply 1 that   *)
(* grants an MTU of its choosing.                                          *)
BackendReceive ==
    \E m \in c2b :
        /\ c2b' = c2b \ {m}
        /\ CASE m.k = "OCR1" ->
                  /\ \E g \in GrantedMtus :
                        /\ b2c' = b2c \cup {[k |-> "Reply1", n |-> 0, bytes |-> Reply1Wire(g)]}
                        /\ bmtu' = g
                  /\ UNCHANGED <<bstage, bdsn, pending, acked>>
             [] m.k = "OCR2" ->
                  /\ b2c' = b2c \cup {Offline("Reply2")}
                  /\ bstage' = IF bstage = "Offline" THEN "Open" ELSE bstage
                  /\ UNCHANGED <<bdsn, pending, bmtu, acked>>
             [] m.k = "ConnReq" /\ bstage = "Open" ->
                  /\ ReliableSend("Accepted")
                  /\ bstage' = "Accepted"
                  /\ UNCHANGED <<bmtu, acked>>
             [] m.k = "Login" /\ bstage = "Accepted" ->
                  /\ \/ ReliableSend("StartGame") /\ bstage' = "Playing"
                     \/ ReliableSend("Kick") /\ bstage' = "Closed"
                  /\ UNCHANGED <<bmtu, acked>>
             [] m.k = "Ack" ->
                  /\ pending' = {d \in pending : d.n \notin AckedBy[m.bytes]}
                  /\ acked' = acked \cup AckedBy[m.bytes]
                  /\ UNCHANGED <<bstage, bdsn, bmtu, b2c>>
             [] OTHER ->
                  UNCHANGED <<bstage, bdsn, pending, bmtu, b2c, acked>>
        /\ UNCHANGED <<cstate, mtu, dsn, ackQueue, procs, games, received, logins,
                       toClient, loginFits, dropped, sendFailed>>

\* A reliable datagram nobody ACKed is resent under a new sequence number.
BackendResend ==
    /\ bdsn < BackendMaxDsn
    /\ \E d \in pending :
          /\ pending' = (pending \ {d}) \cup {Datagram(d.k, bdsn)}
          /\ b2c' = b2c \cup {Datagram(d.k, bdsn)}
          /\ bdsn' = bdsn + 1
    /\ UNCHANGED <<cstate, mtu, dsn, ackQueue, procs, c2b, bstage, bmtu, games, received,
                   acked, logins, toClient, loginFits, dropped, sendFailed>>

\* Once playing, the backend sends game packets.
BackendGame ==
    /\ bstage = "Playing"
    /\ games < RelayBudget
    /\ ReliableSend("Game")
    /\ games' = games + 1
    /\ UNCHANGED <<cstate, mtu, dsn, ackQueue, procs, c2b, bstage, bmtu, received, acked,
                   logins, toClient, loginFits, dropped, sendFailed>>

\* UDP loses a datagram in either direction.
Lose ==
    /\ Lossy
    /\ \/ \E m \in c2b : c2b' = c2b \ {m} /\ b2c' = b2c
       \/ \E m \in b2c : b2c' = b2c \ {m} /\ c2b' = c2b
    /\ dropped' = TRUE
    /\ UNCHANGED <<cstate, mtu, dsn, ackQueue, procs, backendVars, received, acked,
                   logins, toClient, loginFits, sendFailed>>

Next ==
    \/ Connect \/ ConnectorReceive \/ ProcessFastTick \/ ProcessSlowTick
    \/ BackendReceive \/ BackendResend \/ BackendGame \/ Lose

(* The connector's goroutines run when they can; the backend reads what    *)
(* reaches it and plays once logged in.  Its resends and the network's     *)
(* losses owe nothing.                                                     *)
Spec ==
    /\ Init /\ [][Next]_vars
    /\ WF_vars(Connect) /\ WF_vars(ConnectorReceive)
    /\ WF_vars(ProcessFastTick)
    /\ WF_vars(BackendReceive) /\ WF_vars(BackendGame)

-----------------------------------------------------------------------------

Messages == [k : {"OCR1", "OCR2", "Reply1", "Reply2", "Ack"} \cup
                 ToBackendDatagrams \cup FromBackendDatagrams,
             n : Int, bytes : Seq(0..255)]

Int16Range == -32768..32767

TypeOK ==
    /\ cstate \in ConnectorStates
    /\ mtu \in Int16Range /\ bmtu \in Int16Range
    /\ dsn \in Nat
    /\ ackQueue \in Seq(Nat)
    /\ c2b \subseteq Messages /\ b2c \subseteq Messages
    /\ bstage \in {"Offline", "Open", "Accepted", "Playing", "Closed"}
    /\ bdsn \in Nat
    /\ pending \subseteq b2c \cup {Datagram(k, n) : k \in FromBackendDatagrams,
                                                n \in 0..bdsn - 1}
    /\ received \cup acked \subseteq 0..bdsn - 1
    /\ toClient \in Seq(FromBackendDatagrams)
    /\ dropped \in BOOLEAN /\ loginFits \in BOOLEAN /\ sendFailed \in BOOLEAN

(* Once the connector is identifying with the backend, the client is       *)
(* eventually sent START_GAME or the backend's disconnect: the handshake   *)
(* of connectionListener (request 1, request 2, connection request, then  *)
(* NewIncomingConnection and the login) runs to its end whatever the       *)
(* backend resends meanwhile, unless UDP lost a datagram or a send         *)
(* returned an error.  Those are the only ways it stops: nothing in the    *)
(* connector resends a handshake step, and every failed send makes        *)
(* handleIdentify return, so either stalls it for good.  A login batch     *)
(* that does not fit one datagram is such a failed send.                   *)
LoginLeadsToPlay ==
    cstate = "Identify" ~>
        \/ \E i \in 1..Len(toClient) : toClient[i] \in {"StartGame", "Kick"}
        \/ dropped
        \/ sendFailed

(* The client is sent no backend game packet before START_GAME, however   *)
(* UDP reorders, loses or the backend resends: handleIdentify passes only *)
(* START_GAME and the disconnect on, and handleConnected relays only once *)
(* START_GAME has switched the connector to C_STATE_CONNECTED.             *)
StartGameFirst ==
    \A i \in 1..Len(toClient) :
        toClient[i] = "Game" => \E j \in 1..i - 1 : toClient[j] = "StartGame"

(* Once the connector is connected, every backend datagram it has read is  *)
(* eventually ACKed to the backend: handleDatagram queues its sequence     *)
(* number and Process's fast tick drains the queue into an ACK.            *)
BackendEventuallyAcked ==
    \A n \in 0..BackendMaxDsn + 2 :
        (n \in received /\ cstate = "Connected") ~> (n \in acked)

(* The connector sends the client's login to the backend once: a resent   *)
(* CONNECTION_REQUEST_ACCEPTED must not log the player in a second time.   *)
LoginSentOnce == logins <= 1

\* The sequences of at most MaxAcks numbers of AckNumbers.
AckInputs == UNION {[1..n -> AckNumbers] : n \in 1..MaxAcks}

\* The maximal runs of consecutive numbers in a set.
RunCount(S) == Cardinality({x \in S : x - 1 \notin S})

RoundTripped(acks, d) ==
    /\ d.err = "none"
    /\ AckedNumbers(d.ranges) = {acks[i] : i \in 1..Len(acks)}
    /\ \A i \in 1..Len(d.ranges) : d.ranges[i].min <= d.ranges[i].max
    /\ (\A i, j \in 1..Len(acks) : i # j => acks[i] # acks[j])
          => Len(d.ranges) = RunCount({acks[i] : i \in 1..Len(acks)})

\* SliceAck, RakNetAck.Encode, then the ranges RakNetAck.Decode reads.
AckRoundTrip(acks) == RoundTripped(acks, DecodeAck(Tail(EncodeAck(SliceAck(acks)))))

\* The codec on every bounded input (a constant, which TLC evaluates once).
AckCodecOnInputs == \A acks \in AckInputs : AckRoundTrip(acks)

(* The ACK range codec (SliceAck, RakNetAck.Encode, then the ranges        *)
(* RakNetAck.Decode reads) meets its contract, on the numbers ackQueue     *)
(* holds now and on every short sequence of numbers a signed 24-bit field  *)
(* holds: in any order, the ranges read back cover exactly the numbers    *)
(* given, each with min <= max, and for distinct numbers there is one     *)
(* range per maximal run of consecutive numbers.                           *)
AckRangeCodec ==
    /\ AckCodecOnInputs
    /\ ackQueue # <<>> => AckRoundTrip(ackQueue)

\* The handshake packets built from every bounded choice of their fields.
UnconnectedPingRoundTrip(id) ==
    /\ DecodeUnconnectedPing(Tail(EncodeUnconnectedPing([pingId |-> id])))
          = [err |-> "none", pingId |-> id]
    /\ SubSeq(EncodeUnconnectedPong([pingId |-> id, serverId |-> id, name |-> <<>>]), 2, 9)
          = WriteInt64(id)

Reply1RoundTrip(g, sec, m) ==
    DecodeOCReply1(Tail(EncodeOCReply1([guid |-> g, secure |-> sec, mtu |-> m])))
        = [err |-> "none", guid |-> g, secure |-> sec, mtu |-> m]

Request2RoundTrip(a, m, g) ==
    LET d == DecodeOCR2(Tail(EncodeOCR2([addr |-> a, mtu |-> m, guid |-> g])))
    IN  d.err = "none" /\ d.addr.ip = a.ip /\ d.mtu = m /\ d.guid = g

ConnectionRequestRoundTrip(g, t, sec) ==
    DecodeConnectionRequest(Tail(EncodeConnectionRequest(
        [guid |-> g, timestamp |-> t, security |-> sec])))
        = [err |-> "none", guid |-> g, timestamp |-> t, security |-> sec]

HandshakeCodecOnInputs ==
    /\ \A id \in Int64Values : UnconnectedPingRoundTrip(id)
    /\ \A g \in Int64Values, sec \in {0, 1}, m \in MtuValues : Reply1RoundTrip(g, sec, m)
    /\ \A a \in PeerAddrs, m \in MtuValues, g \in Int64Values : Request2RoundTrip(a, m, g)
    /\ \A g, t \in Int64Values, sec \in {0, 1} : ConnectionRequestRoundTrip(g, t, sec)

(* The fields the proxy and the connector act on in a handshake packet    *)
(* are read back as they were written: the unconnected ping's id (echoed  *)
(* in the pong), the MTU and GUID of an open connection reply 1 and of a   *)
(* client's request 2 (NewSession takes its MTU), and a connection        *)
(* request's GUID and timestamp, for int64 and int16 values at their      *)
(* edges.  And in the connector: once it has sent the open connection     *)
(* request 2, its mtu, the MTU that request carries, and so the size of   *)
(* every datagram it builds and every read buffer of connectionListener,  *)
(* is the MTU the backend granted in its reply 1.                          *)
HandshakeFieldsRead ==
    /\ HandshakeCodecOnInputs
    /\ \A m \in c2b : m.k = "OCR2" => m.n = bmtu
    /\ bstage # "Offline" => mtu = bmtu

=============================================================================
