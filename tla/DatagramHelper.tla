-------------------------- MODULE DatagramHelper --------------------------
(***************************************************************************)
(* The retransmission tracker of packets/raknet/datagram_helper.go, driven *)
(* by the reliable send path of proxy/session.go (SendPackage) and by the  *)
(* session's 50 ms ticker, against a peer over a lossy UDP link.           *)
(*                                                                         *)
(* sentDatagrams is the helper's map from datagram sequence number to its  *)
(* record; the record's send time is kept as its age (now - sent), which   *)
(* is all TryResendPackets compares.  ACK and NAK messages are given as    *)
(* the set of sequence numbers their ranges cover.                         *)
(***************************************************************************)
EXTENDS Naturals, FiniteSets

CONSTANTS
    MaxSeq,     \* datagrams the connection sends in a behaviour
    TickMs      \* period of the session's ticker (time.NewTicker(50 ms))

ASSUME MaxSeq \in Nat \ {0} /\ TickMs \in Nat \ {0}

VARIABLES
    sentDatagrams,          \* DatagramHelper.sentDatagrams
    datagramSequenceNumber, \* Session.datagramSequenceNumber (last issued)
    wire,                   \* datagrams in flight to the peer
    received,               \* sequence numbers the peer has received
    ackWire,                \* sequence numbers ACKed by the peer, in flight
    nakWire,                \* sequence numbers NAKed by the peer, in flight
    sends,                  \* history: transmissions of each datagram
    lost,                   \* history: datagrams the helper logged as lost
    acked                   \* history: numbers whose ACK reached the session

vars == <<sentDatagrams, datagramSequenceNumber, wire, received, ackWire,
          nakWire, sends, lost, acked>>

Seqs == 1..MaxSeq

(* fib(n) of datagram_helper.go: the loop keeps prev and next and returns  *)
(* next after n rounds, so fib(0) = 1, fib(1) = 1, fib(2) = 2, ...         *)
RECURSIVE FibLoop(_, _, _)
FibLoop(n, prev, next) ==
    IF n = 0 THEN next ELSE FibLoop(n - 1, next, next + prev)

fib(n) == FibLoop(n, 0, 1)

RetryCap == 2

\* The back-off of TryResendPackets: fib(12 + tries) milliseconds, for
\* every number of tries a record can have (a constant TLC computes once).
DelayTable == [tries \in 0..RetryCap |-> fib(12 + tries)]

Delay(tries) ==
    IF tries \in DOMAIN DelayTable THEN DelayTable[tries] ELSE fib(12 + tries)

\* A record is due once sent + delay is before now.
Due(d) == d.age > Delay(d.tries)

\* Mutant: the retry cap checked one try too late.
ExhaustedLate(d) == d.tries >= 3

\* A due record that has been retried twice is given up.
Exhausted(d) == d.tries >= 2

\* Mutant: a resend that does not count the try.
RetriedUncounted(d) == [age |-> 0, tries |-> d.tries]

\* A resent record: its send time is now and its tries go up by one.
Retried(d) == [age |-> 0, tries |-> d.tries + 1]

\* RegisterDatagram: a sequence number already known is left alone.
RegisterDatagram(map, seq) ==
    IF seq \in DOMAIN map
    THEN map
    ELSE [k \in DOMAIN map \cup {seq} |->
            IF k = seq THEN [age |-> 0, tries |-> 0] ELSE map[k]]

\* HandleAck and HandleNak alike: every known number in the ranges is deleted.
Forget(map, ids) == [k \in DOMAIN map \ ids |-> map[k]]

HandleAck(map, ids) == Forget(map, ids)

HandleNak(map, ids) == Forget(map, ids)

(* RakNetAck.Decode and RakNetNak.Decode have value receivers: the ranges  *)
(* they read go into a copy, and the packet handleSession passes on keeps  *)
(* an empty list, whatever numbers the message carried.                    *)
DecodedRanges(ids) == {}

\* RakNetNak.Decode, a value receiver too: the NAK handed on is empty.
DecodedNakRanges(ids) == {}

\* The sends history counts up to SendsCap, one more than the helper may
\* ever send, and then stays there: enough to see a fourth send.
SendsCap == RetryCap + 2

Bump(f, S) ==
    [k \in DOMAIN f |->
        IF k \in S /\ f[k] < SendsCap THEN f[k] + 1 ELSE f[k]]

Init ==
    /\ sentDatagrams = <<>>
    /\ datagramSequenceNumber = 0
    /\ wire = {}
    /\ received = {}
    /\ ackWire = {}
    /\ nakWire = {}
    /\ sends = [s \in Seqs |-> 0]
    /\ lost = {}
    /\ acked = {}

(* Session.SendPackage of a package that fits one datagram: CreateDatagrams *)
(* takes the next sequence number, the datagram is registered, then        *)
(* written; a failed write returns the error and leaves it registered.     *)
SendPackage ==
    LET seq == datagramSequenceNumber + 1 IN
    /\ datagramSequenceNumber < MaxSeq
    /\ datagramSequenceNumber' = seq
    /\ sentDatagrams' = RegisterDatagram(sentDatagrams, seq)
    /\ \/ /\ wire' = wire \cup {seq}
          /\ sends' = Bump(sends, {seq})
       \/ UNCHANGED <<wire, sends>>
    /\ UNCHANGED <<received, ackWire, nakWire, lost, acked>>

(* A tick of the session's ticker runs TryResendPackets at now + TickMs.   *)
(* Every due record is given up when exhausted, otherwise resent; a resend *)
(* whose write fails is given up too.                                      *)
TryResendPackets ==
    LET aged == [k \in DOMAIN sentDatagrams |->
                   [sentDatagrams[k] EXCEPT !.age = @ + TickMs]]
        due == {k \in DOMAIN aged : Due(aged[k])}
        exhausted == {k \in due : Exhausted(aged[k])}
    IN \E failed \in SUBSET (due \ exhausted) :
        LET resent == due \ (exhausted \cup failed) IN
        /\ sentDatagrams' =
              [k \in DOMAIN aged \ (exhausted \cup failed) |->
                 IF k \in resent
                 THEN Retried(aged[k])
                 ELSE aged[k]]
        /\ wire' = wire \cup resent
        /\ sends' = Bump(sends, resent)
        /\ lost' = lost \cup exhausted \cup failed
        /\ UNCHANGED <<datagramSequenceNumber, received, ackWire, nakWire, acked>>

\* UDP drops a datagram.
LoseDatagram ==
    /\ \E s \in wire : wire' = wire \ {s}
    /\ UNCHANGED <<sentDatagrams, datagramSequenceNumber, received, ackWire,
                   nakWire, sends, lost, acked>>

\* The peer receives a datagram and acknowledges it.
PeerReceive ==
    /\ \E s \in wire :
        /\ wire' = wire \ {s}
        /\ received' = received \cup {s}
        /\ ackWire' = ackWire \cup {s}
    /\ UNCHANGED <<sentDatagrams, datagramSequenceNumber, nakWire, sends, lost,
                   acked>>

\* The peer sees a gap below a received number and NAKs the missing one.
PeerNak ==
    /\ \E s \in 1..datagramSequenceNumber :
        /\ s \notin received
        /\ \E r \in received : r > s
        /\ nakWire' = nakWire \cup {s}
    /\ UNCHANGED <<sentDatagrams, datagramSequenceNumber, wire, received,
                   ackWire, sends, lost, acked>>

\* UDP drops an ACK or a NAK.
LoseReply ==
    /\ \/ \E s \in ackWire : ackWire' = ackWire \ {s} /\ nakWire' = nakWire
       \/ \E s \in nakWire : nakWire' = nakWire \ {s} /\ ackWire' = ackWire
    /\ UNCHANGED <<sentDatagrams, datagramSequenceNumber, wire, received,
                   sends, lost, acked>>

(* handleSession's ID_ACK case: an ACK covering the numbers ids is decoded *)
(* and handed to DatagramHelper.HandleAck.                                 *)
ReceiveAck ==
    /\ \E ids \in (SUBSET ackWire) \ {{}} :
        /\ sentDatagrams' = HandleAck(sentDatagrams, DecodedRanges(ids))
        /\ ackWire' = ackWire \ ids
        /\ acked' = acked \cup ids
    /\ UNCHANGED <<datagramSequenceNumber, wire, received, nakWire, sends, lost>>

\* handleSession's ID_NAK case, through DatagramHelper.HandleNak.
ReceiveNak ==
    /\ \E ids \in (SUBSET nakWire) \ {{}} :
        /\ sentDatagrams' = HandleNak(sentDatagrams, DecodedNakRanges(ids))
        /\ nakWire' = nakWire \ ids
    /\ UNCHANGED <<datagramSequenceNumber, wire, received, ackWire, sends, lost,
                   acked>>

Next ==
    \/ SendPackage
    \/ TryResendPackets
    \/ LoseDatagram
    \/ PeerReceive
    \/ PeerNak
    \/ LoseReply
    \/ ReceiveAck
    \/ ReceiveNak

(* The ticker keeps firing; the peer and the network owe nothing.          *)
Spec == Init /\ [][Next]_vars /\ WF_vars(TryResendPackets)

-----------------------------------------------------------------------------

TypeOK ==
    /\ DOMAIN sentDatagrams \subseteq 1..datagramSequenceNumber
    /\ \A k \in DOMAIN sentDatagrams :
          /\ DOMAIN sentDatagrams[k] = {"age", "tries"}
          /\ sentDatagrams[k].age \in 0..Delay(RetryCap)
          /\ sentDatagrams[k].tries \in 0..RetryCap
    /\ datagramSequenceNumber \in 0..MaxSeq
    /\ wire \cup received \cup ackWire \cup nakWire \cup lost \cup acked \subseteq Seqs
    /\ DOMAIN sends = Seqs

(* The helper as the abstract tracker: a number it still holds is pending, *)
(* one it issued and no longer holds is done.                              *)
Pending == INSTANCE PendingDatagrams WITH
    MaxSends <- RetryCap + 1,
    status <- [s \in Seqs |->
                 IF s \in DOMAIN sentDatagrams THEN "pending"
                 ELSE IF s <= datagramSequenceNumber THEN "done"
                 ELSE "new"]

(* Every datagram SendPackage registers is sent at most three times (the  *)
(* first write and two retries of TryResendPackets), only while the helper *)
(* holds it, and never again once an ACK, a NAK or the retry cap removed   *)
(* it: the helper implements PendingDatagrams.                             *)
TrackerImplementsPending == Pending!Spec

(* Every datagram the session registers eventually leaves the helper,      *)
(* whatever the peer and the network do: TryResendPackets' back-off and    *)
(* retry cap bound how long a record is kept.                              *)
EveryDatagramResolved ==
    \A s \in Seqs :
        (s \in DOMAIN sentDatagrams) ~> (s \notin DOMAIN sentDatagrams)

(* A datagram whose ACK has reached the session is never transmitted      *)
(* again: the ACK is what tells the sender to stop retrying it.            *)
NoResendAfterAck ==
    [][\A s \in acked : sends'[s] = sends[s]]_vars

=============================================================================
