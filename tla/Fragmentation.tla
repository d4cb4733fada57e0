---------------------------- MODULE Fragmentation ----------------------------
(***************************************************************************)
(* Splitting and reassembly of RakNet packages.                            *)
(*                                                                         *)
(* Sending (packets/raknet/datagram.go, encapsulated_packet.go): a         *)
(* package is cut by sliceBytes into slices of maxDataSize = mtu - 60      *)
(* bytes, each becomes an EncapsulatedPacketPart with the next reliability *)
(* number, and CreateDatagrams packs the encoded parts into datagrams,     *)
(* each with the next datagram sequence number.  Bytes are abstracted to   *)
(* their offsets: a part carries the range [s, e) of the package.          *)
(*                                                                         *)
(* Receiving (packets/raknet/split_packet_helper.go): the parts of a split *)
(* package a peer sends arrive in any order, duplicated or not at all, and *)
(* AcceptSplitPacket collects them by PartId until every slot is filled;   *)
(* GarbageCollect drops compositions whose second has passed.             *)
(*                                                                         *)
(* Both sides go through the byte encoding of Codec.tla: the sizes that   *)
(* CreateDatagrams compares are those of the encoded parts, and the peer's *)
(* datagrams reach AcceptSplitPacket through RakNetDatagram.Decode.        *)
(***************************************************************************)
EXTENDS Integers, Sequences, FiniteSets, Codec

CONSTANTS
    Mtu,            \* the session's MTU (int16, from OpenConnectionRequest2)
    PkgLens,        \* lengths of the encoded packages SendPackage is given
    MaxSends,       \* SendPackage calls in a behaviour
    PeerPkgs,       \* split packages the peer sends
    PartCountOf,    \* PartCountOf[p]: parts of peer package p
    SplitIdOf,      \* SplitIdOf[p]: the PartId the peer gave p
    PeerRelOf,      \* PeerRelOf[p]: the reliability the peer sends p with
    PeerBudget,     \* how many datagrams the peer sends at most
    None

VARIABLES
    rn,             \* reliabilityNumber (last issued)
    dsn,            \* datagramSequenceNumber (last issued)
    written,        \* datagrams SendPackage wrote
    results,        \* history: each SendPackage call's length and outcome
    wire,           \* the peer's datagrams (bytes) still in flight
    comps,          \* SplitPacketHandler.splitPackets: PartId -> slots
    delivered,      \* history: reassembled packages handed on
    peerSent,       \* history: how many datagrams the peer sent
    dropped         \* history: packages a lost part or a collection spoiled

vars == <<rn, dsn, written, results, wire, comps, delivered, peerSent, dropped>>
senderVars == <<rn, dsn, written, results>>
receiverVars == <<wire, comps, delivered, peerSent, dropped>>

\* CreateDatagrams: mtu - 60, computed in int16.
maxDataSize == Int16(Mtu - 60)

(* sliceBytes: ceil(len / size) slices of size bytes, the last one short.  *)
(* For size <= 0 the float quotient is infinite, NaN or negative and the   *)
(* amd64 conversion to int makes the count negative: no slices.            *)
sliceBytes(len, size) ==
    IF size <= 0 THEN <<>>
    ELSE [i \in 1..((len + size - 1) \div size) |->
            [s |-> (i - 1) * size,
             e |-> IF i * size > len THEN len ELSE i * size]]

(* EncapsulatePacket: every slice becomes a Reliable part with the next    *)
(* reliability number, the part count, its index and, when split, a       *)
(* PartId (rand.Int31n truncated to int16; here the id 1).  A byte of the *)
(* package is represented by its offset, mod 256; s and e keep the range. *)
EncapsulatePacket(rn0, len) ==
    LET sl == sliceBytes(len, maxDataSize) IN
    [i \in 1..Len(sl) |->
        [rel |-> Reliable, rn |-> rn0 + i, oi |-> 0, oc |-> 0,
         count |-> Len(sl), index |-> i - 1,
         id |-> IF Len(sl) > 1 THEN 1 ELSE 0,
         payload |-> [j \in 1..sl[i].e - sl[i].s |-> (sl[i].s + j - 1) % 256],
         s |-> sl[i].s, e |-> sl[i].e]]

\* thisPktBuf.Len() once the part is encoded into it.
EncodedSize(p) == Len(EncodePart(p))

(* The packing loop of CreateDatagrams over parts ps from the i-th on:     *)
(* a part that alone exceeds maxDataSize fails the call; one that does not *)
(* fit the current datagram closes it and opens the next (curSz goes back  *)
(* to 0, not to the part's size).  Payload entries are &p, the address of *)
(* the loop variable, so every entry is the part the loop ends on.         *)
RECURSIVE Pack(_, _, _, _, _, _)
Pack(ps, i, curSz, cur, curDsn, done) ==
    IF i > Len(ps)
    THEN [err |-> FALSE, dsn |-> curDsn,
          datagrams |-> Append(done, [dsn |-> curDsn, parts |-> cur])]
    ELSE LET sz == EncodedSize(ps[i]) IN
         IF sz > maxDataSize
         THEN [err |-> TRUE, dsn |-> curDsn, datagrams |-> <<>>]
         ELSE IF curSz + sz > maxDataSize
         THEN Pack(ps, i + 1, 0, <<i>>, curDsn + 1,
                   Append(done, [dsn |-> curDsn, parts |-> cur]))
         ELSE Pack(ps, i + 1, curSz + sz, Append(cur, i), curDsn, done)

(* The entries of every datagram resolved to the part the loop ended on,  *)
(* and the type: ID_DATA_C when the package was split, ID_DATA_4 if not.  *)
Aliased(ps, ds) ==
    [j \in 1..Len(ds) |->
        [type |-> IF Len(ps) > 1 THEN ID_DATA_C ELSE ID_DATA_4,
         dsn |-> ds[j].dsn,
         parts |-> [k \in 1..Len(ds[j].parts) |-> ps[Len(ps)]]]]

(* CreateDatagrams: the first sequence number is taken before anything     *)
(* else, the reliability numbers when the parts are made.                  *)
CreateDatagrams(rn0, dsn0, len) ==
    LET ps == EncapsulatePacket(rn0, len)
        r == Pack(ps, 1, 0, <<>>, dsn0 + 1, <<>>)
    IN [err |-> r.err, rn |-> rn0 + Len(ps), dsn |-> r.dsn,
        datagrams |-> Aliased(ps, r.datagrams)]

\* The offsets of the package the datagrams carry.
Covered(ds) ==
    UNION {UNION {ds[j].parts[k].s .. ds[j].parts[k].e - 1 :
                    k \in 1..Len(ds[j].parts)} : j \in 1..Len(ds)}

-----------------------------------------------------------------------------
(* The receiving side.                                                     *)

(* The part the peer sends as index i of its split package p: a one-byte *)
(* payload, reliability number i + 1 and, when ordered, ordering index     *)
(* i + 1, so that a field read from the wrong place shows.                 *)
PeerPart(p, i) ==
    [rel |-> PeerRelOf[p], rn |-> i + 1,
     oi |-> IF PeerRelOf[p] = ReliableOrdered THEN i + 1 ELSE 0, oc |-> 0,
     count |-> PartCountOf[p], id |-> SplitIdOf[p], index |-> i,
     payload |-> <<i>>]

PeerParts == UNION {{PeerPart(p, i) : i \in 0..PartCountOf[p] - 1} : p \in PeerPkgs}

\* A malformed part: its index is not below its count.
BogusParts == {PeerPart(p, PartCountOf[p]) : p \in PeerPkgs}

\* The datagram the peer sends a part in, as bytes.
PeerDatagram(part) == EncodeDatagram([type |-> ID_DATA_C, dsn |-> 0, parts |-> <<part>>])

\* The datagram of every part the peer may send (a constant, computed once).
PeerWire == [part \in PeerParts \cup BogusParts |-> PeerDatagram(part)]

\* newSplitPacketComposition: n empty slots.
NewComposition(n) == [k \in 1..n |-> None]

Init ==
    /\ rn = 0
    /\ dsn = 0
    /\ written = <<>>
    /\ results = <<>>
    /\ wire = {}
    /\ comps = [id \in {} |-> None]
    /\ delivered = {}
    /\ peerSent = 0
    /\ dropped = {}

(* Session.SendPackage: CreateDatagrams, and on success every datagram is *)
(* written (RegisterDatagram, modelled in DatagramHelper, is left out).    *)
(* The counters CreateDatagrams advanced stay advanced on an error.        *)
SendPackage ==
    /\ Len(results) < MaxSends
    /\ \E len \in PkgLens :
          LET r == CreateDatagrams(rn, dsn, len) IN
          /\ rn' = r.rn
          /\ dsn' = r.dsn
          /\ written' = IF r.err THEN written ELSE written \o r.datagrams
          /\ results' = Append(results, [len |-> len, err |-> r.err,
                                          covered |-> Covered(r.datagrams)])
    /\ UNCHANGED receiverVars

(* The peer sends, or resends, a part of one of its split packages, or a  *)
(* malformed one, within its budget of PeerBudget datagrams.              *)
PeerSend ==
    /\ peerSent < PeerBudget
    /\ \E part \in PeerParts \cup BogusParts :
          /\ PeerWire[part] \notin wire
          /\ wire' = wire \cup {PeerWire[part]}
          /\ peerSent' = peerSent + 1
    /\ UNCHANGED <<senderVars, comps, delivered, dropped>>

\* The datagrams of p's parts (malformed ones aside).
PeerBytes(p) == {PeerWire[PeerPart(p, i)] : i \in 0..PartCountOf[p] - 1}

\* UDP loses a datagram.
LosePart ==
    /\ \E bytes \in wire :
          /\ wire' = wire \ {bytes}
          /\ dropped' = dropped \cup {p \in PeerPkgs : bytes \in PeerBytes(p)}
    /\ UNCHANGED <<senderVars, comps, delivered, peerSent>>

\* Mutant: the part saved one slot too low.
SavedOffByOne(slots, pkt) == [slots EXCEPT ![pkt.index] = pkt]

\* Mutant: the part is stored into a copy of the composition.
SavedInCopy(slots, pkt) == slots

\* allSplit.packets[pkt.PartIndex] = &pkt (slots count from 1 here).
Saved(slots, pkt) == [slots EXCEPT ![pkt.index + 1] = pkt]

\* Mutant: the completeness loop stops before the last slot.
CompleteButLast(slots) == \A k \in 1..Len(slots) - 1 : slots[k] # None

\* The loop over allSplit.packets: no slot is nil.
Complete(slots) == \A k \in 1..Len(slots) : slots[k] # None

(* AcceptSplitPacket on the compositions cs, under the handler's lock.  A *)
(* new PartId gets a composition of PartCount slots unless the index is   *)
(* not below the count; an index beyond the composition's slots is        *)
(* ignored; the part fills its slot, and once no slot is empty the        *)
(* composition is removed and returned (all), its parts in slot order.    *)
AcceptSplitPacket(cs, pkt) ==
    LET known == pkt.id \in DOMAIN cs
        slots == IF known THEN cs[pkt.id] ELSE NewComposition(pkt.count)
        filled == Saved(slots, pkt)
    IN
    IF (~known /\ pkt.index >= pkt.count) \/ pkt.index >= Len(slots)
    THEN [comps |-> cs, all |-> None]
    ELSE IF Complete(filled)
    THEN [comps |-> [id \in DOMAIN cs \ {pkt.id} |-> cs[id]], all |-> filled]
    ELSE [comps |-> [id \in DOMAIN cs \cup {pkt.id} |->
                       IF id = pkt.id THEN filled ELSE cs[id]],
          all |-> None]

\* The values of a sequence.
Range(f) == {f[k] : k \in DOMAIN f}

(* The loop of Session.handleDatagram over the decoded parts: a part with *)
(* PartCount > 1 goes to AcceptSplitPacket, and a completed package is    *)
(* handed on (dispatchData); an unsplit part goes to dispatchData as it  *)
(* is, and is not recorded (the peer here sends split packages only).    *)
RECURSIVE HandleParts(_, _, _)
HandleParts(ps, cs, out) ==
    IF ps = <<>> THEN [comps |-> cs, delivered |-> out]
    ELSE IF Head(ps).count > 1
    THEN LET r == AcceptSplitPacket(cs, Head(ps)) IN
         HandleParts(Tail(ps), r.comps,
                     IF r.all = None THEN out ELSE out \cup {r.all})
    ELSE HandleParts(Tail(ps), cs, out)

(* Session.handleDatagram (and SessionConnector.handleDatagram alike):    *)
(* RakNetDatagram.Decode, which on an error returns at once, then the     *)
(* loop over the parts.                                                    *)
\* The receiver's state after the parts loop returned r.
Handled(r) == comps' = r.comps /\ delivered' = r.delivered

Received(d) ==
    IF d.err # "none" THEN UNCHANGED <<comps, delivered>>
    ELSE Handled(HandleParts(d.parts, comps, delivered))

(* RakNetDatagram.Decode of every datagram the peer may send, as a table  *)
(* TLC computes once (the wire holds nothing else).                        *)
WireDecoded == [bytes \in Range(PeerWire) |-> DecodeDatagram(bytes)]

ReceivePart ==
    /\ \E bytes \in wire :
          /\ wire' = wire \ {bytes}
          /\ Received(WireDecoded[bytes])
    /\ UNCHANGED <<senderVars, peerSent, dropped>>

(* GarbageCollect on the fast tick: a composition whose second has passed  *)
(* is deleted; how long ago it was made is left open.                      *)
GarbageCollect ==
    /\ \E id \in DOMAIN comps :
          /\ comps' = [k \in DOMAIN comps \ {id} |-> comps[k]]
          /\ dropped' = dropped \cup {p \in PeerPkgs : SplitIdOf[p] = id}
    /\ UNCHANGED <<senderVars, wire, delivered, peerSent>>

Next == SendPackage \/ PeerSend \/ LosePart \/ ReceivePart \/ GarbageCollect

(* The session goroutine takes whatever the listener queued: the select   *)
(* in Session.handleSession reads processQueue whenever it holds one.     *)
(* The peer, the network and the collector owe nothing. This is weak      *)
(* fairness of ReceivePart, <>[]ENABLED => []<><<ReceivePart>>_vars,       *)
(* written out: every branch of Received assigns comps and delivered and   *)
(* the datagram leaves the wire, so ReceivePart is enabled exactly when    *)
(* the wire is not empty.                                                   *)
ReceiveFairness == []<>(wire = {}) \/ []<><<ReceivePart>>_vars

Spec == Init /\ [][Next]_vars /\ ReceiveFairness

-----------------------------------------------------------------------------

TypeOK ==
    /\ rn \in Nat /\ dsn \in Nat
    /\ dropped \subseteq PeerPkgs
    /\ Len(results) <= MaxSends
    /\ \A r \in Range(results) : r.covered \subseteq 0..r.len - 1
    /\ \A id \in DOMAIN comps : \A k \in 1..Len(comps[id]) :
          comps[id][k] = None \/ comps[id][k].index = k - 1

\* Package p as the receiver hands it on: its parts in index order.
Whole(p) == [k \in 1..PartCountOf[p] |-> PeerPart(p, k - 1)]

(* Every package the receiver hands on is exactly one package the peer     *)
(* split, its parts in index order, however the parts were reordered,      *)
(* duplicated or lost, malformed parts were mixed in, or compositions were *)
(* collected half full.                                                    *)
ReassembledIntact ==
    \A d \in delivered :
        \E p \in PeerPkgs : d = Whole(p)

\* Part k of p is held in the composition under p's PartId.
Held(p, k) ==
    /\ SplitIdOf[p] \in DOMAIN comps
    /\ k < Len(comps[SplitIdOf[p]])
    /\ comps[SplitIdOf[p]][k + 1] = PeerPart(p, k)

\* Every part of p is held or on its way to the session.
Deliverable(p) ==
    \A k \in 0..PartCountOf[p] - 1 : Held(p, k) \/ PeerWire[PeerPart(p, k)] \in wire

(* Once every part of a split package is held in its composition or on   *)
(* its way to the session, the package is eventually handed on, unless   *)
(* UDP lost one of its parts or GarbageCollect dropped its composition   *)
(* (before or after): the                                                  *)
(* reassembly of AcceptSplitPacket and handleDatagram's loop make         *)
(* progress, whatever order the parts come in and whatever duplicates and *)
(* malformed parts come between them.                                      *)
PackageDelivered ==
    \A p \in PeerPkgs : Deliverable(p) ~> (Whole(p) \in delivered \/ p \in dropped)

(* What a peer decodes from a Reliable part: its number, no ordering     *)
(* fields, the split fields only when split (zero otherwise), the payload. *)
Readable(p) ==
    [rel |-> p.rel, rn |-> p.rn, oi |-> 0, oc |-> 0,
     count |-> IF p.count > 1 THEN p.count ELSE 0,
     id |-> IF p.count > 1 THEN p.id ELSE 0,
     index |-> IF p.count > 1 THEN p.index ELSE 0,
     payload |-> p.payload]

\* d, decoded, is the datagram w was made from.
ReadsBackAs(d, w) ==
    /\ d.err = "none" /\ d.type = w.type /\ d.dsn = w.dsn
    /\ d.parts = [k \in DOMAIN w.parts |-> Readable(w.parts[k])]

(* Every datagram SendPackage writes reads back, through the encoding of  *)
(* RakNetDatagram.Encode and EncapsulatedPacketPart.Encode and the        *)
(* decoder of datagram.go, as the type, sequence number and parts it was   *)
(* made from: the two sides agree on which fields each reliability and a   *)
(* split carry, their widths and byte order, and the length in bits.      *)
WrittenDecodes ==
    [][\A j \in Len(written) + 1 .. Len(written') :
          ReadsBackAs(DecodeDatagram(EncodeDatagram(written'[j])), written'[j])]_vars

(* CreateDatagrams splits as needed: every package SendPackage is given is *)
(* sent, its datagrams carrying each of its bytes ("Creates datagrams to   *)
(* send ... Splits as needed", datagram.go).                               *)
SplitsAsNeeded ==
    \A i \in 1..Len(results) :
        ~results[i].err /\ results[i].covered = 0..results[i].len - 1

=============================================================================
