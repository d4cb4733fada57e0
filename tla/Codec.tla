------------------------------- MODULE Codec -------------------------------
(***************************************************************************)
(* The byte framing of packets/raknet: the integer fields of util.go, the  *)
(* flags and fields of an EncapsulatedPacketPart and the datagram header.  *)
(*                                                                         *)
(* A byte string is a sequence of integers in 0..255.  Readers follow      *)
(* bytes.Buffer: a read into a non-empty slice from an empty buffer gives  *)
(* io.EOF; otherwise it copies what is left and the bytes it could not     *)
(* fill stay zero, with no error.  A read's result is a record of its      *)
(* error ("none", "EOF" or the decoder's own), its value and the rest.     *)
(***************************************************************************)
EXTENDS Integers, Sequences

\* constants.go: the datagram types and the reliabilities.
ID_DATA_4 == 132
ID_DATA_C == 140

Unreliable == 0
UnreliableSequenced == 1
Reliable == 2
ReliableOrdered == 3
ReliableSequenced == 4
UnreliableWithAckReceipt == 5
ReliableWithAckReceipt == 6
ReliableOrderedWithAckReceipt == 7

-----------------------------------------------------------------------------
(* util.go                                                                 *)

\* The n bytes of v mod 2^(8n), most significant first (binary.BigEndian);
\* \div rounds down, so a negative v gives its two's complement bytes.
BigEndian(v, n) == [i \in 1..n |-> (v \div 2^(8 * (n - i))) % 256]

\* The n bytes of v mod 2^(8n), least significant first (int24.MarshalSLE).
LittleEndian(v, n) == [i \in 1..n |-> (v \div 2^(8 * (i - 1))) % 256]

RECURSIVE BigEndianValue(_)
BigEndianValue(bs) ==
    IF bs = <<>> THEN 0
    ELSE Head(bs) * 2^(8 * (Len(bs) - 1)) + BigEndianValue(Tail(bs))

RECURSIVE LittleEndianValue(_)
LittleEndianValue(bs) ==
    IF bs = <<>> THEN 0 ELSE Head(bs) + 256 * LittleEndianValue(Tail(bs))

(* A big- or little-endian byte string read as a two's complement        *)
(* integer: its most significant byte is signed (the TLC integers of 32    *)
(* bits would overflow on the unsigned value).                             *)
SignedByte(b) == IF b >= 128 THEN b - 256 ELSE b

SignedBigEndian(bs) ==
    SignedByte(Head(bs)) * 2^(8 * (Len(bs) - 1)) + BigEndianValue(Tail(bs))

SignedLittleEndian(bs) ==
    LittleEndianValue(SubSeq(bs, 1, Len(bs) - 1))
    + SignedByte(bs[Len(bs)]) * 2^(8 * (Len(bs) - 1))

WriteByte(b) == <<b % 256>>
WriteInt16(v) == BigEndian(v, 2)
WriteInt24(v) == LittleEndian(v, 3)
WriteInt32(v) == BigEndian(v, 4)

\* int16 arithmetic: the value an int16 expression wraps to.
Int16(x) == ((x + 32768) % 65536) - 32768

(* reader.Read(make([]byte, n)) on a bytes.Buffer holding buf: the first *)
(* n bytes, zero-filled past the end, and what is left.                    *)
Taken(buf, n) == [i \in 1..n |-> IF i <= Len(buf) THEN buf[i] ELSE 0]

Left(buf, n) == IF n < Len(buf) THEN SubSeq(buf, n + 1, Len(buf)) ELSE <<>>

ReadN(buf, n) ==
    IF buf = <<>> /\ n > 0
    THEN [err |-> "EOF", got |-> <<>>, rest |-> <<>>]
    ELSE [err |-> "none", got |-> Taken(buf, n), rest |-> Left(buf, n)]

\* A fixed-width read from an empty buffer.
EOFField == [err |-> "EOF", val |-> 0, rest |-> <<>>]

\* buf.ReadByte, ReadInt16, ReadInt24 and ReadInt32: reader.Read into a
\* slice of the width, then the slice's value.
ReadByte(buf) ==
    IF buf = <<>> THEN EOFField ELSE [err |-> "none", val |-> Head(buf), rest |-> Tail(buf)]

ReadInt16(buf) ==
    IF buf = <<>> THEN EOFField
    ELSE [err |-> "none", val |-> SignedBigEndian(Taken(buf, 2)), rest |-> Left(buf, 2)]

ReadInt24(buf) ==
    IF buf = <<>> THEN EOFField
    ELSE [err |-> "none", val |-> SignedLittleEndian(Taken(buf, 3)), rest |-> Left(buf, 3)]

ReadInt32(buf) ==
    IF buf = <<>> THEN EOFField
    ELSE [err |-> "none", val |-> SignedBigEndian(Taken(buf, 4)), rest |-> Left(buf, 4)]

-----------------------------------------------------------------------------
(* encapsulated_packet.go                                                  *)

\* reliabilityToFlags: byte(r << 5), with 16 set for a split part.
reliabilityToFlags(r, split) == ((r * 32) % 256) + (IF split THEN 16 ELSE 0)

\* decodeFlags: the reliability in the top three bits, the split bit 16.
decodeFlags(f) == [r |-> f \div 32, split |-> (f \div 16) % 2 = 1,
                   ok |-> 0 <= f \div 32 /\ f \div 32 <= 7]

\* The reliabilities Encode writes a reliability number for.
EncodeHasNumber(r) ==
    r \in {Reliable, ReliableOrdered, ReliableSequenced, ReliableWithAckReceipt,
           ReliableOrderedWithAckReceipt}

\* The reliabilities Encode writes an ordering index and channel for.
EncodeHasOrdering(r) ==
    r \in {UnreliableSequenced, ReliableOrdered, ReliableSequenced,
           ReliableOrderedWithAckReceipt}

(* EncapsulatedPacketPart.Encode: flags, the payload length in bits as     *)
(* int16, the 24-bit reliability number and ordering fields where the     *)
(* reliability has them, count, id and index when PartCount > 1, and the   *)
(* payload.                                                                *)
EncodePart(p) ==
    WriteByte(reliabilityToFlags(p.rel, p.count > 1))
    \o WriteInt16(Len(p.payload) * 8)
    \o (IF EncodeHasNumber(p.rel) THEN WriteInt24(p.rn) ELSE <<>>)
    \o (IF EncodeHasOrdering(p.rel) THEN WriteInt24(p.oi) \o WriteByte(p.oc)
        ELSE <<>>)
    \o (IF p.count > 1
        THEN WriteInt32(p.count) \o WriteInt16(p.id) \o WriteInt32(p.index)
        ELSE <<>>)
    \o p.payload

\* Mutant: the list without Reliable.
DecodeHasNumberNoReliable(r) ==
    r \in {ReliableOrdered, ReliableSequenced, ReliableWithAckReceipt,
           ReliableOrderedWithAckReceipt}

\* The reliabilities Decode reads a reliability number for.
DecodeHasNumber(r) ==
    r \in {Reliable, ReliableOrdered, ReliableSequenced, ReliableWithAckReceipt,
           ReliableOrderedWithAckReceipt}

\* The reliabilities Decode reads an ordering index and channel for.
DecodeHasOrdering(r) ==
    r \in {UnreliableSequenced, ReliableOrdered, ReliableSequenced,
           ReliableOrderedWithAckReceipt}

\* ceil(float64(ln) / 8) as an int, for any sign of ln.
CeilDiv8(ln) == -((-ln) \div 8)

Fail(e) == [err |-> e, part |-> <<>>, rest |-> <<>>]

\* The header fields Decode reads after the flags, in order, by reliability
\* and split bit.
DecodedFields(fl) ==
    <<"ln">>
    \o (IF DecodeHasNumber(fl.r) THEN <<"rn">> ELSE <<>>)
    \o (IF DecodeHasOrdering(fl.r) THEN <<"oi", "oc">> ELSE <<>>)
    \o (IF fl.split THEN <<"count", "id", "index">> ELSE <<>>)

\* The reader of each field: ReadInt16, ReadInt24, buf.ReadByte, ReadInt32.
ReadAs(buf, name) ==
    CASE name \in {"ln", "id"} -> ReadInt16(buf)
      [] name \in {"rn", "oi"} -> ReadInt24(buf)
      [] name = "oc"           -> ReadByte(buf)
      [] OTHER                 -> ReadInt32(buf)

\* The fields of a new EncapsulatedPacketPart: all zero.
ZeroFields == [f \in {"ln", "rn", "oi", "oc", "count", "id", "index"} |-> 0]

(* The reads of Decode in order, each returning its error at once; a     *)
(* field that is not read keeps its zero value.  ReadFieldsFrom continues  *)
(* with the result r of reading field name.                                *)
RECURSIVE ReadFields(_, _, _), ReadFieldsFrom(_, _, _, _)
ReadFields(buf, names, acc) ==
    IF names = <<>> THEN [err |-> "none", val |-> acc, rest |-> buf]
    ELSE ReadFieldsFrom(ReadAs(buf, Head(names)), Head(names), Tail(names), acc)

ReadFieldsFrom(r, name, names, acc) ==
    IF r.err # "none" THEN [err |-> r.err, val |-> acc, rest |-> <<>>]
    ELSE ReadFields(r.rest, names, [acc EXCEPT ![name] = r.val])

\* The part once its header h is read: a payload of ceil(ln / 8) bytes,
\* which may come back short and zero-filled.
PartWithPayload(fl, h, b) ==
    [err |-> b.err,
     part |-> [rel |-> fl.r, rn |-> h.rn, oi |-> h.oi, oc |-> h.oc,
               count |-> h.count, id |-> h.id, index |-> h.index,
               payload |-> b.got],
     rest |-> b.rest]

\* The part once its flags fl are decoded: a negative length is refused.
PartAfterHeader(fl, h) ==
    IF h.err # "none" THEN Fail(h.err)
    ELSE IF CeilDiv8(h.val.ln) < 0 THEN Fail("length")
    ELSE PartWithPayload(fl, h.val, ReadN(h.rest, CeilDiv8(h.val.ln)))

PartAfterFlags(f) ==
    IF f.err # "none" THEN Fail(f.err)
    ELSE IF ~decodeFlags(f.val).ok THEN Fail("flags")
    ELSE PartAfterHeader(decodeFlags(f.val),
                         ReadFields(f.rest, DecodedFields(decodeFlags(f.val)), ZeroFields))

(* EncapsulatedPacketPart.Decode: the flags, the header fields, then the  *)
(* payload; each read returns its error at once.                          *)
DecodePart(buf) == PartAfterFlags(ReadByte(buf))

-----------------------------------------------------------------------------
(* datagram.go                                                             *)

RECURSIVE EncodeParts(_)
EncodeParts(ps) == IF ps = <<>> THEN <<>> ELSE EncodePart(Head(ps)) \o EncodeParts(Tail(ps))

(* RakNetDatagram.Encode: the type, the 24-bit sequence number, then every *)
(* part of the payload.                                                    *)
EncodeDatagram(d) == WriteByte(d.type) \o WriteInt24(d.dsn) \o EncodeParts(d.parts)

(* The loop of RakNetDatagram.Decode: parts are read until one fails; an   *)
(* io.EOF ends the payload (wherever in the part it came), any other error *)
(* fails the datagram.  PartsFrom continues with the part ep just read.    *)
RECURSIVE DecodeParts(_, _), PartsFrom(_, _)
DecodeParts(buf, acc) == PartsFrom(DecodePart(buf), acc)

PartsFrom(ep, acc) ==
    IF ep.err = "EOF" THEN [err |-> "none", parts |-> acc]
    ELSE IF ep.err # "none" THEN [err |-> ep.err, parts |-> acc]
    ELSE DecodeParts(ep.rest, Append(acc, ep.part))

DatagramWith(type, dsn, ps) == [err |-> ps.err, type |-> type, dsn |-> dsn, parts |-> ps.parts]

DatagramAfterType(t) ==
    IF t.err # "none" THEN DatagramWith(0, 0, [err |-> t.err, parts |-> <<>>])
    ELSE LET dsn == ReadInt24(t.rest) IN
         IF dsn.err # "none" THEN DatagramWith(t.val, 0, [err |-> dsn.err, parts |-> <<>>])
         ELSE DatagramWith(t.val, dsn.val, DecodeParts(dsn.rest, <<>>))

\* RakNetDatagram.Decode: the type, the 24-bit sequence number, the parts.
DecodeDatagram(buf) == DatagramAfterType(ReadByte(buf))


-----------------------------------------------------------------------------
(* ack.go: RakNetAck.  A range is a record [min, max] of sequence numbers. *)

ID_ACK == 192

\* A range of two numbers is written as both ends after a 0, a single
\* number once after a 1.
EncodeRange(r) ==
    IF r.min # r.max THEN WriteByte(0) \o WriteInt24(r.min) \o WriteInt24(r.max)
    ELSE WriteByte(1) \o WriteInt24(r.min)

RECURSIVE EncodeRanges(_)
EncodeRanges(rs) == IF rs = <<>> THEN <<>> ELSE EncodeRange(Head(rs)) \o EncodeRanges(Tail(rs))

\* RakNetAck.Encode: the id, the number of ranges as int16, the ranges.
EncodeAck(ranges) == WriteByte(ID_ACK) \o WriteInt16(Len(ranges)) \o EncodeRanges(ranges)

AckFail(e) == [err |-> e, ranges |-> <<>>]

(* The loop of RakNetAck.Decode, n ranges still to read: a flag byte of 1  *)
(* is followed by one number, any other by two; a failed read returns its  *)
(* error at once.  RangeAfterFlag, SingleRange, RangeMin and RangeMax go   *)
(* on with the result of the read just made.                               *)
RECURSIVE DecodeRanges(_, _, _), RangeAfterFlag(_, _, _), SingleRange(_, _, _),
          RangeMin(_, _, _), RangeMax(_, _, _, _)
DecodeRanges(buf, n, acc) ==
    IF n <= 0 THEN [err |-> "none", ranges |-> acc]
    ELSE RangeAfterFlag(ReadByte(buf), n, acc)

RangeAfterFlag(s, n, acc) ==
    IF s.err # "none" THEN AckFail(s.err)
    ELSE IF s.val = 1 THEN SingleRange(ReadInt24(s.rest), n, acc)
    ELSE RangeMin(ReadInt24(s.rest), n, acc)

SingleRange(v, n, acc) ==
    IF v.err # "none" THEN AckFail(v.err)
    ELSE DecodeRanges(v.rest, n - 1, Append(acc, [min |-> v.val, max |-> v.val]))

RangeMin(v, n, acc) ==
    IF v.err # "none" THEN AckFail(v.err)
    ELSE RangeMax(v.val, ReadInt24(v.rest), n, acc)

RangeMax(lo, v, n, acc) ==
    IF v.err # "none" THEN AckFail(v.err)
    ELSE DecodeRanges(v.rest, n - 1, Append(acc, [min |-> lo, max |-> v.val]))

AckAfterCount(c) ==
    IF c.err # "none" THEN AckFail(c.err) ELSE DecodeRanges(c.rest, c.val, <<>>)

(* RakNetAck.Decode of what follows the id byte: the int16 count, then     *)
(* that many ranges.  These are the ranges it reads; what becomes of them  *)
(* (its value receiver drops them) is the caller's concern.                *)
DecodeAck(buf) == AckAfterCount(ReadInt16(buf))


-----------------------------------------------------------------------------
(* The offline and connection handshake packets (open_connection_*.go,    *)
(* unconnected_p*.go, connection_request.go) and the int64 and address     *)
(* fields of util.go.  An int64 is a record [hi, lo] of its two int32      *)
(* halves (TLC integers are 32 bits wide); a UDP address is [ip, port]     *)
(* with ip the bytes of net.IP, four or sixteen of them.                   *)

ID_UNCONNECTED_PING == 1
ID_OPEN_CONNECTION_REPLY_1 == 6
ID_OPEN_CONNECTION_REQUEST_2 == 7
ID_CONNECTION_REQUEST == 9
ID_UNCONNECTED_PONG == 28

MAGIC == <<0, 255, 255, 0, 254, 254, 254, 254, 253, 253, 253, 253, 18, 52, 86, 120>>

\* WriteInt64: binary.BigEndian.PutUint64 of uint64(val).
WriteInt64(v) == WriteInt32(v.hi) \o WriteInt32(v.lo)

\* ReadInt64: ReadUint64's 8-byte read, then int64(t).
ReadInt64(buf) ==
    IF buf = <<>> THEN [err |-> "EOF", val |-> [hi |-> 0, lo |-> 0], rest |-> <<>>]
    ELSE [err |-> "none",
          val |-> [hi |-> SignedBigEndian(SubSeq(Taken(buf, 8), 1, 4)),
                   lo |-> SignedBigEndian(SubSeq(Taken(buf, 8), 5, 8))],
          rest |-> Left(buf, 8)]

\* WriteString: the length as uint16, then the bytes.
WriteString(str) == WriteInt16(Len(str)) \o str

\* WriteUDPAddr: version 4, every byte of val.IP, the port as uint16.
WriteUDPAddr(a) == WriteByte(4) \o a.ip \o WriteInt16(a.port)

\* The address ReadUDPAddr returns when its first read fails.
DefaultAddr == [ip |-> <<127, 0, 0, 1>>, port |-> 19312]

AddrWithPort(ip, p) == [err |-> p.err, val |-> [ip |-> ip, port |-> p.val], rest |-> p.rest]

\* Mutant: the version byte taken for the first IP byte.
ReadUDPAddrNoVersion(buf) ==
    IF buf = <<>> THEN [err |-> "EOF", val |-> DefaultAddr, rest |-> <<>>]
    ELSE AddrWithPort(Taken(buf, 4), ReadInt16(Left(buf, 4)))

(* ReadUDPAddr: a 5-byte read (version and four IP bytes), then the port  *)
(* as int16, so a port above 32767 comes back negative.                    *)
ReadUDPAddr(buf) ==
    IF buf = <<>> THEN [err |-> "EOF", val |-> DefaultAddr, rest |-> <<>>]
    ELSE AddrWithPort(SubSeq(Taken(buf, 5), 2, 5), ReadInt16(Left(buf, 5)))

\* The 16-byte magic read of the offline Decodes: the Read's own error is
\* dropped, and a short or different read fails the comparison.
MagicRead(buf) == IF Taken(buf, 16) = MAGIC THEN "none" ELSE "magic"

\* RakNetUnconnectedPing.Encode and Decode (of what follows the id).
EncodeUnconnectedPing(p) == WriteByte(ID_UNCONNECTED_PING) \o WriteInt64(p.pingId) \o MAGIC

DecodeUnconnectedPing(buf) ==
    [err |-> ReadInt64(buf).err, pingId |-> ReadInt64(buf).val]

\* RakNetUnconnectedPong.Encode.
EncodeUnconnectedPong(p) ==
    WriteByte(ID_UNCONNECTED_PONG) \o WriteInt64(p.pingId) \o WriteInt64(p.serverId)
    \o MAGIC \o WriteString(p.name)

\* RakNetOpenConnectionReply1.Encode.
EncodeOCReply1(p) ==
    WriteByte(ID_OPEN_CONNECTION_REPLY_1) \o MAGIC \o WriteInt64(p.guid)
    \o WriteByte(p.secure) \o WriteInt16(p.mtu)

Reply1Fail(e) == [err |-> e, guid |-> [hi |-> 0, lo |-> 0], secure |-> 0, mtu |-> 0]

(* RakNetOpenConnectionReply1.Decode: the magic, then GUID, Secure and    *)
(* MTU, returning at the first error with the packet left unset.           *)
Reply1WithMtu(g, s, m) ==
    IF m.err # "none" THEN Reply1Fail(m.err)
    ELSE [err |-> "none", guid |-> g, secure |-> s, mtu |-> m.val]

Reply1AfterSecure(g, s) ==
    IF s.err # "none" THEN Reply1Fail(s.err) ELSE Reply1WithMtu(g, s.val, ReadInt16(s.rest))

Reply1AfterGuid(g) ==
    IF g.err # "none" THEN Reply1Fail(g.err) ELSE Reply1AfterSecure(g.val, ReadByte(g.rest))

DecodeOCReply1(buf) ==
    IF MagicRead(buf) # "none" THEN Reply1Fail("magic")
    ELSE Reply1AfterGuid(ReadInt64(Left(buf, 16)))

\* RakNetOpenConnectionRequest2.Encode.
EncodeOCR2(p) ==
    WriteByte(ID_OPEN_CONNECTION_REQUEST_2) \o MAGIC \o WriteUDPAddr(p.addr)
    \o WriteInt16(p.mtu) \o WriteInt64(p.guid)

Request2Fail(e) == [err |-> e, addr |-> DefaultAddr, mtu |-> 0, guid |-> [hi |-> 0, lo |-> 0]]

(* RakNetOpenConnectionRequest2.Decode: the magic, the client's address,  *)
(* MTU and GUID, returning at the first error with the packet left unset.  *)
Request2WithGuid(a, m, g) ==
    IF g.err # "none" THEN Request2Fail(g.err)
    ELSE [err |-> "none", addr |-> a, mtu |-> m, guid |-> g.val]

Request2AfterMtu(a, m) ==
    IF m.err # "none" THEN Request2Fail(m.err) ELSE Request2WithGuid(a, m.val, ReadInt64(m.rest))

Request2AfterAddr(a) ==
    IF a.err # "none" THEN Request2Fail(a.err) ELSE Request2AfterMtu(a.val, ReadInt16(a.rest))

DecodeOCR2(buf) ==
    IF MagicRead(buf) # "none" THEN Request2Fail("magic")
    ELSE Request2AfterAddr(ReadUDPAddr(Left(buf, 16)))

\* RakNetConnectionRequest.Encode.
EncodeConnectionRequest(p) ==
    WriteByte(ID_CONNECTION_REQUEST) \o WriteInt64(p.guid) \o WriteInt64(p.timestamp)
    \o WriteByte(p.security)

(* RakNetConnectionRequest.Decode: three reads whose errors overwrite one *)
(* another, so only the last read's error is returned; every field is set *)
(* from what its read gave.                                                *)
RequestWithSecurity(g, t, s) ==
    [err |-> s.err, guid |-> g, timestamp |-> t, security |-> s.val]

RequestAfterTimestamp(g, t) == RequestWithSecurity(g, t.val, ReadByte(t.rest))

RequestAfterGuid(g) == RequestAfterTimestamp(g.val, ReadInt64(g.rest))

DecodeConnectionRequest(buf) == RequestAfterGuid(ReadInt64(buf))

=============================================================================
