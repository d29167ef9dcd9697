----------------------------- MODULE DnsPacket -----------------------------
(***************************************************************************)
(* The wire format (dnspacket.cpp): what parse makes of the bytes of a     *)
(* packet, and the bytes serialize makes of that.  A byte is a number.  A  *)
(* parser takes the bytes and the position it starts at and returns a      *)
(* value and the position behind it.                                       *)
(*                                                                         *)
(* Packets are whole: no field is cut off by the end of the bytes, and a   *)
(* label has at most 63 bytes.  What the definitions say of others means   *)
(* nothing.                                                                *)
(***************************************************************************)
EXTENDS Integers, Sequences, SequencesExt

Bytes == 0 .. 255
Dot   == 46

Read16(s, p) == s[p] * 256 + s[p + 1]
Bytes16(v)   == <<v \div 256, v % 256>>

(* 32 bits are a pair of 16. *)
Read32(s, p) == <<Read16(s, p), Read16(s, p + 2)>>
Bytes32(v)   == Bytes16(v[1]) \o Bytes16(v[2])

-----------------------------------------------------------------------------
(* DomainName.  The text of a name is its labels, each with a dot behind it; *)
(* a compression pointer ends it and is kept as its two bytes.               *)

IsPointer(b) == b \div 64 = 3

ParseName(s, p) ==
    LET from[i \in Nat \ {0}] ==
            IF i > Len(s)           THEN [value |-> <<>>, next |-> i]
            ELSE IF IsPointer(s[i]) THEN [value |-> SubSeq(s, i, i + 1), next |-> i + 2]
            ELSE IF s[i] = 0        THEN [value |-> <<>>, next |-> i + 1]
            ELSE LET rest == from[i + s[i] + 1]
                 IN  [value |-> SubSeq(s, i + 1, i + s[i]) \o <<Dot>> \o rest.value,
                      next  |-> rest.next]
    IN  from[p]

(* The dot name.find('.', pos) returns: there is one behind every label. *)
DotFrom(text, i) ==
    CHOOSE j \in i .. Len(text) + 1 :
        /\ j <= Len(text) => text[j] = Dot
        /\ \A k \in i .. j - 1 : text[k] # Dot

(* Fault: a pointer is copied and the name goes on to its end. *)
SerializeName_EndsPointer(text) ==
    LET from[i \in Nat \ {0}] ==
            IF i > Len(text)           THEN <<0>>
            ELSE IF IsPointer(text[i]) THEN SubSeq(text, i, i + 1) \o <<0>>
            ELSE LET j == DotFrom(text, i)
                 IN  <<j - i>> \o SubSeq(text, i, j - 1) \o from[j + 1]
    IN  from[1]

SerializeName(text) ==
    LET from[i \in Nat \ {0}] ==
            IF i > Len(text)           THEN <<0>>
            ELSE IF IsPointer(text[i]) THEN SubSeq(text, i, i + 1)
            ELSE LET j == DotFrom(text, i)
                 IN  <<j - i>> \o SubSeq(text, i, j - 1) \o from[j + 1]
    IN  from[1]

-----------------------------------------------------------------------------
(* DnsHeader: the fields of the flag word are shifted out of it and back.    *)

ParseFlags(v) ==
    [qr     |-> v \div 32768, opcode |-> (v \div 2048) % 16,
     aa     |-> (v \div 1024) % 2, tc |-> (v \div 512) % 2,
     rd     |-> (v \div 256) % 2,  ra |-> (v \div 128) % 2,
     z      |-> (v \div 16) % 8,   rcode |-> v % 16]

(* Fault: z shifted by one bit too many. *)
SerializeFlags_Shifted(f) ==
    f.qr * 32768 + f.opcode * 2048 + f.aa * 1024 + f.tc * 512
        + f.rd * 256 + f.ra * 128 + f.z * 32 + f.rcode

SerializeFlags(f) ==
    f.qr * 32768 + f.opcode * 2048 + f.aa * 1024 + f.tc * 512
        + f.rd * 256 + f.ra * 128 + f.z * 16 + f.rcode

ParseHeader(s) ==
    [id |-> Read16(s, 1), flags |-> ParseFlags(Read16(s, 3)),
     qdcount |-> Read16(s, 5), ancount |-> Read16(s, 7),
     nscount |-> Read16(s, 9), arcount |-> Read16(s, 11)]

SerializeHeader(h) ==
    Bytes16(h.id) \o Bytes16(SerializeFlags(h.flags)) \o Bytes16(h.qdcount)
        \o Bytes16(h.ancount) \o Bytes16(h.nscount) \o Bytes16(h.arcount)

-----------------------------------------------------------------------------
ParseQuestion(s, p) ==
    LET n == ParseName(s, p)
    IN  [value |-> [qname |-> n.value, qtype |-> Read16(s, n.next),
                    qclass |-> Read16(s, n.next + 2)],
         next  |-> n.next + 4]

SerializeQuestion(q) == SerializeName(q.qname) \o Bytes16(q.qtype) \o Bytes16(q.qclass)

ParseRecord(s, p) ==
    LET n   == ParseName(s, p)
        len == Read16(s, n.next + 8)
    IN  [value |-> [name |-> n.value, type |-> Read16(s, n.next),
                    rclass |-> Read16(s, n.next + 2), ttl |-> Read32(s, n.next + 4),
                    rdata |-> SubSeq(s, n.next + 10, n.next + 9 + len)],
         next  |-> n.next + 10 + len]

SerializeRecord(r) ==
    SerializeName(r.name) \o Bytes16(r.type) \o Bytes16(r.rclass) \o Bytes32(r.ttl)
        \o Bytes16(Len(r.rdata)) \o r.rdata

(* n items one behind the other, from position p on. *)
ParseMany(One(_, _), n, s, p) ==
    LET upto[k \in 0 .. n] ==
            IF k = 0 THEN [value |-> <<>>, next |-> p]
            ELSE LET item == One(s, upto[k - 1].next)
                 IN  [value |-> Append(upto[k - 1].value, item.value), next |-> item.next]
    IN  upto[n]

Parse(s) ==
    LET h  == ParseHeader(s)
        qs == ParseMany(ParseQuestion, h.qdcount, s, 13)
        rs == ParseMany(ParseRecord, h.ancount + h.nscount + h.arcount, s, qs.next)
    IN  [header |-> h, questions |-> qs.value, rrs |-> rs.value]

SerializeSections(packet) ==
    FlattenSeq([k \in DOMAIN packet.questions |-> SerializeQuestion(packet.questions[k])])
        \o FlattenSeq([k \in DOMAIN packet.rrs |-> SerializeRecord(packet.rrs[k])])

Serialize(packet) == SerializeHeader(packet.header) \o SerializeSections(packet)
=============================================================================
