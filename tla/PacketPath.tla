----------------------------- MODULE PacketPath -----------------------------
(***************************************************************************)
(* What the handlers do to the bytes of one query and of its answer: parse,*)
(* replace the id, serialize; and the SERVFAIL they make up when no answer *)
(* comes.  UdpRelay and TcpRelay model when they do it, to which task, and *)
(* stand for a question by a value; this module is about the bytes.        *)
(*                                                                         *)
(* A datagram and a TCP message take the same path; over TCP a length goes *)
(* in front, and it is the length of the message that was received.        *)
(***************************************************************************)
EXTENDS DnsPacket

CONSTANTS QueryNames,      \* names a client may ask for, on the wire
          QueryFlags,      \* flag words of queries
          AnswerFlags,     \* flag words of answers
          AnswerSections,  \* [an, ns, ar, records]: the counts and the records
          Ids,             \* ids of queries, and the indices the pool may give
          Garbage          \* what an uninitialised header may hold

Words == 0 .. 2^16 - 1

(* A whole name: W are where its labels begin, and its last byte. *)
IsName(name) ==
    /\ name \in Seq(Bytes)
    /\ \E W \in SUBSET DOMAIN name :
          /\ 1 \in W
          /\ \A i \in W : \/ name[i] = 0 /\ i = Len(name)
                          \/ name[i] \in 1 .. 63 /\ i + name[i] + 1 \in W

(* The text of a name leads back to a label when that has no dot in it and   *)
(* does not start with a byte that looks like a pointer.                     *)
PlainLabel(s, i) == ~IsPointer(s[i + 1]) /\ \A k \in i + 1 .. i + s[i] : s[k] # Dot

(* The name of a record, which may end in a pointer. *)
IsRecordName(name) ==
    /\ name \in Seq(Bytes)
    /\ \E W \in SUBSET DOMAIN name :
          /\ 1 \in W
          /\ \A i \in W : \/ name[i] = 0 /\ i = Len(name)
                          \/ IsPointer(name[i]) /\ i + 1 = Len(name)
                          \/ name[i] \in 1 .. 63 /\ i + name[i] + 1 \in W /\ PlainLabel(name, i)

(* A record: fields are its type, class and ttl.                             *)
IsRecord(r) ==
    /\ IsRecordName(r.name)
    /\ r.fields \in Seq(Bytes) /\ Len(r.fields) = 8
    /\ r.data \in Seq(Bytes) /\ Len(r.data) \in Words

(* Packets are well formed, and the names in records are plain: another one  *)
(* is changed as a query's is.                                               *)
ASSUME PacketAssumption ==
    /\ \A name \in QueryNames : IsName(name)
    /\ QueryFlags \subseteq Words /\ AnswerFlags \subseteq Words /\ Ids \subseteq Words
    /\ \A section \in AnswerSections :
          /\ section.an \in Words /\ section.ns \in Words /\ section.ar \in Words
          /\ DOMAIN section.records = 1 .. section.an + section.ns + section.ar
          /\ \A k \in DOMAIN section.records : IsRecord(section.records[k])
    /\ Garbage \subseteq [word : Words, qdcount : Words]

VARIABLES stage,      \* how far the query has come
          query,      \* the bytes of the client
          index,      \* what PutTask returned
          forwarded,  \* the bytes sent to the nameservers
          answer,     \* the bytes of a nameserver
          reply,      \* the bytes sent to the client
          prefix      \* the length put in front of the last message, over TCP

vars == <<stage, query, index, forwarded, answer, reply, prefix>>

(* Packets ask one question, of type A and class IN. *)
Question(name) == name \o Bytes16(1) \o Bytes16(1)

HeaderOf(id, v, an, ns, ar) ==
    Bytes16(id) \o Bytes16(v) \o Bytes16(1) \o Bytes16(an) \o Bytes16(ns) \o Bytes16(ar)

Query(id, v, name) == HeaderOf(id, v, 0, 0, 0) \o Question(name)

RecordBytes(r) == r.name \o r.fields \o Bytes16(Len(r.data)) \o r.data

SectionBytes(records) == FlattenSeq([k \in DOMAIN records |-> RecordBytes(records[k])])

Answer(id, v, name, section) ==
    HeaderOf(id, v, section.an, section.ns, section.ar) \o Question(name)
        \o SectionBytes(section.records)

(* The name a packet without records asks for. *)
NameIn(s) == SubSeq(s, 13, Len(s) - 4)

Behind(n, s) == SubSeq(s, n + 1, Len(s))

Init ==
    /\ stage = "new"
    /\ \E id \in Ids, v \in QueryFlags, name \in QueryNames : query = Query(id, v, name)
    /\ index \in Ids
    /\ forwarded = <<>> /\ answer = <<>> /\ reply = <<>>
    /\ prefix = 0

(* packet.header.id = id; packet.serialize(os). *)
WithId(packet, id) == Serialize([packet EXCEPT !.header.id = id])

Forward ==
    /\ stage = "new"
    /\ forwarded' = WithId(Parse(query), index)
    /\ prefix' = Len(query)
    /\ stage' = "forwarded"
    /\ UNCHANGED <<query, index, answer, reply>>

(* A nameserver answers a query whose name has arrived whole, under its id,  *)
(* with its question; or an answer comes that was late for the index's last  *)
(* task.                                                                     *)
NameserverAnswers ==
    /\ stage = "forwarded"
    /\ IsName(NameIn(forwarded))
    /\ \E v \in AnswerFlags, section \in AnswerSections,
          name \in {NameIn(forwarded)} \cup QueryNames :
          answer' = Answer(Read16(forwarded, 1), v, name, section)
    /\ stage' = "answered"
    /\ UNCHANGED <<query, index, forwarded, reply, prefix>>

(* Fault: only the types of the questions are compared. *)
SameQuestions_TypesOnly(p, q) ==
    [k \in DOMAIN p.questions |-> p.questions[k].qtype]
        = [k \in DOMAIN q.questions |-> q.questions[k].qtype]

(* if (packet.questions != task_ptr->query_packet.questions) return; *)
SameQuestions(p, q) == p.questions = q.questions

Relay ==
    LET packet == Parse(answer)
        task   == Parse(query)
    IN  /\ stage = "answered"
        /\ SameQuestions(packet, task)
        /\ reply' = WithId(packet, task.header.id)
        /\ prefix' = Len(answer)
        /\ stage' = "relayed"
        /\ UNCHANGED <<query, index, forwarded, answer>>

Refuse ==
    /\ stage = "answered"
    /\ ~SameQuestions(Parse(answer), Parse(query))
    /\ stage' = "forwarded"
    /\ answer' = <<>>
    /\ UNCHANGED <<query, index, forwarded, reply, prefix>>

(* Fault: qr stays clear. *)
Servfail_AsQuery(task, junk) ==
    [header |-> [id |-> task.header.id,
                 flags |-> [ParseFlags(junk.word) EXCEPT !.qr = 0, !.ra = 1, !.rcode = 2],
                 qdcount |-> junk.qdcount, ancount |-> 0, nscount |-> 0, arcount |-> 0],
     questions |-> task.questions,
     rrs |-> <<>>]

(* The header is declared without a value: what the handlers do not assign,  *)
(* qdcount among it, is whatever was in memory.                              *)
Servfail(task, junk) ==
    [header |-> [id |-> task.header.id,
                 flags |-> [ParseFlags(junk.word) EXCEPT !.qr = 1, !.ra = 1, !.rcode = 2],
                 qdcount |-> junk.qdcount, ancount |-> 0, nscount |-> 0, arcount |-> 0],
     questions |-> task.questions,
     rrs |-> <<>>]

TimeOut ==
    /\ stage = "forwarded"
    /\ \E junk \in Garbage :
          LET os == Serialize(Servfail(Parse(query), junk))
          IN  reply' = os /\ prefix' = Len(os)
    /\ stage' = "timedOut"
    /\ UNCHANGED <<query, index, forwarded, answer>>

Next == Forward \/ NameserverAnswers \/ Relay \/ Refuse \/ TimeOut

Spec == Init /\ [][Next]_vars

-----------------------------------------------------------------------------
(* Where the labels of the question begin, as a client means them.           *)
LabelStarts(s) ==
    LET from[i \in Nat \ {0}] ==
            IF i > Len(s) \/ s[i] = 0 THEN {} ELSE {i} \cup from[i + s[i] + 1]
    IN  from[13]

Plain(s) == \A i \in LabelStarts(s) : PlainLabel(s, i)

(* A name that changes its length: a byte that looks like a pointer begins a *)
(* label or follows a dot.                                                   *)
Shrinks(s) ==
    \E i \in LabelStarts(s) : \E k \in i + 1 .. i + s[i] :
        IsPointer(s[k]) /\ (k = i + 1 \/ s[k - 1] = Dot)

(* The nameserver gets the client's bytes, and the client the nameserver's,  *)
(* with nothing but the id replaced, whatever pointers, sections and flags   *)
(* the answer has: offsets of compression pointers stay valid.  (An answer   *)
(* whose name is not plain may have the text of a plain question.)           *)
Transparent ==
    Plain(query) =>
        /\ stage # "new" => forwarded = Bytes16(index) \o Behind(2, query)
        /\ stage = "relayed" /\ Plain(answer) => reply = SubSeq(query, 1, 2) \o Behind(2, answer)

(* The comparison of parsed questions is one of questions: a client is not   *)
(* sent the answer to another name, type or class, unless a name is not      *)
(* plain.                                                                    *)
OwnQuestionOnly ==
    stage = "relayed" /\ Plain(query) /\ Plain(answer) =>
        IsPrefix(Behind(12, query), Behind(12, answer))

(* The length in front of a forwarded TCP query, taken over from the message *)
(* that was received, is that of the message behind it: the handlers' shortcut*)
(* is right for every name but one that shrinks.                             *)
PrefixIsLength ==
    CASE stage = "forwarded" /\ ~Shrinks(query)                    -> prefix = Len(forwarded)
      [] stage \in {"relayed", "timedOut"} /\ ~Shrinks(query)      -> prefix = Len(reply)
      [] OTHER -> TRUE

(* A SERVFAIL says that it is a response, to which id, and that it failed,   *)
(* has no records, and carries the question, whatever the uninitialised      *)
(* fields held.                                                              *)
ServfailTellsFailure ==
    stage = "timedOut" /\ Plain(query) =>
        LET h == ParseHeader(reply)
        IN  /\ h.id = Read16(query, 1)
            /\ h.flags.qr = 1 /\ h.flags.ra = 1 /\ h.flags.rcode = 2
            /\ h.ancount = 0 /\ h.nscount = 0 /\ h.arcount = 0
            /\ Behind(12, reply) = Behind(12, query)
=============================================================================
