---------------------------- MODULE MCPacketPath ----------------------------
(* Names of up to two labels, among them one with a dot in it, one that      *)
(* starts with a byte of a pointer, and one that has such a byte after a dot;*)
(* answers with a pointer to the question, with a label before a pointer,    *)
(* with data that looks like a pointer, and with a record in each section.   *)
EXTENDS PacketPath

MCLabels == {<<97>>, <<98>>, <<98, 200>>, <<97, 46, 98>>, <<195, 169>>, <<97, 46, 200>>}
MCNames  == {<<0>>} \cup {<<Len(l)>> \o l \o <<0>> : l \in MCLabels}
            \cup {<<Len(l)>> \o l \o <<Len(m)>> \o m \o <<0>> : l, m \in MCLabels}

MCQueryFlags  == {0, 256, 288}
MCAnswerFlags == {33152, 33155, 65535}

ARecord(name, data) == [name |-> name, fields |-> <<0, 1, 0, 1, 0, 0, 14, 16>>, data |-> data]
Pointer == <<192, 12>>

MCSections ==
    {[an |-> 0, ns |-> 0, ar |-> 0, records |-> <<>>],
     [an |-> 1, ns |-> 0, ar |-> 0, records |-> <<ARecord(Pointer, <<192, 0, 2, 46>>)>>],
     [an |-> 1, ns |-> 1, ar |-> 1,
      records |-> <<ARecord(Pointer, Pointer), ARecord(<<2, 110, 115>> \o Pointer, <<>>),
                    ARecord(<<0>>, <<1, 0, 255>>)>>]}

MCGarbage == {[word |-> w, qdcount |-> n] : w \in {0, 30837, 65535}, n \in {0, 1, 65535}}
=============================================================================
