--------------------------- MODULE PacketReference ---------------------------
(***************************************************************************)
(* What an app's packets, the lines of /proc/net and the DNS messages that *)
(* are tried were made of, as the kernel and RFC 1035 have it.             *)
(***************************************************************************)
EXTENDS PacketsIn, FiniteSets

\* What handle_ip gets from an app. The length is that of the transport and its data.
Ip4Packet(protocol, ihl, length) ==
    [version |-> 4, length |-> 4 * ihl + length, tot_len |-> 4 * ihl + length,
     frag_off |-> 64, ihl |-> ihl, protocol |-> protocol]
Ip6Packet(protocol, chain, length) ==
    [version |-> 6, length |-> Ip6Hdr + 8 * Len(chain) + length, protocol |-> protocol, chain |-> chain]

\* A table of three lines, the line of another app and the line asked for among them.
Line(port, addr, rport, uid) == [port |-> port, addr |-> addr, rport |-> rport, uid |-> uid]
HexDigits == <<48, 49, 50, 51, 52, 53, 54, 55, 56, 57, 65, 66, 67, 68, 69, 70>>
Hex(bytes) == FlattenSeq([i \in 1 .. Len(bytes) |->
                 <<HexDigits[(bytes[i] \div 16) + 1], HexDigits[(bytes[i] % 16) + 1]>>])

\* A name of DNS is a sequence of labels.
Label == {<<97>>, <<98, 99>>}
DnsNames == {<<a>> : a \in Label} \cup {<<a, b>> : a \in Label, b \in {<<97>>}}
Text(name) == Front(FlattenSeq([i \in DOMAIN name |-> name[i] \o <<46>>]))
Encoded(name) == FlattenSeq([i \in DOMAIN name |-> <<Len(name[i])>> \o name[i]]) \o <<0>>
DnsQuestion(name) == Encoded(name) \o <<0, 1, 0, 1>>
QuestionName == <<192, DnsHdr>>
DnsAnswer(name, data) == name \o <<0, 1, 0, 1, 0, 0, 0, 9, 0, Len(data)>> \o data
=============================================================================
