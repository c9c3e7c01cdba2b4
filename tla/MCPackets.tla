------------------------------ MODULE MCPackets ------------------------------
(***************************************************************************)
(* What the receiver of a packet of PacketsOut makes of it, as RFC 791,    *)
(* 793, 768, 792 and 8200 have it, and the packets that are tried.  They   *)
(* are looked at where the walk over memories begins.                      *)
(***************************************************************************)
EXTENDS MCMemory, PacketsOut

\* Words in network order; a receiver accepts what sums up to ones only.
NetWords(bytes) ==
    [k \in 1 .. WordCount(bytes) |->
        256 * bytes[2 * k - 1] + IF 2 * k <= Len(bytes) THEN bytes[2 * k] ELSE 0]
SumOf(bytes) == SumOfWords(0, NetWords(bytes), WordCount(bytes))
Accepted(bytes) == SumOf(bytes) > 0 /\ SumOf(bytes) % 65535 = 0

Number(bytes, i) == 256 * bytes[i] + bytes[i + 1]
From(bytes, i) == SubSeq(bytes, i, Len(bytes))

\* The pseudo headers of RFC 768 and RFC 8200.
PseudoHeader(cur, protocol, len) ==
    IF cur.version = 4 THEN cur.daddr \o cur.saddr \o <<0, protocol, High(len), Low(len)>>
    ELSE cur.daddr \o cur.saddr \o <<0, 0, High(len), Low(len), 0, 0, 0, protocol>>

\* A packet to the app: its addresses and lengths, and the sums over its header and content.
Sealed(cur, pkt, protocol, hasPseudo) ==
    LET header == IF cur.version = 4 THEN IpHdr ELSE Ip6Hdr
        content == From(pkt, header + 1)
        pseudo == IF hasPseudo THEN PseudoHeader(cur, protocol, Len(content)) ELSE <<>>
    IN /\ IF cur.version = 4
          THEN /\ Accepted(SubSeq(pkt, 1, IpHdr)) /\ pkt[1] = 69 /\ Number(pkt, 3) = Len(pkt)
               /\ pkt[10] = protocol /\ SubSeq(pkt, 13, 20) = cur.daddr \o cur.saddr
          ELSE /\ pkt[1] = 96 /\ Number(pkt, 5) = Len(content) /\ pkt[7] = protocol
               /\ SubSeq(pkt, 9, 40) = cur.daddr \o cur.saddr
       /\ Accepted(pseudo \o content)

Session4(port) == [version |-> 4, saddr |-> <<10, 1, 10, 1>>, daddr |-> <<255, 255, 254, 3>>,
    source |-> port, dest |-> 65535, window |-> 65535, recv_scale |-> 7, mss |-> 1460,
    id |-> <<1, port % 256>>]
Session6(port) ==
    [Session4(port) EXCEPT !.version = 6, !.saddr = <<253>> \o Zeros(14) \o <<1>>,
                           !.daddr = [i \in 1 .. 16 |-> 255 - i]]

\* Among them words that make the sum carry twice: unsummed is the checksum that a
\* payload of zeros gets.
ShortPayloads == {<<>>, <<255>>, <<1, 2, 3>>}
TwoByteLoads == {<<a, b>> : a \in {0, 255}, b \in {0, 1, 127, 128, 254, 255}}
CarryingLoad(unsummed, k) == <<255, 255>> \o Native16((unsummed[1] + 256 * unsummed[2] + k) % 65536)
Payloads(unsummed) == ShortPayloads \cup TwoByteLoads \cup {CarryingLoad(unsummed, k) : k \in 0 .. 2}
UdpChecksum(cur, data) ==
    LET pkt == write_udp(cur, data)
        at == Len(pkt) - Len(data) - 1
    IN <<pkt[at], pkt[at + 1]>>
PingHeader == <<0, 0, 0, 0, 9, 9, 0, 1>>
PingLoads == {<<>>, <<255, 255>>, <<7, 8, 9>>}
Pings == {PingHeader \o payload : payload \in PingLoads}

Tried == {Session4(53), Session4(65280), Session6(53)}
LastSeq == <<255, 255, 255, 255>>
FirstAck == <<0, 1, 0, 0>>

SegmentsAreSealed(cur, data) ==
    /\ Sealed(cur, write_udp(cur, data), IPPROTO_UDP, TRUE)
    /\ \A syn \in BOOLEAN :
          Sealed(cur, write_tcp(cur, data, LastSeq, FirstAck, 16, syn), IPPROTO_TCP, TRUE)
ReplyIsSealed(cur, message) ==
    LET reply == IcmpReply(cur, message)
    IN Sealed(cur, write_icmp(cur, reply), IPPROTO_ICMP, FALSE) /\ SubSeq(reply, 5, 6) = cur.id

\* udp.c:432-545, tcp.c:984-1132, icmp.c:117-132 and 301-378: the app's receiver accepts
\* what the VPN writes to it: the lengths, the addresses, and the checksums, which the VPN
\* sums in the processor's order of bytes and the receiver in that of the network.
PacketsAreSealed ==
    FirstLook =>
        \A cur \in Tried :
            /\ \A data \in Payloads(UdpChecksum(cur, Zeros(4))) : SegmentsAreSealed(cur, data)
            /\ cur.version = 4 => \A message \in Pings : ReplyIsSealed(cur, message)
=============================================================================
