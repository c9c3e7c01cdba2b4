----------------------------- MODULE PacketsOut -----------------------------
(***************************************************************************)
(* The packets the VPN writes to the app, with their checksums (udp.c,     *)
(* tcp.c, icmp.c, util.c).  Bytes are a sequence of 0 .. 255; the          *)
(* processors Android runs on keep the low byte of a number first.         *)
(***************************************************************************)
EXTENDS Integers, Sequences

Zeros(n) == [i \in 1 .. n |-> 0]
High(n) == n \div 256
Low(n) == n % 256
Native16(n) == <<Low(n), High(n)>>
htons(n) == <<High(n), Low(n)>>

IpHdr == 20
Ip6Hdr == 40
UdpHdr == 8
TcpHdr == 20
IPPROTO_ICMP == 1
IPPROTO_TCP == 6
IPPROTO_UDP == 17
IPPROTO_ICMPV6 == 58
-----------------------------------------------------------------------------
\* Mutant: the carry of the last folding is lost.
FoldedOnce(sum) == ((sum % 65536) + (sum \div 65536)) % 65536

\* while (sum >> 16)
Folded(sum) ==
    LET fold[n \in Nat] == IF n < 65536 THEN n ELSE fold[(n % 65536) + (n \div 65536)]
    IN fold[sum]

\* while (len > 1). The sum of a packet's words fits its 32 bits.
SumOfWords(start, word, n) ==
    LET sum[k \in 0 .. n] == IF k = 0 THEN start ELSE sum[k - 1] + word[k]
    IN sum[n]

\* Words as the processor reads them, and a last byte by itself.
WordCount(buffer) == (Len(buffer) + 1) \div 2
NativeWords(buffer) ==
    [k \in 1 .. WordCount(buffer) |->
        buffer[2 * k - 1] + 256 * (IF 2 * k <= Len(buffer) THEN buffer[2 * k] ELSE 0)]

calc_checksum(start, buffer) ==
    Folded(SumOfWords(start, NativeWords(buffer), WordCount(buffer)))

Complement(sum) == Native16(65535 - sum)

\* Writes a checksum over the two bytes at i.
With(bytes, i, sum) == [bytes EXCEPT ![i] = sum[1], ![i + 1] = sum[2]]

\* The packet goes back: the session's destination is its source. Options, flags, the
\* identification and the fragment offset are 0.
Ip4Header(cur, protocol, len) ==
    LET total == IpHdr + len
        header == <<69, 0, High(total), Low(total), 0, 0, 0, 0, 64, protocol, 0, 0>>
                     \o cur.daddr \o cur.saddr
    IN With(header, 11, Complement(calc_checksum(0, header)))

Ip6Header(cur, protocol, len) ==
    <<96, 0, 0, 0, High(len), Low(len), protocol, 64>> \o cur.daddr \o cur.saddr

IpHeader(cur, protocol, len) ==
    IF cur.version = 4 THEN Ip4Header(cur, protocol, len) ELSE Ip6Header(cur, protocol, len)

\* In ip6_hdr_pseudo the length comes first of its four bytes; source and destination
\* change places, which a sum does not see.
Pseudo(cur, protocol, len) ==
    IF cur.version = 4 THEN cur.daddr \o cur.saddr \o <<0, protocol, High(len), Low(len)>>
    ELSE cur.saddr \o cur.daddr \o <<High(len), Low(len), 0, 0, 0, 0, 0, protocol>>

\* csum is continued over the header, its options and the data.
Summed(cur, protocol, header, options, data) ==
    LET len == Len(header) + Len(options) + Len(data)
        pseudo == calc_checksum(0, Pseudo(cur, protocol, len))
    IN calc_checksum(calc_checksum(calc_checksum(pseudo, header), options), data)

write_udp(cur, data) ==
    LET len == UdpHdr + Len(data)
        header == htons(cur.dest) \o htons(cur.source) \o htons(len) \o <<0, 0>>
        csum == Summed(cur, IPPROTO_UDP, header, <<>>, data)
    IN IpHeader(cur, IPPROTO_UDP, len) \o With(header, 7, Complement(csum)) \o data

\* MSS, window scale, end. The MSS is written as the processor keeps it.
SynOptions(cur) == <<2, 4, Low(cur.mss), High(cur.mss), 3, 3, cur.recv_scale, 0>>

\* Sequence numbers and flags are four and two bytes of the header here; TcpSession says
\* which.
write_tcp(cur, data, seq, ack_seq, flags, syn) ==
    LET options == IF syn THEN SynOptions(cur) ELSE <<>>
        header == htons(cur.dest) \o htons(cur.source) \o seq \o ack_seq
                     \o <<((TcpHdr + Len(options)) \div 4) * 16, flags>>
                     \o htons(cur.window) \o <<0, 0, 0, 0>>
        csum == Summed(cur, IPPROTO_TCP, header, options, data)
    IN IpHeader(cur, IPPROTO_TCP, Len(header) + Len(options) + Len(data))
          \o With(header, 17, Complement(csum)) \o options \o data

\* The pseudo header of a ping of version 6 ("Untested"): the length is that of the
\* message less 40, as the processor keeps it.
PingPseudo(cur, message) ==
    LET len == Len(message) - Ip6Hdr
    IN cur.daddr \o cur.saddr \o Native16(len % 65536)
          \o Native16(IF len < 0 THEN 65535 ELSE 0) \o Zeros(3) \o <<IPPROTO_ICMPV6>>

\* The reply of a ping, as check_icmp_socket passes it on: with the session's identifier
\* and a checksum of its own.
IcmpReply(cur, message) ==
    LET named == With(With(message, 5, cur.id), 3, <<0, 0>>)
        start == IF cur.version = 6 THEN calc_checksum(0, PingPseudo(cur, message)) ELSE 0
    IN With(named, 3, Complement(calc_checksum(start, named)))

write_icmp(cur, message) ==
    IpHeader(cur, IF cur.version = 4 THEN IPPROTO_ICMP ELSE IPPROTO_ICMPV6, Len(message)) \o message
=============================================================================
