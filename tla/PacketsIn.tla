----------------------------- MODULE PacketsIn ------------------------------
(***************************************************************************)
(* What the VPN reads of a packet of the app: its headers (handle_ip in    *)
(* ip.c), the app it is from (get_uid in ip.c) and the names in a DNS      *)
(* message (dns.c).  Headers and protocols are those of PacketsOut.        *)
(***************************************************************************)
EXTENDS PacketsOut, SequencesExt

CONSTANT QnameMax  \* DNS_QNAME_MAX, one less than the values of its uint8_t offset

ASSUME PacketAssumption == QnameMax \in Nat \ {0}

IcmpHdr == 28   \* sizeof(struct icmp), all its variants
-----------------------------------------------------------------------------
\* handle_ip up to the sessions. A packet of the app: what its headers say, and its length.

is_lower_layer(protocol) == protocol \in {0, 43, 44, 50, 51, 60, 135}
is_upper_layer(protocol) == protocol \in {IPPROTO_TCP, IPPROTO_UDP, IPPROTO_ICMP, IPPROTO_ICMPV6}

NoHandler == -1
Dropped == [to |-> NoHandler, payload |-> 0]

\* IP_MF is looked for without ntohs: that bit is in the low byte of the fragment offset.
SeemsFragment(pkt) == (pkt.frag_off \div 32) % 2 = 1

\* Only a checksum of zero would be wrong, which no header has.
Ip4Payload(pkt) ==
    IF pkt.length < IpHdr \/ SeemsFragment(pkt) \/ pkt.tot_len # pkt.length THEN Dropped
    ELSE [to |-> pkt.protocol, payload |-> IpHdr + (((pkt.ihl - 5) * 4) % 256)]

\* The loop over the extension headers, each of eight bytes: chain is what follows each.
\* It goes on while a lower layer follows, so it does not get to an upper one.
RECURSIVE SkipExtensions(_, _, _)
SkipExtensions(protocol, chain, off) ==
    IF chain # <<>> /\ is_lower_layer(Head(chain)) /\ ~is_upper_layer(protocol)
    THEN SkipExtensions(Head(chain), Tail(chain), off + 8)
    ELSE [protocol |-> protocol, off |-> off]

Ip6Payload(pkt) ==
    LET last == IF is_upper_layer(pkt.protocol) THEN [protocol |-> pkt.protocol, off |-> 0]
                ELSE SkipExtensions(pkt.protocol, pkt.chain, Ip6Hdr)
    IN IF pkt.length < Ip6Hdr THEN Dropped
       ELSE IF is_upper_layer(last.protocol)
            THEN [to |-> last.protocol, payload |-> Ip6Hdr + last.off]
            ELSE [to |-> pkt.protocol, payload |-> Ip6Hdr]

\* The transport header it needs there.
Needed(protocol) ==
    CASE protocol \in {IPPROTO_ICMP, IPPROTO_ICMPV6} -> IcmpHdr
      [] protocol = IPPROTO_UDP -> UdpHdr
      [] protocol = IPPROTO_TCP -> TcpHdr

\* The handler it goes to and where its payload begins. (The header length is that of a
\* packet of the kernel: the payload begins inside the packet.)
handle_ip(pkt) ==
    LET read == CASE pkt.version = 4 -> Ip4Payload(pkt)
                  [] pkt.version = 6 -> Ip6Payload(pkt)
                  [] OTHER -> Dropped
    IN IF ~is_upper_layer(read.to) THEN Dropped
       ELSE IF pkt.length - read.payload < Needed(read.to) THEN Dropped ELSE read
-----------------------------------------------------------------------------
\* get_uid: lines of /proc/net, [port, addr, rport, uid].

char2nible(c) ==
    CASE c \in 48 .. 57 -> c - 48
      [] c \in 97 .. 102 -> c - 97 + 10
      [] c \in 65 .. 70 -> c - 65 + 10
      [] OTHER -> 255

hex2bytes(hex) ==
    [i \in 1 .. Len(hex) \div 2 |-> ((char2nible(hex[2 * i - 1]) * 16) % 256) + char2nible(hex[2 * i])]

\* htonl of each word.
Swapped(bytes) == [i \in 1 .. Len(bytes) |-> bytes[4 * ((i - 1) \div 4) + 4 - ((i - 1) % 4)]]

\* The address and ports of one line match, or at least the port: the last of those counts.
get_uid_sub(lines, saddrport, daddr, dport) ==
    LET usable == SelectSeq(lines, LAMBDA l : l.port > 0 /\ l.uid >= 0)
        Exact(l) == l.port = saddrport /\ l.rport = dport /\ Swapped(hex2bytes(l.addr)) = daddr
        first == SelectInSeq(usable, Exact)
        last == SelectLastInSeq(usable, LAMBDA l : l.port = saddrport)
    IN IF first # 0 THEN usable[first].uid ELSE IF last # 0 THEN usable[last].uid ELSE -1

Mapped4(addr) == Zeros(10) \o <<255, 255>> \o addr

\* The table of version 6 first; for the protocols without a table both are empty.
get_uid(table, version, sport, daddr, dport) ==
    LET mapped == get_uid_sub(table[6], sport, Mapped4(daddr), dport)
    IN IF version = 4 /\ mapped >= 0 THEN mapped
       ELSE get_uid_sub(table[version], sport, daddr, dport)
-----------------------------------------------------------------------------
\* dns.c. Offsets begin at 0; behind is what the buffer holds behind the message.

DnsHdr == 12
DNS_QCLASS_IN == 1
DNS_QTYPES == {1, 28}   \* A, AAAA

At(data, behind, p) == IF p < Len(data) THEN data[p + 1] ELSE behind
Word16(data, behind, p) == 256 * At(data, behind, p) + At(data, behind, p + 1)

\* Mutant: a pointer is what ends the name.
AfterNameThere(s, off) == s.ptr + 1

\* Behind a name is what follows its text, or two bytes behind its beginning when it had
\* a pointer anywhere.
AfterName(s, off) == IF s.compressed THEN off + 2 ELSE s.ptr + 1

\* ptr: the length being read; one with one of its two high bits is a pointer. A text that
\* fills qname starts over. (No chain of pointers is a ring.)
RECURSIVE ReadName(_, _, _, _, _)
ReadName(data, behind, ptr, compressed, text) ==
    LET len == At(data, behind, ptr)
        to == (len % 64) * 256 + At(data, behind, ptr + 1)
        label == [i \in 1 .. len |-> At(data, behind, ptr + i)]
    IN IF len >= 64 THEN ReadName(data, behind, to, TRUE, text)
       ELSE IF len = 0 \/ ptr + 1 + len > Len(data) \/ Len(text) + len > QnameMax
            THEN [ptr |-> ptr, compressed |-> compressed, text |-> text, len |-> len]
       ELSE ReadName(data, behind, ptr + len + 1, compressed,
                     IF Len(text) + len = QnameMax THEN <<>> ELSE text \o label \o <<46>>)

\* The name without its last dot and the offset behind it, or -1.
get_qname(data, behind, off) ==
    LET s == ReadName(data, behind, off, FALSE, <<>>)
    IN IF s.len > 0 \/ s.text = <<>> THEN [off |-> -1, qname |-> <<>>]
       ELSE [off |-> AfterName(s, off), qname |-> Front(s.text)]

\* head: the fields of the header. The first question counts, nothing may follow it.
get_dns_query(head, data, behind) ==
    LET name == get_qname(data, behind, DnsHdr)
    IN IF \/ Len(data) < DnsHdr + 1 \/ head.qr # 0 \/ head.opcode # 0 \/ head.q_count = 0
          \/ name.off <= 0 \/ name.off + 4 # Len(data)
       THEN [found |-> FALSE]
       ELSE [found |-> TRUE, qname |-> name.qname, qtype |-> Word16(data, behind, name.off),
             qclass |-> Word16(data, behind, name.off + 2)]

\* No domain is blocked.
check_domain == FALSE

\* The answers from off on that parse_dns_response reads; it only logs them.
RECURSIVE Answers(_, _, _, _)
Answers(data, behind, off, acount) ==
    LET name == get_qname(data, behind, off)
        rr == name.off
        next == rr + 10 + Word16(data, behind, rr + 8)
    IN IF acount = 0 \/ name.off <= 0 \/ rr + 10 > Len(data) \/ next > Len(data) THEN <<>>
       ELSE << [qname |-> name.qname, data |-> SubSeq(data, rr + 11, next),
                address |-> /\ Word16(data, behind, rr + 2) = DNS_QCLASS_IN
                            /\ Word16(data, behind, rr) \in DNS_QTYPES] >>
            \o Answers(data, behind, next, acount - 1)

parse_dns_response(head, data, behind) ==
    LET name == get_qname(data, behind, DnsHdr)
    IN IF \/ Len(data) < DnsHdr + 1 \/ head.qr # 1 \/ head.opcode # 0 \/ head.q_count = 0
          \/ name.off <= 0 \/ name.off + 4 > Len(data)
       THEN <<>> ELSE Answers(data, behind, name.off + 4, head.ans_count)
=============================================================================
