---------------------------- MODULE MCAlgorithms ----------------------------
(***************************************************************************)
(* The pure parts of the programs over bounded inputs, as the states of    *)
(* three walks: the sequence numbers of MCSeqArith, the contents of a      *)
(* small memory of strings, and paths. What needs no such input is looked  *)
(* at once, in the state where the walk over memories begins.              *)
(***************************************************************************)
EXTENDS MCStrings, SafeFormats, PathReference, PacketReference

MCAlphabet == [memory |-> {0, 97, 66}, path |-> {Slash, BackSlash, 46, 97, 58, 42}]
MCCurDir == [linux |-> <<47, 98>>, windows |-> <<99, 58, 92, 98>>]
MCExecutable == [linux |-> <<47, 101, 47, 120>>, windows |-> <<99, 58, 92, 101, 92, 120>>]
MCMarker == <<42>>
-----------------------------------------------------------------------------
(* Paths *)

AbsoluteIsThePlace(os, path) ==
    LET abs == sm_make_path_abs(os, MaxPath, path, Marker)
    IN /\ abs.err = "SM_RES_OK" => abs.path = Written(os, path)
       /\ Fits(os, path) /\ (IsFile(os, path) \/ IsDirectory(path)) => abs.err = "SM_RES_OK"

CreatedOnTheWay(os, path) ==
    LET root == RootOf(os, path)
        made == sm_create_dpath(os, root, path)
        names == Names(os, Place(os, path))
    IN /\ made.err = "SM_RES_OK" =>
             made.fs.dirs = root.dirs \cup {SubSeq(names, 1, i) : i \in DOMAIN names}
       /\ made.fs.files = {}

LogFileIsInIt(os, path) ==
    LET name == <<120>>
        file == LogFile(os, path, name)
        expected == Spelled(os, Names(os, Place(os, path))) \o name
    IN Fits(os, path) /\ file # <<>> => file = expected

\* sm_files_tools.c:474-490: the absolute form of a path is the place the path leads to
\* from where it starts, with ".." never above the root or the drive; the directories that
\* are made are those on the way to it, and the two halves of a path are the path.
PathsStayPut ==
    kind = "path" /\ text # <<>> =>
        \A os \in SystemNames :
            LET dir == sm_get_dpath_from_fpath(os, <<>>, MaxPath, text)
                name == sm_get_fname_from_fpath(os, MaxPath, text)
            IN /\ dir.err = "SM_RES_OK" /\ name.err = "SM_RES_OK" => dir.path \o name.path = text
               /\ sm_path_is_abs(os, text) # "SM_RES_ERROR" /\ FewNames(os, text) =>
                     /\ AbsoluteIsThePlace(os, text)
                     /\ CreatedOnTheWay(os, text)
                     /\ LogFileIsInIt(os, text)
-----------------------------------------------------------------------------
(* Packets *)

\* An unfragmented packet with its transport header goes to the handler of its protocol.
\* Behind extension headers it goes there at the byte behind them, or nowhere: that they
\* are skipped, as ip.c:144 has it, is not asked, because the loop at ip.c:151 ends before
\* it gets to an upper layer.
PacketsFindTheirHandler ==
    /\ \A protocol \in {IPPROTO_ICMP, IPPROTO_TCP, IPPROTO_UDP}, ihl \in 5 .. 15, length \in 0 .. 40 :
          handle_ip(Ip4Packet(protocol, ihl, length)) =
             IF length < Needed(protocol) THEN Dropped ELSE [to |-> protocol, payload |-> 4 * ihl]
    /\ \A protocol \in {IPPROTO_ICMPV6, IPPROTO_TCP, IPPROTO_UDP}, length \in 0 .. 40 :
          /\ handle_ip(Ip6Packet(protocol, <<>>, length)) =
                IF length < Needed(protocol) THEN Dropped ELSE [to |-> protocol, payload |-> Ip6Hdr]
          /\ \A first \in {0, 43, 60}, second \in {0, 43, 60} :
                /\ handle_ip(Ip6Packet(first, <<protocol>>, length))
                      \in {Dropped, [to |-> protocol, payload |-> Ip6Hdr + 8]}
                /\ handle_ip(Ip6Packet(first, <<second, protocol>>, length))
                      \in {Dropped, [to |-> protocol, payload |-> Ip6Hdr + 16]}

UidsAreOfTheirLine ==
    LET addr == <<8, 9, 200, 255>>
        other == <<8, 9, 200, 254>>
        Lines(wide, ports) ==
            [i \in 1 .. 3 |-> Line(ports[i], Hex(Swapped(IF wide THEN Mapped4(IF i = 2 THEN addr ELSE other)
                                                         ELSE IF i = 2 THEN addr ELSE other)), 53, 10000 + i)]
    IN \A ports \in [1 .. 3 -> {1024, 65535}], wide \in BOOLEAN :
          LET table == [v \in {4, 6} |-> IF (v = 6) <=> wide THEN Lines(wide, ports) ELSE <<>>]
              uid == get_uid(table, 4, 1024, addr, 53)
          IN IF ports[2] = 1024 THEN uid = 10002
             ELSE IF \A i \in 1 .. 3 : ports[i] # 1024 THEN uid = -1
             ELSE ports[uid - 10000] = 1024

DnsMessagesAreRead ==
    LET header == Zeros(DnsHdr)
        query == [qr |-> 0, opcode |-> 0, q_count |-> 1, ans_count |-> 0]
        reply(n) == [query EXCEPT !.qr = 1, !.ans_count = n]
    IN \A name \in DnsNames, second \in DnsNames, behind \in {0, 1, 255} :
          /\ get_dns_query(query, header \o DnsQuestion(name), behind)
                = [found |-> TRUE, qname |-> Text(name), qtype |-> 1, qclass |-> 1]
          /\ ~get_dns_query(query, header \o DnsQuestion(name) \o <<0>>, behind).found
          /\ ~get_dns_query(reply(0), header \o DnsQuestion(name), behind).found
          /\ \A data \in {<<>>, <<1, 2, 3, 4>>}, count \in 0 .. 2 :
                parse_dns_response(reply(count),
                    header \o DnsQuestion(name) \o DnsAnswer(QuestionName, data)
                       \o DnsAnswer(Encoded(second), data), behind)
                = First(<< [qname |-> Text(name), data |-> data, address |-> TRUE],
                           [qname |-> Text(second), data |-> data, address |-> TRUE] >>, count)

-----------------------------------------------------------------------------
(* Formats *)

\* One conversion as it is written, and the argument it takes. (Not those that are read
\* otherwise: "%%", which counts as the begin of the next, "L" and "ll".)
Conversion(flag, width, lmod, letter) == <<"%">> \o flag \o width \o lmod \o <<letter>>
FlagsTried == {<<>>, <<"-">>, <<"0">>}
WidthsTried == {<<>>, <<"7">>, <<"1", "2", ".", "3">>, <<".", "5">>}
Asked == {
    <<<<>>, "d", "FMT_INT">>, <<<<>>, "s", "FMT_STRING">>, <<<<"h">>, "u", "FMT_SHORT">>,
    <<<<"h", "h">>, "x", "FMT_CHAR">>, <<<<"l">>, "i", "FMT_LONG">>, <<<<"l">>, "s", "FMT_WSTRING">>,
    <<<<"l">>, "c", "FMT_WCHAR">>, <<<<"z">>, "u", "FMT_INT">>, <<<<>>, "g", "FMT_DOUBLE">>,
    <<<<>>, "p", "FMT_VOID">>, <<<<"h", "h">>, "n", "FMT_PCHAR">>, <<<<"l">>, "n", "FMT_PLONG">>}

FormatsAreCounted ==
    \A flag \in FlagsTried, width \in WidthsTried, a \in Asked, b \in Asked, between \in {<<>>, <<"d", " ">>} :
        LET one == Conversion(flag, width, a[1], a[2])
            format == between \o one \o between \o Conversion(<<>>, <<>>, b[1], b[2])
        IN /\ parse_format(format) = <<a[3], b[3]>>
           /\ (snprintf_s_i(one) = "EOK") <=> a[3] \in {"FMT_CHAR", "FMT_SHORT", "FMT_INT"}
           /\ (snprintf_s_l(one) = "EOK") <=> a[3] = "FMT_LONG"
           /\ snprintf_s_i(format) = "ESBADFMT" /\ snprintf_s_si(one) = "ESBADFMT"
           /\ (snprintf_s_sl(format) = "EOK") <=> (a[3] = "FMT_STRING" /\ b[3] = "FMT_LONG")

\* ip.c:88-398, dns.c and safe_snprintf_support.c: a packet without fragments and extension
\* headers reaches the handler of its protocol at the right byte, and none a handler at a
\* wrong one; a packet belongs to the app whose line names all of its ends; a DNS message is
\* read to the end whether its names are text or pointers; and a format asks for the
\* arguments of its conversions, "%%", "L" and "ll" aside.
InputsAreRead ==
    FirstLook => /\ PacketsFindTheirHandler /\ UidsAreOfTheirLine /\ DnsMessagesAreRead
                 /\ FormatsAreCounted
=============================================================================
