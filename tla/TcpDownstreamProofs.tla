------------------------ MODULE TcpDownstreamProofs ------------------------
(***************************************************************************)
(* The server's stream on its way to the app: nothing but resets follows a *)
(* reset, the app gets the stream without a gap and within its windows,    *)
(* and no ACK of its is taken for one of the future. For every stream      *)
(* shorter than half the number space, every window, and writes to the tun *)
(* that fail. Each step is first reduced to what the app and its packets   *)
(* can tell apart; three invariants, each on top of the one before, are    *)
(* then shown to be kept by these reduced steps.                           *)
(***************************************************************************)
EXTENDS TcpSessionProofs

\* The numbers of the server's stream with SYN and FIN are all different.
RemoteFits == RemoteBytes + 2 < Mod

\* They are less than half the space apart, and where the build wraps around
\* they do not pass from the positive ints to the negative ones, where
\* NoFutureAck is false.
RemoteComparable ==
  /\ RemoteBytes + 2 < Half
  /\ Wraps => \A isn \in LocalISNs : isn >= Half \/ isn + RemoteBytes + 2 < Half

-----------------------------------------------------------------------------
(* The invariants                                                          *)

\* The app has had the SYN+ACK.
Opened(a) == a.rcv >= 1

Syn(p) == "SYN" \in p.flags
Ack(p) == "ACK" \in p.flags

\* A closed session is freed at a check only; the app's packets are all read
\* between the wait and the next check.
Lingers ==
  s.state = "CLOSE" =>
    pc = "wait" \/ (pc = "batch" /\ \E i \in 1 .. Len(batch) : batch[i] = "tun")

\* SYNs come before everything else the app sends, and where one is still to be
\* read after the connection has opened or was reset, its session is still there
\* to take it.
SynsFirst ==
  /\ \A i, j \in 1 .. Len(tun) : i < j /\ Syn(tun[j]) => Syn(tun[i])
  /\ \A i \in 1 .. Len(tun) : Syn(tun[i]) => ~Ack(tun[i])
  /\ app.st = "closed" => tun = <<>>
  /\ app.st = "syn_sent" => \A i \in 1 .. Len(tun) : Syn(tun[i])
  /\ app.st \in {"closed", "syn_sent"} => ~Opened(app)
  /\ app.st = "open" => Opened(app)
  /\ (Opened(app) \/ app.st = "reset") /\ (\E i \in 1 .. Len(tun) : Syn(tun[i]))
       => s.state # "NONE" /\ Lingers

ResetInv ==
  /\ SynsFirst
  /\ app.st = "reset" => s.state \in {"NONE", "CLOSING", "CLOSE"}
  /\ Opened(app) => s.state # "LISTEN"
  /\ "after_reset" \notin app.faults

\* How far a number of this end is into the stream, as the app counts.
Off(n) == (n - app.irs) % Mod

\* What the server has still to send, sent to the socket or not.
Ahead == remote.inbox + remote.left

Sending == {"SYN_RECV", "ESTABLISHED", "CLOSE_WAIT"}

\* local_seq is where the app expects the stream to go on.
StreamInv ==
  /\ Ahead <= RemoteBytes
  /\ s.state = "LISTEN" => s.local_seq \in LocalISNs
  /\ Opened(app) => app.rcv <= RemoteBytes + 2 /\ app.irs \in LocalISNs
  /\ Opened(app) /\ Live(s) =>
       /\ app.rcv <= Off(s.local_seq) /\ Off(s.local_seq) <= RemoteBytes + 2
       /\ s.state \in Sending => Off(s.local_seq) + Ahead <= RemoteBytes + 1
       /\ s.state \in Sending /\ app.st = "open" => Off(s.local_seq) = app.rcv
  /\ "gap" \notin app.faults

\* The ACKs on their way cover what the app has received, in order, each with a
\* window that begins there.
AcksInOrder ==
  /\ \A i \in 1 .. Len(tun) :
       Ack(tun[i]) => /\ Opened(app)
                      /\ 1 <= Off(tun[i].ack_seq) /\ Off(tun[i].ack_seq) <= app.rcv
                      /\ Off(tun[i].ack_seq) + tun[i].window <= app.edge
  /\ \A i, j \in 1 .. Len(tun) :
       i < j /\ Ack(tun[i]) /\ Ack(tun[j])
         => Off(tun[i].ack_seq) <= Off(tun[j].ack_seq)
  /\ app.st = "open" => \A i \in 1 .. Len(tun) : Syn(tun[i]) \/ Ack(tun[i])

WindowInv ==
  /\ AcksInOrder
  /\ app.st = "open" /\ Transferring(s) =>
       /\ Off(s.acked) <= Off(s.local_seq)
       /\ Off(s.acked) + s.send_window <= app.edge
       /\ \A i \in 1 .. Len(tun) :
            Ack(tun[i]) /\ Off(s.acked) <= Off(tun[i].ack_seq)
  /\ "overrun" \notin app.faults

-----------------------------------------------------------------------------
(* What the app's kernel makes of a packet                                 *)

Watched == {"gap", "overrun", "after_reset"}

\* An end of the app that only what it has acknowledged may tell from another.
Same(a, b) ==
  /\ b.st = a.st /\ b.irs = a.irs /\ b.rcv = a.rcv /\ b.edge = a.edge
  /\ \A f \in Watched : f \in b.faults <=> f \in a.faults

\* The same, or the connection has been reset.
SameOrReset(a, b) ==
  /\ b.st = a.st \/ (a.st \in {"syn_sent", "open"} /\ b.st = "reset")
  /\ b.irs = a.irs /\ b.rcv = a.rcv /\ b.edge = a.edge
  /\ \A f \in Watched : f \in b.faults <=> f \in a.faults

\* A SYN+ACK of number n opens a connection that waits for one.
Opens(a, b, n) ==
  /\ IF a.st = "syn_sent"
     THEN b.st = "open" /\ b.irs = n /\ b.rcv = 1
     ELSE b.st = a.st /\ b.irs = a.irs /\ b.rcv = a.rcv
  /\ b.edge = a.edge
  /\ "gap" \in b.faults <=> "gap" \in a.faults
  /\ "overrun" \in b.faults <=> "overrun" \in a.faults
  /\ "after_reset" \in b.faults <=> "after_reset" \in a.faults \/ a.st = "reset"

\* Payload of the number n: len bytes or, without any, a FIN.
Receives(a, b, n, len) ==
  LET off == (n - a.irs) % Mod
  IN  /\ b.st = a.st /\ b.irs = a.irs /\ b.edge = a.edge
      /\ b.rcv = IF a.st = "open" /\ off = a.rcv
                 THEN a.rcv + (IF len = 0 THEN 1 ELSE len) ELSE a.rcv
      /\ "gap" \in b.faults <=> "gap" \in a.faults \/ (a.st = "open" /\ off # a.rcv)
      /\ "overrun" \in b.faults <=>
           "overrun" \in a.faults \/ (a.st = "open" /\ len > 0 /\ off + len > a.edge)
      /\ "after_reset" \in b.faults <=> "after_reset" \in a.faults \/ a.st = "reset"

\* The parts of AppReceive, by the kind of packet; no reset carries a SYN.
LEMMA ReceiveShape ==
  ASSUME NEW a \in AppEnd, NEW p \in Reply, ~(Syn(p) /\ "RST" \in p.flags)
  PROVE  LET irs == IF Syn(p) THEN p.seq ELSE a.irs
             off == (p.seq - irs) % Mod
             payload == p.len > 0 \/ "FIN" \in p.flags
             b == AppReceive(a, p)
         IN  /\ b.edge = a.edge
             /\ "gap" \in b.faults <=>
                  "gap" \in a.faults \/ (a.st = "open" /\ payload /\ off # a.rcv)
             /\ "overrun" \in b.faults <=>
                  \/ "overrun" \in a.faults
                  \/ a.st = "open" /\ p.len > 0 /\ off + p.len > a.edge
             /\ "after_reset" \in b.faults <=>
                  \/ "after_reset" \in a.faults
                  \/ a.st = "reset" /\ (payload \/ Syn(p))
             /\ a.st \in {"closed", "aborted", "reset"} =>
                  b.st = a.st /\ b.irs = a.irs /\ b.rcv = a.rcv
             /\ a.st \in {"syn_sent", "open"} /\ "RST" \in p.flags =>
                  b.st = "reset" /\ b.irs = a.irs /\ b.rcv = a.rcv
             /\ a.st = "syn_sent" /\ "RST" \notin p.flags =>
                  IF Syn(p) THEN b.st = "open" /\ b.irs = irs /\ b.rcv = 1
                            ELSE b.st = a.st /\ b.irs = a.irs /\ b.rcv = a.rcv
             /\ a.st = "open" /\ "RST" \notin p.flags =>
                  /\ b.st = a.st /\ b.irs = a.irs
                  /\ b.rcv = IF ~Syn(p) /\ off = a.rcv
                             THEN a.rcv + p.len + (IF "FIN" \in p.flags THEN 1 ELSE 0)
                             ELSE a.rcv
<1> DEFINE irs == IF Syn(p) THEN p.seq ELSE a.irs
           off == (p.seq - irs) % Mod
           ack == (p.ack_seq - a.iss) % Mod
           f   == FaultsOf(a, p, off, ack)
           b   == [a EXCEPT !.faults = @ \cup f]
           una == IF "ACK" \in p.flags /\ ack > a.una /\ ack <= a.nxt THEN ack ELSE a.una
           fin == IF "FIN" \in p.flags THEN 1 ELSE 0
           payload == p.len > 0 \/ "FIN" \in p.flags
           z   == AppReceive(a, p)
<1>1. /\ "gap" \in f <=> a.st = "open" /\ payload /\ off # a.rcv
      /\ "overrun" \in f <=> a.st = "open" /\ p.len > 0 /\ off + p.len > a.edge
      /\ "after_reset" \in f <=> a.st = "reset" /\ (payload \/ Syn(p))
  <2> HIDE DEF off, ack
  <2> QED
    BY DEF FaultsOf, Faults, Syn, payload
<1>2. /\ b \in AppEnd /\ b.st = a.st /\ b.irs = a.irs /\ b.rcv = a.rcv
      /\ b.edge = a.edge /\ b.faults = a.faults \cup f
  <2>1. f \subseteq Faults
    BY DEF FaultsOf
  <2> HIDE DEF f
  <2> QED
    BY <2>1 DEF AppEnd
<1>3. \A u, i, r :
        /\ LET d == [b EXCEPT !.st = "reset"]
           IN  /\ d.st = "reset" /\ d.irs = b.irs /\ d.rcv = b.rcv
               /\ d.edge = b.edge /\ d.faults = b.faults
        /\ LET d == [b EXCEPT !.st = "open", !.irs = i, !.rcv = 1, !.una = u]
           IN  /\ d.st = "open" /\ d.irs = i /\ d.rcv = 1
               /\ d.edge = b.edge /\ d.faults = b.faults
        /\ LET d == [b EXCEPT !.una = u, !.rcv = r]
           IN  /\ d.st = b.st /\ d.irs = b.irs /\ d.rcv = r
               /\ d.edge = b.edge /\ d.faults = b.faults
        /\ LET d == [b EXCEPT !.una = u]
           IN  /\ d.st = b.st /\ d.irs = b.irs /\ d.rcv = b.rcv
               /\ d.edge = b.edge /\ d.faults = b.faults
  <2> HIDE DEF b
  <2> QED
    BY <1>2 DEF AppEnd
<1>4. z = CASE a.st \in {"closed", "aborted", "reset"} -> b
            [] a.st \in {"syn_sent", "open"} /\ "RST" \in p.flags ->
                 [b EXCEPT !.st = "reset"]
            [] a.st = "syn_sent" /\ "SYN" \in p.flags ->
                 [b EXCEPT !.st = "open", !.irs = irs, !.rcv = 1, !.una = una]
            [] a.st = "open" /\ p.flags \cap {"SYN", "RST"} = {} /\ off = a.rcv ->
                 [b EXCEPT !.una = una, !.rcv = b.rcv + p.len + fin]
            [] OTHER -> [b EXCEPT !.una = una]
  BY DEF AppReceive, Syn
<1>5. a.st \in {"closed", "syn_sent", "open", "aborted", "reset"}
  BY DEF AppEnd
<1> HIDE DEF b, f, off, ack, una, fin, irs, z
<1>6. CASE a.st \in {"closed", "aborted", "reset"}
  <2>1. z = b
    BY <1>4, <1>6
  <2> QED
    BY <1>1, <1>2, <1>6, <2>1 DEF irs, off, z
<1>7. CASE a.st \in {"syn_sent", "open"} /\ "RST" \in p.flags
  <2>0. a.st \notin {"closed", "aborted", "reset"}
    BY <1>7
  <2>1. z = [b EXCEPT !.st = "reset"]
    <3>1. "SYN" \notin p.flags /\ p.flags \cap {"SYN", "RST"} # {}
      BY <1>7 DEF Syn
    <3> QED
      BY <1>4, <1>7, <2>0, <3>1
  <2>2. /\ z.st = "reset" /\ z.irs = b.irs /\ z.rcv = b.rcv
        /\ z.edge = b.edge /\ z.faults = b.faults
    BY <1>3, <2>1
  <2> QED
    BY <1>1, <1>2, <1>7, <2>2 DEF irs, off, z
<1>8. CASE a.st = "syn_sent" /\ "RST" \notin p.flags /\ Syn(p)
  <2>1. z = [b EXCEPT !.st = "open", !.irs = irs, !.rcv = 1, !.una = una]
    BY <1>4, <1>8 DEF Syn
  <2>2. /\ z.st = "open" /\ z.irs = irs /\ z.rcv = 1
        /\ z.edge = b.edge /\ z.faults = b.faults
    BY <1>3, <2>1
  <2> QED
    BY <1>1, <1>2, <1>8, <2>2 DEF irs, off, z
<1>9. CASE /\ a.st = "open" /\ "RST" \notin p.flags
           /\ ~Syn(p) /\ off = a.rcv
  <2>1. p.flags \cap {"SYN", "RST"} = {}
    BY <1>9 DEF Syn
  <2>2. z = [b EXCEPT !.una = una, !.rcv = b.rcv + p.len + fin]
    BY <1>4, <1>9, <2>1
  <2>3. /\ z.st = b.st /\ z.irs = b.irs /\ z.rcv = b.rcv + p.len + fin
        /\ z.edge = b.edge /\ z.faults = b.faults
    BY <1>3, <2>2
  <2> QED
    BY <1>1, <1>2, <1>9, <2>3 DEF irs, off, fin, z
<1>10. CASE /\ a.st \in {"syn_sent", "open"} /\ "RST" \notin p.flags
            /\ a.st = "syn_sent" => ~Syn(p)
            /\ a.st = "open" => Syn(p) \/ off # a.rcv
  <2>1. z = [b EXCEPT !.una = una]
    <3>1. ~(a.st = "open" /\ p.flags \cap {"SYN", "RST"} = {} /\ off = a.rcv)
      BY <1>10 DEF Syn
    <3> QED
      BY <1>4, <1>10, <3>1 DEF Syn
  <2>2. /\ z.st = b.st /\ z.irs = b.irs /\ z.rcv = b.rcv
        /\ z.edge = b.edge /\ z.faults = b.faults
    BY <1>3, <2>1
  <2> QED
    BY <1>1, <1>2, <1>10, <2>2 DEF irs, off, z
<1> QED
  BY <1>5, <1>6, <1>7, <1>8, <1>9, <1>10

\* An ACK alone changes nothing else, an RST resets the connection at most.
LEMMA ReceiveQuiet ==
  ASSUME NEW a \in AppEnd, NEW p \in Reply,
         p.len = 0, "FIN" \notin p.flags, ~Syn(p)
  PROVE  /\ "RST" \notin p.flags => Same(a, AppReceive(a, p))
         /\ SameOrReset(a, AppReceive(a, p))
<1> DEFINE b == AppReceive(a, p)
<1>1. a.st \in {"closed", "syn_sent", "open", "aborted", "reset"} /\ a.rcv \in Nat
  BY DEF AppEnd
<1>2. /\ b.edge = a.edge
      /\ \A f \in Watched : f \in b.faults <=> f \in a.faults
      /\ a.st \in {"closed", "aborted", "reset"} =>
           b.st = a.st /\ b.irs = a.irs /\ b.rcv = a.rcv
      /\ a.st \in {"syn_sent", "open"} /\ "RST" \in p.flags =>
           b.st = "reset" /\ b.irs = a.irs /\ b.rcv = a.rcv
      /\ a.st \in {"syn_sent", "open"} /\ "RST" \notin p.flags =>
           b.st = a.st /\ b.irs = a.irs /\ b.rcv = a.rcv
  BY <1>1, ReceiveShape DEF Watched
<1> HIDE DEF b
<1>3. /\ "RST" \notin p.flags => Same(a, b)
      /\ SameOrReset(a, b)
  BY <1>1, <1>2 DEF Same, SameOrReset
<1> QED
  BY <1>3 DEF b

LEMMA ReceiveSyn ==
  ASSUME NEW a \in AppEnd, NEW p \in Reply, p.len = 0, p.flags = {"SYN", "ACK"}
  PROVE  Opens(a, AppReceive(a, p), p.seq)
<1> DEFINE b == AppReceive(a, p)
<1>1. /\ a.st \in {"closed", "syn_sent", "open", "aborted", "reset"}
      /\ Syn(p) /\ "RST" \notin p.flags /\ "FIN" \notin p.flags /\ ~(p.len > 0)
  BY DEF AppEnd, Syn
<1> QED
  BY <1>1, ReceiveShape DEF Opens

LEMMA ReceivePayload ==
  ASSUME NEW a \in AppEnd, NEW p \in Reply,
         p.flags \cap {"SYN", "RST"} = {},
         IF p.len = 0 THEN "FIN" \in p.flags ELSE "FIN" \notin p.flags
  PROVE  Receives(a, AppReceive(a, p), p.seq, p.len)
<1>1. /\ a.st \in {"closed", "syn_sent", "open", "aborted", "reset"}
      /\ ~Syn(p) /\ "RST" \notin p.flags /\ p.len \in Nat /\ a.rcv \in Nat
  BY DEF AppEnd, Syn, Reply
<1>2. p.len > 0 \/ "FIN" \in p.flags
  BY <1>1
<1>3. p.len + (IF "FIN" \in p.flags THEN 1 ELSE 0) = IF p.len = 0 THEN 1 ELSE p.len
  BY <1>1
<1>4. a.rcv + p.len + (IF "FIN" \in p.flags THEN 1 ELSE 0)
        = a.rcv + (IF p.len = 0 THEN 1 ELSE p.len)
  BY <1>1
<1> QED
  BY <1>1, <1>2, <1>4, ReceiveShape DEF Receives

-----------------------------------------------------------------------------
(* What the app's kernel makes of the packets of a step                    *)

LEMMA AppType ==
  ASSUME NEW a \in AppEnd
  PROVE  /\ a.st \in {"closed", "syn_sent", "open", "aborted", "reset"}
         /\ a.irs \in SeqNums /\ a.rcv \in Nat /\ a.edge \in Nat
BY DEF AppEnd

\* A reset, an ACK: nothing of the stream and no SYN.
Quiet(p) == p.len = 0 /\ "FIN" \notin p.flags /\ ~Syn(p)

LEMMA PlainAckIsQuiet ==
  ASSUME NEW p \in Reply, PlainAck(p)
  PROVE  Quiet(p) /\ "RST" \notin p.flags
BY DEF PlainAck, Quiet, Syn

LEMMA RstIsQuiet ==
  ASSUME NEW x \in Session
  PROVE  RstPacket(x) \in Reply /\ Quiet(RstPacket(x))
<1>1. RstPacket(x).len = 0 /\ RstPacket(x).flags \in {{"RST"}, {"RST", "ACK"}}
  BY DEF RstPacket, write_tcp
<1> QED
  BY <1>1, RstPacketType DEF Quiet, Syn

LEMMA SameIsTransitive ==
  ASSUME NEW a, NEW b, NEW c, Same(a, b)
  PROVE  /\ Same(b, c) => Same(a, c)
         /\ SameOrReset(b, c) => SameOrReset(a, c)
         /\ \A n, len : Receives(b, c, n, len) => Receives(a, c, n, len)
<1>1. /\ b.st = a.st /\ b.irs = a.irs /\ b.rcv = a.rcv /\ b.edge = a.edge
      /\ "gap" \in b.faults <=> "gap" \in a.faults
      /\ "overrun" \in b.faults <=> "overrun" \in a.faults
      /\ "after_reset" \in b.faults <=> "after_reset" \in a.faults
  BY DEF Same, Watched
<1>2. Same(b, c) => Same(a, c)
  BY <1>1 DEF Same, Watched
<1>3. SameOrReset(b, c) => SameOrReset(a, c)
  BY <1>1 DEF SameOrReset, Watched
<1>4. ASSUME NEW n, NEW len, Receives(b, c, n, len)
      PROVE  Receives(a, c, n, len)
  BY <1>1, <1>4 DEF Receives
<1> QED
  BY <1>2, <1>3, <1>4

LEMMA SameItself == \A a : Same(a, a) /\ SameOrReset(a, a)
BY DEF Same, SameOrReset

LEMMA DeliverNone ==
  ASSUME Deliver(<<>>)
  PROVE  app' = app
<1>1. Len(<<>>) = 0 /\ 0 # 1
  OBVIOUS
<1> QED
  BY <1>1 DEF Deliver

LEMMA DeliverOne ==
  ASSUME NEW p, Deliver(<<p>>)
  PROVE  app' = AppReceive(app, p)
<1>1. Len(<<p>>) = 1 /\ <<p>>[1] = p
  OBVIOUS
<1> QED
  BY <1>1 DEF Deliver

\* Behind an ACK, or nothing, a packet finds the app as it was.
LEMMA DeliverBehind ==
  ASSUME app \in AppEnd, NEW out, NEW p \in Reply,
         out = <<>> \/ \E q \in Reply : PlainAck(q) /\ out = <<q>>,
         Deliver(out \o <<p>>)
  PROVE  \E a \in AppEnd : Same(app, a) /\ app' = AppReceive(a, p)
<1>1. CASE out = <<>>
  <2>1. out \o <<p>> = <<p>>
    BY <1>1
  <2> QED
    BY <2>1, DeliverOne, SameItself
<1>2. ASSUME NEW q \in Reply, PlainAck(q), out = <<q>>
      PROVE  \E a \in AppEnd : Same(app, a) /\ app' = AppReceive(a, p)
  <2>1. <<q>> \in Seq(Reply) /\ <<p>> \in Seq(Reply)
    OBVIOUS
  <2> DEFINE o == <<q>> \o <<p>>
  <2>2. Len(o) = 2 /\ o[1] = q /\ o[2] = p
    <3>1. /\ Len(<<q>>) = 1 /\ Len(<<p>>) = 1
          /\ <<q>>[1] = q /\ <<p>>[1] = p
      OBVIOUS
    <3>2. \A u, v \in Seq(Reply) :
            Len(u) = 1 /\ Len(v) = 1 =>
              Len(u \o v) = 2 /\ (u \o v)[1] = u[1] /\ (u \o v)[2] = v[1]
      BY ConcatProperties
    <3> QED
      BY <2>1, <3>1, <3>2
  <2>3. app' = AppReceive(AppReceive(app, q), p)
    <3>1. Deliver(o)
      BY <1>2, Zenon
    <3> HIDE DEF o
    <3>2. app' = AppReceive(AppReceive(app, o[1]), o[2])
      BY <2>2, <3>1 DEF Deliver
    <3> QED
      BY <2>2, <3>2
  <2>4. AppReceive(app, q) \in AppEnd
    BY AppReceiveType
  <2>5. Same(app, AppReceive(app, q))
    BY <1>2, PlainAckIsQuiet, ReceiveQuiet DEF Quiet
  <2> QED
    BY <2>3, <2>4, <2>5
<1> QED
  BY <1>1, <1>2

\* An ACK at most changes nothing for the rest.
LEMMA DeliverAck ==
  ASSUME app \in AppEnd, NEW out,
         out = <<>> \/ \E q \in Reply : PlainAck(q) /\ out = <<q>>,
         Deliver(out)
  PROVE  Same(app, app')
<1>1. CASE out = <<>>
  BY <1>1, DeliverNone, SameItself
<1>2. ASSUME NEW q \in Reply, PlainAck(q), out = <<q>>
      PROVE  Same(app, app')
  <2>1. app' = AppReceive(app, q)
    BY <1>2, DeliverOne
  <2> QED
    BY <1>2, <2>1, PlainAckIsQuiet, ReceiveQuiet DEF Quiet
<1> QED
  BY <1>1, <1>2

\* Behind that ACK, a quiet packet that may have been written resets the
\* connection at most.
LEMMA DeliverQuiet ==
  ASSUME app \in AppEnd, NEW out, NEW ok, NEW p \in Reply, Quiet(p),
         out = <<>> \/ \E q \in Reply : PlainAck(q) /\ out = <<q>>,
         Deliver(out \o Out(ok, p))
  PROVE  SameOrReset(app, app')
<1>1. CASE Out(ok, p) = <<p>>
  <2>1. PICK a \in AppEnd : Same(app, a) /\ app' = AppReceive(a, p)
    BY <1>1, DeliverBehind
  <2>2. SameOrReset(a, app')
    BY <2>1, ReceiveQuiet DEF Quiet
  <2> QED
    BY <2>1, <2>2, SameIsTransitive
<1>2. CASE Out(ok, p) = <<>>
  <2>1. out \o <<>> = out
    OBVIOUS
  <2>2. Same(app, app')
    BY <1>2, <2>1, DeliverAck
  <2> QED
    BY <2>2 DEF Same, SameOrReset
<1> QED
  BY <1>1, <1>2 DEF Out

\* The same for a quiet packet alone.
LEMMA DeliverQuietOne ==
  ASSUME app \in AppEnd, NEW ok, NEW p \in Reply, Quiet(p), Deliver(Out(ok, p))
  PROVE  SameOrReset(app, app')
<1>1. <<>> \o Out(ok, p) = Out(ok, p)
  BY DEF Out
<1>2. Deliver(<<>> \o Out(ok, p))
  BY <1>1
<1> QED
  BY <1>2, DeliverQuiet

-----------------------------------------------------------------------------
(* The steps, reduced to what the app and its packets can tell apart       *)

\* The thread has read the first packet of the app.
ReadsHead == tun # <<>> /\ tun' = Tail(tun)

\* No step of the stream.
Stays ==
  /\ s'.state = s.state /\ SameNumbers(s, s')
  /\ Same(app, app') /\ tun' = tun /\ Ahead' <= Ahead
  /\ Lingers /\ tun # <<>> => Lingers'

\* A session ends, by a reset, an error, a timeout, a failed write or the last
\* ACK, or is over already.
Ends ==
  /\ s.state # "NONE" /\ s'.state \in {"CLOSING", "CLOSE"}
  /\ SameOrReset(app, app') /\ Ahead' <= Ahead
  /\ tun' = tun \/ ReadsHead
  /\ Lingers'

\* What is left of a session is freed.
Frees ==
  /\ s.state = "CLOSE" /\ s'.state = "NONE" /\ pc = "check"
  /\ app' = app /\ tun' = tun /\ Ahead' <= Ahead

\* A packet for no session: a SYN is ignored, anything else answered by an RST.
Rejects ==
  /\ s.state = "NONE" /\ s'.state = "NONE" /\ ReadsHead
  /\ SameOrReset(app, app') /\ Ahead' <= Ahead
  /\ Syn(Head(tun)) => app' = app

\* A SYN opens a session.
Listens ==
  /\ s.state = "NONE" /\ s'.state = "LISTEN" /\ ReadsHead
  /\ Syn(Head(tun)) /\ app' = app
  /\ s'.local_seq \in LocalISNs /\ Ahead' = RemoteBytes

\* A packet is taken in: its window always, its ACK maybe.
Hears ==
  /\ Live(s) /\ ReadsHead
  /\ s'.local_seq = s.local_seq /\ s'.send_window = Head(tun).window
  /\ s'.acked = s.acked \/ (Ack(Head(tun)) /\ s'.acked = Head(tun).ack_seq)
  /\ \/ s'.state = s.state
     \/ s.state = "ESTABLISHED" /\ s'.state = "CLOSE_WAIT"
     \/ /\ s.state = "SYN_RECV" /\ s'.state = "ESTABLISHED"
        /\ Ack(Head(tun)) /\ s'.acked = Head(tun).ack_seq /\ s'.acked = s.local_seq
  /\ Same(app, app') /\ Ahead' <= Ahead

\* The SYN+ACK.
Connects ==
  /\ s.state = "LISTEN" /\ s'.state = "SYN_RECV"
  /\ s'.local_seq = SeqAdd(s.local_seq, 1)
  /\ Opens(app, app', s.local_seq) /\ tun' = tun /\ Ahead' <= Ahead

\* Data of the server, no more than the window takes.
PassesOn ==
  /\ Transferring(s) /\ s'.state = s.state
  /\ \E n \in 1 .. SendWindow(s) :
       /\ s'.local_seq = SeqAdd(s.local_seq, n)
       /\ s'.acked = s.acked /\ s'.send_window = s.send_window
       /\ Receives(app, app', s.local_seq, n)
       /\ tun' = tun /\ Ahead' <= Ahead - n

\* The end of the server's stream.
Finishes ==
  /\ Transferring(s) /\ s'.state \in {"FIN_WAIT1", "LAST_ACK"}
  /\ s'.local_seq = SeqAdd(s.local_seq, 1)
  /\ Receives(app, app', s.local_seq, 0) /\ tun' = tun /\ Ahead' <= Ahead

\* tcp.c:468-821: what a packet of the app does.
LEMMA HandleTcpDown ==
  ASSUME TypeOK, handle_tcp
  PROVE  Ends \/ Rejects \/ Listens \/ Hears
<1> DEFINE p == Head(tun)
<1>1. /\ s \in Session /\ p \in Packet /\ app \in AppEnd /\ remote \in RemoteEnd
      /\ tun # <<>>
  BY HeadTailProperties DEF handle_tcp, TypeOK
<1>2. Heard(p) \in Session /\ Absorbed(p) \in Session
  BY <1>1, AbsorbedType
<1>3. \A x : x \in {Heard(p), Absorbed(p)} =>
        /\ x.state = s.state /\ x.local_seq = s.local_seq /\ x.acked = s.acked
        /\ x.send_window = p.window
  <2>1. /\ Heard(p).state = s.state /\ Heard(p).local_seq = s.local_seq
        /\ Heard(p).acked = s.acked /\ Heard(p).send_window = p.window
    BY <1>1 DEF Heard, Session
  <2>2. \A q : \A x \in Session :
          LET y == [x EXCEPT !.forward = q]
          IN  /\ y.state = x.state /\ y.local_seq = x.local_seq
              /\ y.acked = x.acked /\ y.send_window = x.send_window
    BY DEF Session
  <2>3. /\ Absorbed(p).state = Heard(p).state
        /\ Absorbed(p).local_seq = Heard(p).local_seq
        /\ Absorbed(p).acked = Heard(p).acked
        /\ Absorbed(p).send_window = Heard(p).send_window
    BY <1>2, <2>2 DEF Absorbed
  <2> QED
    BY <2>1, <2>3, Zenon
<1>4. \A x \in Session : write_rst(x).state = IF x.state = "CLOSE" THEN "CLOSE"
                                                                   ELSE "CLOSING"
  BY DEF write_rst, Session
<1>5. RstPacket(s) \in Reply /\ Quiet(RstPacket(s))
  BY <1>1, RstIsQuiet
<1>6. tun' = Tail(tun) /\ pc' = "batch" /\ (\E i \in 1 .. Len(batch') : batch'[i] = "tun")
  <2>1. pc' = pc /\ batch' = batch /\ tun' = Tail(tun)
    BY DEF handle_tcp, NewSession, UnknownSession, WasClosed, DataAfterClose,
       ReceivedReset, RepeatedSyn, FinBehindQueue, FinConfirmed, FinIgnored,
       AckAll, AckOther, Handles
  <2>2. batch # <<>> /\ Head(batch) = "tun" /\ batch \in Batches
    BY DEF handle_tcp, TypeOK
  <2>3. 1 \in 1 .. Len(batch) /\ batch[1] = "tun"
    <3>1. /\ Len(<<"tun">>) = 1 /\ Len(<<"sock">>) = 1
          /\ Len(<<"tun", "sock">>) = 2 /\ Len(<<"sock", "tun">>) = 2
      OBVIOUS
    <3>2. \A b \in Batches : b # <<>> => 1 \in 1 .. Len(b) /\ b[1] = Head(b)
      BY <3>1 DEF Batches
    <3> QED
      BY <2>2, <3>2
  <2> QED
    BY <2>1, <2>3 DEF handle_tcp
<1>7. Lingers' /\ ReadsHead
  BY <1>1, <1>6 DEF Lingers, ReadsHead
<1>8. ~NewSession(p) => remote' = remote /\ Ahead' <= Ahead
  <2>1. remote' = remote => Ahead' <= Ahead
    BY <1>1 DEF Ahead, RemoteEnd
  <2>2. ~NewSession(p) => remote' = remote
    BY DEF handle_tcp, UnknownSession, WasClosed, DataAfterClose, ReceivedReset,
       RepeatedSyn, FinBehindQueue, FinConfirmed, FinIgnored, AckAll, AckOther, Takes
  <2> QED
    BY <2>1, <2>2
<1> HIDE DEF p
<1>a. p = Head(tun)
  BY DEF p
<1>9. CASE NewSession(p)
  <2>1. s.state = "NONE" /\ Syn(p)
    BY <1>9 DEF NewSession, Syn
  <2>2. CASE Handles(NoSession, <<>>) /\ UNCHANGED <<remote, taken>>
    <3>1. s' = NoSession /\ app' = app /\ Ahead' <= Ahead
      BY <1>1, <2>2, DeliverNone DEF Handles, Ahead, RemoteEnd
    <3> QED
      BY <1>7, <2>1, <3>1, SameItself DEF NoSession, Rejects
  <2>3. CASE \E x : /\ Handles(x, <<>>)
                   /\ x.state = "LISTEN" /\ x.local_seq \in LocalISNs
                   /\ remote' = [NoRemote EXCEPT !.left = RemoteBytes]
    <3>1. s'.state = "LISTEN" /\ s'.local_seq \in LocalISNs /\ app' = app
      BY <2>3, DeliverNone DEF Handles
    <3>2. remote' = [NoRemote EXCEPT !.left = RemoteBytes]
      BY <2>3
    <3>3. Ahead' = RemoteBytes
      BY <3>2, TcpAssumption DEF Ahead, NoRemote
    <3> QED
      BY <1>7, <1>a, <2>1, <3>1, <3>3 DEF Listens
  <2> QED
    BY <1>9, <2>2, <2>3 DEF NewSession
<1>10. CASE UnknownSession(p)
  <2>1. PICK ok \in Results :
          Handles(s, Out(ok, [flags |-> {"RST"}, len |-> 0, seq |-> p.ack_seq,
                              ack_seq |-> 0]))
    BY <1>10 DEF UnknownSession
  <2> DEFINE q == [flags |-> {"RST"}, len |-> 0, seq |-> p.ack_seq, ack_seq |-> 0]
  <2>2. q \in Reply /\ Quiet(q)
    BY <1>1, SeqNumsAreNat DEF p, Packet, Reply, Flags, Quiet, Syn
  <2>3. s' = s /\ Deliver(Out(ok, q))
    BY <2>1 DEF Handles
  <2> HIDE DEF q
  <2>4. SameOrReset(app, app')
    BY <1>1, <2>2, <2>3, DeliverQuietOne
  <2>5. s.state = "NONE" /\ ~Syn(p) /\ ~NewSession(p)
    BY <1>10 DEF UnknownSession, NewSession, Syn
  <2> QED
    BY <1>7, <1>8, <1>a, <2>3, <2>4, <2>5 DEF Rejects
<1>b. s.state # "NONE" => ~NewSession(p)
  BY DEF NewSession
<1>11. CASE WasClosed(p)
  <2>1. PICK ok \in Results : s' = write_rst(s) /\ Deliver(Out(ok, RstPacket(s)))
    BY <1>11 DEF WasClosed, Handles
  <2>2. s.state \in {"CLOSING", "CLOSE"}
    BY <1>11 DEF WasClosed
  <2>3. s'.state \in {"CLOSING", "CLOSE"} /\ SameOrReset(app, app')
    BY <1>1, <1>4, <1>5, <2>1, DeliverQuietOne
  <2> QED
    BY <1>7, <1>8, <1>b, <2>2, <2>3 DEF Ends
<1>12. CASE DataAfterClose(p)
  <2>1. PICK ok \in Results : s' = write_rst(Heard(p)) /\ Deliver(Out(ok, RstPacket(s)))
    BY <1>12 DEF DataAfterClose, Handles
  <2>2. s.state # "NONE"
    BY <1>12 DEF DataAfterClose, Live
  <2>3. s'.state \in {"CLOSING", "CLOSE"} /\ SameOrReset(app, app')
    BY <1>1, <1>2, <1>4, <1>5, <2>1, DeliverQuietOne
  <2> QED
    BY <1>7, <1>8, <1>b, <2>2, <2>3 DEF Ends
<1>13. CASE ReceivedReset(p)
  <2>1. s' = [Absorbed(p) EXCEPT !.state = "CLOSING"] /\ Live(s) /\ app' = app
    BY <1>13, DeliverNone DEF ReceivedReset, Takes, Handles
  <2>2. s'.state = "CLOSING" /\ SameOrReset(app, app')
    BY <1>2, <2>1, SameItself DEF Session
  <2> QED
    BY <1>7, <1>8, <1>b, <2>1, <2>2 DEF Ends, Live
<1>14. CASE RepeatedSyn(p) \/ FinIgnored(p)
  <2>1. s' = Absorbed(p) /\ Live(s) /\ app' = app
    BY <1>14, DeliverNone DEF RepeatedSyn, FinIgnored, Takes, Handles
  <2> QED
    BY <1>3, <1>7, <1>8, <1>a, <1>b, <2>1, SameItself DEF Hears, Live
<1>15. CASE FinBehindQueue(p)
  <2>1. /\ s' = [Absorbed(p) EXCEPT !.state = "CLOSE_WAIT"]
        /\ s.state = "ESTABLISHED" /\ Live(s) /\ app' = app
    BY <1>15, DeliverNone DEF FinBehindQueue, Takes, Handles
  <2>2. /\ s'.state = "CLOSE_WAIT" /\ s'.local_seq = s.local_seq
        /\ s'.acked = s.acked /\ s'.send_window = p.window
    BY <1>2, <1>3, <2>1 DEF Session
  <2> QED
    BY <1>7, <1>8, <1>a, <1>b, <2>1, <2>2, SameItself DEF Hears, Live
<1>16. CASE FinConfirmed(p)
  <2> DEFINE x == [Absorbed(p) EXCEPT !.remote_seq = SeqAdd(@, 1)]
             next == IF s.state = "ESTABLISHED" THEN "CLOSE_WAIT" ELSE "CLOSE"
  <2>1. PICK ok \in Results :
          /\ s' = [x EXCEPT !.state = IF ok THEN next ELSE "CLOSING"]
          /\ Deliver(Out(ok, write_tcp(x, {"ACK"}, 0)))
    BY <1>16 DEF FinConfirmed, Handles
  <2>2. /\ x \in Session /\ x.local_seq = s.local_seq
        /\ x.acked = s.acked /\ x.send_window = p.window
    BY <1>2, <1>3, NextSeqNumType DEF Session
  <2>3. Same(app, app')
    <3> HIDE DEF x
    <3> DEFINE q == write_tcp(x, {"ACK"}, 0)
    <3>1. {"ACK"} \in SUBSET Flags
      BY DEF Flags
    <3>2. q \in Reply /\ PlainAck(q)
      BY <2>2, <3>1, WriteType DEF write_tcp, PlainAck
    <3> HIDE DEF q
    <3>3. Out(ok, q) = <<>> \/ \E r \in Reply : PlainAck(r) /\ Out(ok, q) = <<r>>
      BY <3>2 DEF Out
    <3>4. Deliver(Out(ok, q))
      BY <2>1 DEF q
    <3> QED
      BY <1>1, <3>3, <3>4, DeliverAck
  <2>4. s.state \in {"ESTABLISHED", "FIN_WAIT1"} /\ Live(s)
    BY <1>16 DEF FinConfirmed, Takes
  <2> HIDE DEF x
  <2>5. /\ s'.state = IF ok THEN next ELSE "CLOSING"
        /\ s'.local_seq = x.local_seq /\ s'.acked = x.acked
        /\ s'.send_window = x.send_window
    BY <2>1, <2>2 DEF Session
  <2>6. CASE s'.state \in {"CLOSING", "CLOSE"}
    <3>1. SameOrReset(app, app')
      BY <2>3 DEF Same, SameOrReset
    <3> QED
      BY <1>7, <1>8, <1>b, <2>4, <2>6, <3>1 DEF Ends, Live
  <2>7. CASE s.state = "ESTABLISHED" /\ s'.state = "CLOSE_WAIT"
    BY <1>7, <1>8, <1>a, <1>b, <2>2, <2>3, <2>4, <2>5, <2>7 DEF Hears, Live
  <2> QED
    BY <2>4, <2>5, <2>6, <2>7
<1>17. CASE AckAll(p)
  <2>1. /\ s' = [Absorbed(p) EXCEPT !.acked = p.ack_seq,
                   !.state = CASE @ = "SYN_RECV" -> "ESTABLISHED"
                               [] @ = "LAST_ACK" -> "CLOSING"
                               [] OTHER -> @]
        /\ Live(s) /\ app' = app /\ Ack(p) /\ p.ack_seq = s.local_seq
    BY <1>17, DeliverNone DEF AckAll, AcksAll, Takes, Handles, Ack
  <2>2. /\ s'.local_seq = s.local_seq /\ s'.acked = p.ack_seq
        /\ s'.send_window = p.window
        /\ s'.state = CASE s.state = "SYN_RECV" -> "ESTABLISHED"
                         [] s.state = "LAST_ACK" -> "CLOSING"
                         [] OTHER -> s.state
    BY <1>2, <1>3, <2>1 DEF Session
  <2>3. CASE s.state = "LAST_ACK"
    BY <1>7, <1>8, <1>b, <2>1, <2>2, <2>3, SameItself DEF Ends
  <2>4. CASE s.state # "LAST_ACK"
    <3>1. s'.state = s.state \/ (s.state = "SYN_RECV" /\ s'.state = "ESTABLISHED")
      BY <2>2, <2>4
    <3> QED
      BY <1>7, <1>8, <1>a, <1>b, <2>1, <2>2, <3>1, SameItself DEF Hears, Live
  <2> QED
    BY <2>3, <2>4
<1>18. CASE AckOther(p)
  <2>1. Live(s) /\ Ack(p) /\ s.state # "NONE"
    BY <1>18 DEF AckOther, AcksAll, Takes, Ack, Live
  <2>2. PICK ok \in Results :
          \/ Handles([Absorbed(p) EXCEPT !.acked = p.ack_seq], <<>>)
          \/ Handles(write_rst(Absorbed(p)), Out(ok, RstPacket(s)))
          \/ Handles(Absorbed(p), <<>>)
    BY <1>18 DEF AckOther
  <2>3. CASE Handles([Absorbed(p) EXCEPT !.acked = p.ack_seq], <<>>)
    <3>1. s' = [Absorbed(p) EXCEPT !.acked = p.ack_seq] /\ app' = app
      BY <2>3, DeliverNone DEF Handles
    <3>2. /\ s'.state = s.state /\ s'.local_seq = s.local_seq
          /\ s'.acked = p.ack_seq /\ s'.send_window = p.window
      BY <1>2, <1>3, <3>1 DEF Session
    <3> QED
      BY <1>7, <1>8, <1>a, <1>b, <2>1, <3>1, <3>2, SameItself DEF Hears
  <2>4. CASE Handles(write_rst(Absorbed(p)), Out(ok, RstPacket(s)))
    <3>1. s' = write_rst(Absorbed(p)) /\ Deliver(Out(ok, RstPacket(s)))
      BY <2>4 DEF Handles
    <3>2. s'.state \in {"CLOSING", "CLOSE"} /\ SameOrReset(app, app')
      BY <1>1, <1>2, <1>4, <1>5, <3>1, DeliverQuietOne
    <3> QED
      BY <1>7, <1>8, <1>b, <2>1, <3>2 DEF Ends
  <2>5. CASE Handles(Absorbed(p), <<>>)
    <3>1. s' = Absorbed(p) /\ app' = app
      BY <2>5, DeliverNone DEF Handles
    <3> QED
      BY <1>3, <1>7, <1>8, <1>a, <1>b, <2>1, <3>1, SameItself DEF Hears
  <2> QED
    BY <2>2, <2>3, <2>4, <2>5
<1> QED
  BY <1>9, <1>10, <1>11, <1>12, <1>13, <1>14, <1>15, <1>16, <1>17, <1>18
  DEF handle_tcp, p

\* tcp.c:151-195: an error of the socket, the connect.
LEMMA SocketConnectsDown ==
  ASSUME TypeOK, SocketInv, SocketError \/ SocketConnected
  PROVE  Ends \/ Connects
<1>1. /\ s \in Session /\ app \in AppEnd /\ remote \in RemoteEnd
      /\ s.state \notin {"NONE", "CLOSE"}
  <2>1. batch # <<>> /\ Head(batch) = "sock"
    BY DEF SocketError, SocketConnected, OnSocketEvent
  <2>2. s.state # "NONE" /\ s.socket
    BY <2>1, PendingTail DEF TypeOK, SocketInv
  <2> QED
    BY <2>2 DEF TypeOK, SocketInv, SocketMatchesState
<1>2. remote' = remote /\ Ahead' <= Ahead /\ tun' = tun
  <2>1. remote' = remote /\ tun' = tun
    BY DEF SocketError, SocketConnected, OnSocketEvent
  <2> QED
    BY <1>1, <2>1 DEF Ahead, RemoteEnd
<1>3. CASE SocketError
  <2>1. PICK ok \in Results : s' = write_rst(s) /\ Deliver(Out(ok, RstPacket(s)))
    BY <1>3 DEF SocketError, OnSocketEvent
  <2>2. s'.state = "CLOSING"
    BY <1>1, <2>1 DEF write_rst, Session
  <2>3. SameOrReset(app, app')
    BY <1>1, <2>1, RstIsQuiet, DeliverQuietOne
  <2> QED
    BY <1>1, <1>2, <2>2, <2>3 DEF Ends, Lingers
<1>4. CASE SocketConnected
  <2> DEFINE x == [s EXCEPT !.remote_seq = SeqAdd(@, 1)]
             y == [x EXCEPT !.local_seq = SeqAdd(@, 1), !.state = "SYN_RECV"]
             q == write_tcp(x, {"SYN", "ACK"}, 0)
  <2>1. s.state = "LISTEN"
    BY <1>4 DEF SocketConnected
  <2>2. PICK ok \in Results :
          s' = (IF ok THEN y ELSE Written(x, FALSE)) /\ Deliver(Out(ok, q))
    BY <1>4 DEF SocketConnected, OnSocketEvent
  <2>3. x \in Session /\ x.local_seq = s.local_seq
    BY <1>1, NextSeqNumType DEF Session
  <2>4. /\ y.state = "SYN_RECV" /\ y.local_seq = SeqAdd(s.local_seq, 1)
        /\ Written(x, FALSE).state = "CLOSING"
    <3> HIDE DEF x
    <3> QED
      BY <2>3 DEF Session, Written
  <2>5. q \in Reply /\ q.flags = {"SYN", "ACK"} /\ q.len = 0 /\ q.seq = s.local_seq
    <3> HIDE DEF x
    <3>1. {"SYN", "ACK"} \in SUBSET Flags
      BY DEF Flags
    <3>2. q.flags = {"SYN", "ACK"} /\ q.len = 0 /\ q.seq = x.local_seq
      BY DEF write_tcp
    <3> QED
      BY <2>3, <3>1, <3>2, WriteType
  <2> HIDE DEF x, y, q
  <2>6. CASE ok
    <3>1. app' = AppReceive(app, q)
      BY <2>2, <2>6, DeliverOne DEF Out
    <3>2. Opens(app, app', s.local_seq)
      BY <1>1, <2>5, <3>1, ReceiveSyn
    <3> QED
      BY <1>2, <2>1, <2>2, <2>4, <2>6, <3>2 DEF Connects
  <2>7. CASE ~ok
    <3>1. app' = app
      BY <2>2, <2>7, DeliverNone DEF Out
    <3> QED
      BY <1>1, <1>2, <2>2, <2>4, <2>7, <3>1, SameItself DEF Ends, Lingers
  <2> QED
    BY <2>6, <2>7
<1> QED
  BY <1>3, <1>4

\* tcp.c:323-421: what is read for a session still in its state.
LEMMA ReadsDown ==
  ASSUME TypeOK, s.state \notin {"NONE", "CLOSE"},
         NEW x \in Session, NEW out \in Seq(Reply), NEW r \in RemoteEnd,
         x.state \in {s.state, "CLOSING"}, SameNumbers(s, x),
         out = <<>> \/ \E q \in Reply : PlainAck(q) /\ out = <<q>>,
         r.inbox = remote.inbox, r.left = remote.left,
         \/ ReadsNothing(x, out, r) \/ ReadFails(x, out, r)
         \/ ReadsEof(x, out, r) \/ ReadsData(x, out, r)
  PROVE  Stays \/ Ends \/ PassesOn \/ Finishes
<1>1. /\ s \in Session /\ app \in AppEnd /\ remote \in RemoteEnd
      /\ x.local_seq = s.local_seq /\ x.acked = s.acked
      /\ x.send_window = s.send_window /\ SendWindow(x) = SendWindow(s)
  BY DEF TypeOK, SameNumbers, SendWindow
<1>2. tun' = tun
  BY DEF ReadsNothing, ReadFails, ReadsEof, ReadsData, OnSocketEvent
<1>3. /\ remote' = r => Ahead' <= Ahead
      /\ remote' = NoRemote => Ahead' <= Ahead
      /\ \A n \in 1 .. r.inbox : remote' = [r EXCEPT !.inbox = @ - n] => Ahead' <= Ahead - n
  <2>1. r.inbox \in Nat /\ r.left \in Nat
    BY DEF RemoteEnd
  <2>2. Ahead = r.inbox + r.left
    BY DEF Ahead
  <2>3. remote' = r => Ahead' = r.inbox + r.left
    BY DEF Ahead
  <2>4. remote' = NoRemote => Ahead' = 0
    BY DEF Ahead, NoRemote
  <2>5. ASSUME NEW n \in 1 .. r.inbox, remote' = [r EXCEPT !.inbox = @ - n]
        PROVE  Ahead' = (r.inbox - n) + r.left
    <3>1. remote'.inbox = r.inbox - n /\ remote'.left = r.left
      BY <2>5 DEF RemoteEnd
    <3> QED
      BY <3>1 DEF Ahead
  <2> QED
    BY <2>1, <2>2, <2>3, <2>4, <2>5
<1>4. CASE ReadsNothing(x, out, r)
  <2>1. s' = x /\ Deliver(out) /\ remote' = r
    BY <1>4 DEF ReadsNothing, OnSocketEvent
  <2>2. Same(app, app')
    BY <1>1, <2>1, DeliverAck
  <2>3. CASE x.state = s.state
    BY <1>2, <1>3, <2>1, <2>2, <2>3 DEF Stays, Lingers
  <2>4. CASE x.state = "CLOSING"
    <3>1. SameOrReset(app, app')
      BY <2>2 DEF Same, SameOrReset
    <3> QED
      BY <1>2, <1>3, <2>1, <2>4, <3>1 DEF Ends, Lingers
  <2> QED
    BY <2>3, <2>4
<1>5. ASSUME MayRead(x) PROVE Transferring(s) /\ x.state = s.state
  BY <1>5 DEF MayRead, Transferring
<1>6. RstPacket(x) \in Reply /\ Quiet(RstPacket(x))
  BY RstIsQuiet
<1>7. \A y \in Session : y.state = x.state /\ x.state # "CLOSE" =>
                           write_rst(y).state = "CLOSING"
  BY DEF write_rst, Session
<1>8. ASSUME s'.state = "CLOSING", SameOrReset(app, app'), Ahead' <= Ahead
      PROVE  Ends
  BY <1>2, <1>8 DEF Ends, Lingers
<1>9. CASE ReadFails(x, out, r)
  <2>1. PICK ok \in Results :
          s' = write_rst(x) /\ Deliver(out \o Out(ok, RstPacket(x)))
    BY <1>9 DEF ReadFails, OnSocketEvent
  <2>2. remote' = r /\ x.state # "CLOSE"
    BY <1>9 DEF ReadFails, MayRead, Transferring
  <2>3. s'.state = "CLOSING"
    BY <1>7, <2>1, <2>2
  <2>4. SameOrReset(app, app')
    BY <1>1, <1>6, <2>1, DeliverQuiet
  <2> QED
    BY <1>3, <1>8, <2>2, <2>3, <2>4
<1>10. CASE ReadsEof(x, out, r)
  <2> DEFINE y == [x EXCEPT !.socket = FALSE]
             z == [y EXCEPT !.local_seq = SeqAdd(@, 1),
                            !.state = IF @ = "ESTABLISHED" THEN "FIN_WAIT1"
                                                           ELSE "LAST_ACK"]
             q == write_tcp(x, {"FIN", "ACK"}, 0)
  <2>1. PICK ok \in Results :
          IF x.forward = <<>>
          THEN s' = (IF ok THEN z ELSE Written(y, FALSE)) /\ Deliver(out \o Out(ok, q))
          ELSE s' = write_rst(y) /\ Deliver(out \o Out(ok, RstPacket(x)))
    BY <1>10 DEF ReadsEof, OnSocketEvent
  <2>2. remote' = NoRemote /\ MayRead(x) /\ x.state # "CLOSE"
    BY <1>10 DEF ReadsEof, MayRead, Transferring
  <2>3. y \in Session /\ y.state = x.state /\ y.local_seq = x.local_seq
    BY DEF Session
  <2>4. /\ z.local_seq = SeqAdd(s.local_seq, 1) /\ z.state \in {"FIN_WAIT1", "LAST_ACK"}
        /\ Written(y, FALSE).state = "CLOSING"
    <3> HIDE DEF y
    <3> QED
      BY <1>1, <2>3 DEF Session, Written
  <2>5. /\ q \in Reply /\ q.flags = {"FIN", "ACK"} /\ q.len = 0
        /\ q.seq = s.local_seq
    <3>1. {"FIN", "ACK"} \in SUBSET Flags
      BY DEF Flags
    <3>2. q.flags = {"FIN", "ACK"} /\ q.len = 0 /\ q.seq = x.local_seq
      BY DEF write_tcp
    <3> QED
      BY <1>1, <3>1, <3>2, WriteType
  <2> HIDE DEF y, z, q
  <2>6. CASE x.forward = <<>> /\ ok
    <3>1. s' = z /\ Deliver(out \o <<q>>)
      BY <2>1, <2>6 DEF Out
    <3>2. PICK a \in AppEnd : Same(app, a) /\ app' = AppReceive(a, q)
      BY <1>1, <2>5, <3>1, DeliverBehind
    <3>3. Receives(a, app', q.seq, q.len)
      <4>1. q.flags \cap {"SYN", "RST"} = {} /\ "FIN" \in q.flags
        BY <2>5
      <4> QED
        BY <2>5, <3>2, <4>1, ReceivePayload
    <3>4. Receives(app, app', s.local_seq, 0)
      BY <2>5, <3>2, <3>3, SameIsTransitive
    <3> QED
      BY <1>2, <1>3, <1>5, <2>2, <2>4, <3>1, <3>4 DEF Finishes
  <2>7. CASE x.forward = <<>> /\ ~ok
    <3>1. s' = Written(y, FALSE) /\ Deliver(out \o <<>>)
      BY <2>1, <2>7 DEF Out
    <3>2. out \o <<>> = out
      OBVIOUS
    <3>3. Same(app, app')
      BY <1>1, <3>1, <3>2, DeliverAck
    <3>4. SameOrReset(app, app')
      BY <3>3 DEF Same, SameOrReset
    <3> QED
      BY <1>3, <1>8, <2>2, <2>4, <3>1, <3>4
  <2>8. CASE x.forward # <<>>
    <3>1. s' = write_rst(y) /\ Deliver(out \o Out(ok, RstPacket(x)))
      BY <2>1, <2>8
    <3>2. SameOrReset(app, app')
      BY <1>1, <1>6, <3>1, DeliverQuiet
    <3>3. s'.state = "CLOSING"
      BY <1>7, <2>2, <2>3, <3>1
    <3> QED
      BY <1>3, <1>8, <2>2, <3>2, <3>3
  <2> QED
    BY <2>6, <2>7, <2>8
<1>11. CASE ReadsData(x, out, r)
  <2>1. PICK n \in 1 .. Min2(SendWindow(x), r.inbox), ok \in Results :
          /\ s' = (IF ok THEN [x EXCEPT !.local_seq = SeqAdd(@, n)]
                         ELSE Written(x, FALSE))
          /\ Deliver(out \o Out(ok, write_tcp(x, {"ACK"}, n)))
          /\ remote' = [r EXCEPT !.inbox = @ - n]
    BY <1>11 DEF ReadsData, OnSocketEvent
  <2>2. MayRead(x)
    BY <1>11 DEF ReadsData
  <2>3. n \in 1 .. SendWindow(s) /\ n \in 1 .. r.inbox /\ n \in Nat /\ n > 0
    <3>1. SendWindow(s) \in Nat /\ r.inbox \in Nat
      BY <1>1, SendWindowType DEF RemoteEnd
    <3>2. n \in 1 .. Min2(SendWindow(s), r.inbox)
      BY <1>1
    <3> QED
      BY <3>1, <3>2 DEF Min2
  <2>4. Ahead' <= Ahead - n
    BY <1>3, <2>1, <2>3
  <2> DEFINE q == write_tcp(x, {"ACK"}, n)
  <2>5. /\ q \in Reply /\ q.flags = {"ACK"} /\ q.len = n /\ q.seq = s.local_seq
    <3>1. {"ACK"} \in SUBSET Flags
      BY DEF Flags
    <3>2. q.flags = {"ACK"} /\ q.len = n /\ q.seq = x.local_seq
      BY DEF write_tcp
    <3> QED
      BY <1>1, <2>3, <3>1, <3>2, WriteType
  <2>6. Deliver(out \o Out(ok, q))
    BY <2>1
  <2> HIDE DEF q
  <2>7. CASE ok
    <3>1. s' = [x EXCEPT !.local_seq = SeqAdd(@, n)] /\ Deliver(out \o <<q>>)
      BY <2>1, <2>6, <2>7 DEF Out
    <3>2. PICK a \in AppEnd : Same(app, a) /\ app' = AppReceive(a, q)
      BY <1>1, <2>5, <3>1, DeliverBehind
    <3>3. Receives(a, app', q.seq, q.len)
      <4>1. q.flags \cap {"SYN", "RST"} = {} /\ "FIN" \notin q.flags /\ q.len # 0
        BY <2>3, <2>5
      <4> QED
        BY <2>5, <3>2, <4>1, ReceivePayload
    <3>4. Receives(app, app', s.local_seq, n)
      BY <2>5, <3>2, <3>3, SameIsTransitive
    <3>5. /\ s'.state = x.state /\ s'.local_seq = SeqAdd(s.local_seq, n)
          /\ s'.acked = s.acked /\ s'.send_window = s.send_window
      BY <1>1, <3>1 DEF Session
    <3> QED
      BY <1>2, <1>5, <2>2, <2>3, <2>4, <3>4, <3>5 DEF PassesOn
  <2>8. CASE ~ok
    <3>1. s' = Written(x, FALSE) /\ Deliver(out \o <<>>)
      BY <2>1, <2>6, <2>8 DEF Out
    <3>2. out \o <<>> = out
      OBVIOUS
    <3>3. Same(app, app')
      BY <1>1, <3>1, <3>2, DeliverAck
    <3>4. SameOrReset(app, app')
      BY <3>3 DEF Same, SameOrReset
    <3>5. s'.state = "CLOSING"
      BY <3>1 DEF Written, Session
    <3>6. Ahead' <= Ahead
      <4>1. Ahead \in Int /\ Ahead' \in Int
        <5>1. remote' \in RemoteEnd
          <6>1. r.inbox - n \in Nat
            BY <2>3 DEF RemoteEnd
          <6> QED
            BY <2>1, <6>1 DEF RemoteEnd
        <5> QED
          BY <1>1, <5>1 DEF Ahead, RemoteEnd
      <4> QED
        BY <2>3, <2>4, <4>1
    <3> QED
      BY <1>8, <3>4, <3>5, <3>6
  <2> QED
    BY <2>7, <2>8
<1> QED
  BY <1>4, <1>9, <1>10, <1>11

\* tcp.c:151-421: what an event of the socket does.
LEMMA SocketEventDown ==
  ASSUME TypeOK, SocketInv, check_tcp_socket
  PROVE  Stays \/ Ends \/ Connects \/ PassesOn \/ Finishes
<1>1. CASE SocketError \/ SocketConnected
  BY <1>1, SocketConnectsDown
<1>2. CASE SocketTransfers
  <2>1. s.state \notin {"NONE", "CLOSE"}
    <3>1. batch # <<>> /\ Head(batch) = "sock"
      BY EventIsHandled
    <3>2. s.state # "NONE" /\ s.socket
      BY <3>1, PendingTail DEF TypeOK, SocketInv
    <3> QED
      BY <3>2 DEF SocketInv, SocketMatchesState
  <2>2. PICK x \in Session, out \in Seq(Reply), r \in RemoteEnd :
          /\ x.state \in {s.state, "CLOSING"}
          /\ SameNumbers(s, x)
          /\ out = <<>> \/ \E q \in Reply : PlainAck(q) /\ out = <<q>>
          /\ r.inbox = remote.inbox /\ r.left = remote.left
          /\ \/ ReadsNothing(x, out, r) \/ ReadFails(x, out, r)
             \/ ReadsEof(x, out, r) \/ ReadsData(x, out, r)
    BY <1>2, TransfersShape
  <2> QED
    BY <2>1, <2>2, ReadsDown
<1> QED
  BY <1>1, <1>2 DEF check_tcp_socket

\* tcp.c:99-143: monitoring writes a keep-alive ACK at most.
LEMMA MonitorDown ==
  ASSUME TypeOK, SocketInv, monitor_tcp_session
  PROVE  Stays \/ Ends
<1>1. s \in Session /\ app \in AppEnd /\ remote \in RemoteEnd
  BY DEF TypeOK
<1>2. pc = "monitor" /\ tun' = tun /\ Ahead' <= Ahead
  <2>1. pc = "monitor" /\ tun' = tun /\ remote' = remote
    BY DEF monitor_tcp_session
  <2> QED
    BY <1>1, <2>1 DEF Ahead, RemoteEnd
<1>3. CASE ~s.socket /\ Deliver(<<>>) /\ s' = s
  <2>1. app' = app
    BY <1>3, DeliverNone
  <2> QED
    BY <1>2, <1>3, <2>1, SameItself DEF Stays, SameNumbers, Lingers
<1>4. CASE ~(~s.socket /\ Deliver(<<>>) /\ s' = s)
  <2> DEFINE old == [s EXCEPT !.remote_seq = SeqAdd(@, Mod - 1)]
             q == write_tcp(old, {"ACK"}, 0)
  <2>1. PICK room \in BOOLEAN, set \in BOOLEAN, probe \in BOOLEAN, ok \in Results :
          /\ s' = [(IF probe THEN Written(s, ok) ELSE s)
                     EXCEPT !.events = Wanted(s, room),
                            !.state = IF Wanted(s, room) # s.events /\ ~set
                                      THEN "CLOSING" ELSE @]
          /\ Deliver(IF probe THEN Out(ok, q) ELSE <<>>)
    BY <1>4 DEF monitor_tcp_session
  <2> DEFINE x == IF probe THEN Written(s, ok) ELSE s
             out == IF probe THEN Out(ok, q) ELSE <<>>
  <2>2. q \in Reply /\ PlainAck(q)
    <3>1. Mod - 1 \in Int /\ s.remote_seq \in Int
      BY <1>1, SeqNumsAreNat, HalfAssumption DEF Session, Mod
    <3>2. SeqAdd(s.remote_seq, Mod - 1) \in SeqNums
      BY <3>1, SeqAddType
    <3>3. old \in Session
      BY <1>1, <3>2 DEF Session
    <3>4. {"ACK"} \in SUBSET Flags
      BY DEF Flags
    <3> HIDE DEF old
    <3>5. q.flags = {"ACK"} /\ q.len = 0
      BY DEF write_tcp
    <3> QED
      BY <3>3, <3>4, <3>5, WriteType DEF PlainAck
  <2>3. x \in Session /\ SameNumbers(s, x) /\ x.state \in {s.state, "CLOSING"}
    BY <1>1 DEF Written, Session, States, SameNumbers
  <2>4. Same(app, app')
    <3> HIDE DEF q
    <3>1. Deliver(out)
      BY <2>1
    <3>2. out = <<>> \/ \E r \in Reply : PlainAck(r) /\ out = <<r>>
      BY <2>2 DEF Out
    <3> QED
      BY <1>1, <3>1, <3>2, DeliverAck
  <2>5. s' = [x EXCEPT !.events = Wanted(s, room),
                       !.state = IF Wanted(s, room) # s.events /\ ~set
                                 THEN "CLOSING" ELSE @]
    BY <2>1
  <2> HIDE DEF x, out
  <2>6. SameNumbers(s, s') /\ s'.state \in {s.state, "CLOSING"}
    BY <2>3, <2>5 DEF Session, SameNumbers
  <2>7. s.state # "NONE"
    <3>1. s.socket
      BY <1>4 DEF monitor_tcp_session
    <3> QED
      BY <3>1 DEF SocketInv, SocketMatchesState
  <2>8. CASE s'.state = s.state
    BY <1>2, <2>4, <2>6, <2>8 DEF Stays, Lingers
  <2>9. CASE s'.state = "CLOSING"
    <3>1. SameOrReset(app, app')
      BY <2>4 DEF Same, SameOrReset
    <3> QED
      BY <1>2, <2>7, <2>9, <3>1 DEF Ends, Lingers
  <2> QED
    BY <2>6, <2>8, <2>9
<1> QED
  BY <1>3, <1>4

\* tcp.c:37-97: a check goes on with the session, ends it or frees it.
LEMMA CheckDown ==
  ASSUME TypeOK, NEW expired \in BOOLEAN, check_tcp_session(expired)
  PROVE  Stays \/ Ends \/ Frees
<1>1. /\ s \in Session /\ app \in AppEnd /\ remote \in RemoteEnd
      /\ s.state # "NONE" /\ pc = "check" /\ pc' = "wait" /\ tun' = tun
  BY DEF check_tcp_session, TypeOK
<1>2. Ahead' <= Ahead
  <2>1. remote' \in {remote, NoRemote}
    BY DEF check_tcp_session
  <2> QED
    BY <1>1, <2>1 DEF Ahead, RemoteEnd, NoRemote
<1> DEFINE x == TimedOut(s, expired)
<1>3. /\ x \in Session /\ (x = s \/ (expired /\ x.state = "CLOSING"))
  <2>1. write_rst(s) \in Session
    BY <1>1, WriteRstType
  <2>2. Live(s) => write_rst(s).state = "CLOSING"
    BY <1>1 DEF write_rst, Session, Live
  <2>3. LET y == [s EXCEPT !.state = "CLOSING"] IN y \in Session /\ y.state = "CLOSING"
    BY <1>1 DEF Session, States
  <2> QED
    BY <1>1, <2>1, <2>2, <2>3 DEF TimedOut
<1>4. SameOrReset(app, app') /\ (~(expired /\ Live(s)) => app' = app)
  <2>1. PICK ok \in Results :
          Deliver(IF expired /\ Live(s) /\ s.state # "LISTEN"
                  THEN Out(ok, RstPacket(s)) ELSE <<>>)
    BY DEF check_tcp_session
  <2>2. CASE expired /\ Live(s) /\ s.state # "LISTEN"
    BY <1>1, <2>1, <2>2, RstIsQuiet, DeliverQuietOne
  <2>3. CASE ~(expired /\ Live(s) /\ s.state # "LISTEN")
    BY <2>1, <2>3, DeliverNone, SameItself
  <2> QED
    BY <2>2, <2>3
<1>5. s' = IF s.state = "CLOSE" /\ expired THEN NoSession ELSE SocketClosed(x)
  BY DEF check_tcp_session
<1>6. Lingers'
  BY <1>1 DEF Lingers
<1>7. ~Live(s) => x = s
  BY DEF TimedOut
<1> HIDE DEF x
<1>8. CASE s.state = "CLOSE" /\ expired
  <2>1. s'.state = "NONE" /\ app' = app
    BY <1>4, <1>5, <1>8 DEF NoSession, Live
  <2> QED
    BY <1>1, <1>2, <1>8, <2>1 DEF Frees
<1>9. CASE ~(s.state = "CLOSE" /\ expired) /\ x.state = "CLOSING"
  <2>1. s'.state = "CLOSE"
    BY <1>3, <1>5, <1>9 DEF SocketClosed, Session
  <2> QED
    BY <1>1, <1>2, <1>4, <1>6, <2>1 DEF Ends
<1>10. CASE ~(s.state = "CLOSE" /\ expired) /\ x.state # "CLOSING"
  <2>1. s' = s
    BY <1>3, <1>5, <1>10 DEF SocketClosed
  <2>2. CASE ~(expired /\ Live(s))
    BY <1>1, <1>2, <1>4, <1>6, <2>1, <2>2, SameItself DEF Stays, SameNumbers
  <2>3. CASE expired /\ Live(s)
    <3>1. write_rst(s).state = "CLOSING" /\ [s EXCEPT !.state = "CLOSING"].state = "CLOSING"
      BY <1>1, <2>3 DEF write_rst, Session, Live
    <3>2. x.state = "CLOSING"
      BY <2>3, <3>1 DEF TimedOut, x
    <3> QED
      BY <1>10, <3>2
  <2> QED
    BY <2>2, <2>3
<1> QED
  BY <1>8, <1>9, <1>10

\* session.c:145-257: waiting, and a tun device that is read empty.
LEMMA WaitDown ==
  ASSUME TypeOK, SkipCheck \/ epoll_wait \/ TunDrained \/ UNCHANGED vars
  PROVE  Stays
<1>1. /\ s' = s /\ app' = app /\ tun' = tun /\ remote' = remote
      /\ remote \in RemoteEnd
  BY DEF SkipCheck, epoll_wait, TunDrained, vars, TypeOK
<1>2. Ahead' <= Ahead
  BY <1>1 DEF Ahead, RemoteEnd
<1>3. Lingers /\ tun # <<>> => Lingers'
  <2>1. CASE SkipCheck
    BY <2>1 DEF SkipCheck, Lingers
  <2>2. CASE epoll_wait /\ tun # <<>>
    <3>1. pc' = "batch" /\ (\E i \in 1 .. Len(batch') : batch'[i] = "tun")
      <4>1. PICK sock \in {{}, {"sock"}} :
              LET ready == sock \cup {"tun"}
              IN  \/ ready = {}
                  \/ pc' = "batch" /\ {batch'[i] : i \in 1 .. Len(batch')} = ready
        BY <2>2 DEF epoll_wait
      <4>2. pc' = "batch" /\ "tun" \in {batch'[i] : i \in 1 .. Len(batch')}
        BY <4>1
      <4> QED
        BY <4>2
    <3> QED
      BY <3>1 DEF Lingers
  <2>3. CASE TunDrained
    BY <2>3 DEF TunDrained
  <2>4. CASE UNCHANGED vars
    BY <1>1, <2>4 DEF vars, Lingers
  <2> QED
    BY <2>1, <2>2, <2>3, <2>4
<1> QED
  BY <1>1, <1>2, <1>3, SameItself DEF Stays, SameNumbers

\* The server's end of the socket.
LEMMA ServerDown ==
  ASSUME TypeOK, ServerAccepts \/ ServerFails \/ ServerSends \/ ServerCloses
  PROVE  Stays
<1>1. /\ s' = s /\ app' = app /\ tun' = tun /\ pc' = pc /\ batch' = batch
      /\ remote \in RemoteEnd
  BY DEF ServerAccepts, ServerFails, ServerSends, ServerCloses, Server, TypeOK
<1>2. remote.inbox \in Nat /\ remote.left \in Nat
  BY <1>1 DEF RemoteEnd
<1>3. \/ remote'.inbox = remote.inbox /\ remote'.left \in {remote.left, 0}
      \/ remote'.inbox = remote.inbox + 1 /\ remote'.left = remote.left - 1
  BY <1>1 DEF ServerAccepts, ServerFails, ServerSends, ServerCloses, Server, RemoteEnd
<1>4. Ahead' <= Ahead
  BY <1>2, <1>3 DEF Ahead
<1> QED
  BY <1>1, <1>4, SameItself DEF Stays, SameNumbers, Lingers

\* Every step of the system is one of these.
LEMMA StepDown ==
  ASSUME TypeOK, SocketInv, [Next]_vars
  PROVE  \/ Stays \/ Ends \/ Frees \/ Rejects \/ Listens
         \/ Hears \/ Connects \/ PassesOn \/ Finishes
         \/ AppConnects \/ AppSends \/ AppAborts
<1>1. CASE handle_tcp
  BY <1>1, HandleTcpDown
<1>2. CASE check_tcp_socket
  BY <1>2, SocketEventDown
<1>3. CASE monitor_tcp_session
  BY <1>3, MonitorDown
<1>4. ASSUME NEW expired \in BOOLEAN, check_tcp_session(expired)
      PROVE  Stays \/ Ends \/ Frees
  BY <1>4, CheckDown
<1>5. CASE SkipCheck \/ epoll_wait \/ TunDrained \/ UNCHANGED vars
  BY <1>5, WaitDown
<1>6. CASE ServerAccepts \/ ServerFails \/ ServerSends \/ ServerCloses
  BY <1>6, ServerDown
<1> QED
  BY <1>1, <1>2, <1>3, <1>4, <1>5, <1>6 DEF Next, handle_events, Environment

-----------------------------------------------------------------------------
(* Nothing after a reset                                                   *)

LEMMA HeadOfTun ==
  ASSUME TypeOK, ReadsHead
  PROVE  /\ Head(tun) = tun[1] /\ 1 \in 1 .. Len(tun) /\ Head(tun) \in Packet
         /\ Len(tun') \in Nat
         /\ \A i \in 1 .. Len(tun') :
              tun'[i] = tun[i + 1] /\ i + 1 \in 1 .. Len(tun) /\ 1 < i + 1
<1>1. tun \in Seq(Packet) /\ tun # <<>> /\ tun' = Tail(tun)
  BY DEF TypeOK, ReadsHead
<1>2. /\ Head(tun) \in Packet /\ Len(Tail(tun)) = Len(tun) - 1
      /\ \A i \in 1 .. Len(Tail(tun)) : Tail(tun)[i] = tun[i + 1]
      /\ Len(tun) \in Nat /\ Len(tun) > 0
  BY <1>1, HeadTailProperties, LenProperties, EmptySeq
<1>3. Head(tun) = tun[1]
  BY <1>1
<1> QED
  BY <1>1, <1>2, <1>3

LEMMA TunType ==
  ASSUME TypeOK
  PROVE  /\ Len(tun) \in Nat
         /\ \A i \in 1 .. Len(tun) : tun[i] \in Packet /\ tun[i].window \in Nat
                                     /\ tun[i].ack_seq \in SeqNums
<1>1. tun \in Seq(Packet)
  BY DEF TypeOK
<1>2. \A i \in 1 .. Len(tun) : tun[i] \in Packet
  BY <1>1, ElementOfSeq
<1>3. \A p \in Packet : p.window \in Nat /\ p.ack_seq \in SeqNums
  BY DEF Packet
<1> QED
  BY <1>1, <1>2, <1>3, LenProperties

\* What is read, or nothing, leaves the app's packets in their order.
LEMMA TunKept ==
  ASSUME TypeOK, SynsFirst, tun' = tun \/ ReadsHead
  PROVE  /\ \A i, j \in 1 .. Len(tun') : i < j /\ Syn(tun'[j]) => Syn(tun'[i])
         /\ \A i \in 1 .. Len(tun') : Syn(tun'[i]) => ~Ack(tun'[i])
         /\ tun = <<>> => tun' = <<>>
         /\ (\A i \in 1 .. Len(tun) : Syn(tun[i])) => \A i \in 1 .. Len(tun') : Syn(tun'[i])
         /\ (\E i \in 1 .. Len(tun') : Syn(tun'[i])) =>
              /\ \E i \in 1 .. Len(tun) : Syn(tun[i])
              /\ ReadsHead => Syn(Head(tun))
<1>0. /\ \A i, j \in 1 .. Len(tun) : i < j /\ Syn(tun[j]) => Syn(tun[i])
      /\ \A i \in 1 .. Len(tun) : Syn(tun[i]) => ~Ack(tun[i])
  BY DEF SynsFirst
<1>1. CASE tun' = tun /\ ~ReadsHead
  BY <1>0, <1>1
<1>2. CASE ReadsHead
  <2>1. /\ Head(tun) = tun[1] /\ 1 \in 1 .. Len(tun) /\ Len(tun') \in Nat
        /\ \A i \in 1 .. Len(tun') :
             tun'[i] = tun[i + 1] /\ i + 1 \in 1 .. Len(tun) /\ 1 < i + 1
    BY <1>2, HeadOfTun
  <2>2. tun # <<>>
    BY <1>2 DEF ReadsHead
  <2>3. ASSUME NEW i \in 1 .. Len(tun'), NEW j \in 1 .. Len(tun'), i < j, Syn(tun'[j])
        PROVE  Syn(tun'[i])
    <3>1. i + 1 < j + 1
      BY <2>1, <2>3
    <3>2. Syn(tun[j + 1])
      BY <2>1, <2>3
    <3> QED
      BY <1>0, <2>1, <3>1, <3>2
  <2>4. ASSUME NEW i \in 1 .. Len(tun'), Syn(tun'[i])
        PROVE  /\ ~Ack(tun'[i]) /\ Syn(Head(tun))
               /\ \E k \in 1 .. Len(tun) : Syn(tun[k])
    <3>1. Syn(tun[i + 1])
      BY <2>1, <2>4
    <3> QED
      BY <1>0, <2>1, <3>1
  <2>5. ASSUME \A i \in 1 .. Len(tun) : Syn(tun[i]), NEW i \in 1 .. Len(tun')
        PROVE  Syn(tun'[i])
    BY <2>1, <2>5
  <2> QED
    BY <2>2, <2>3, <2>4, <2>5
<1> QED
  BY <1>1, <1>2

\* The connection goes on as it is, is reset or opens.
LEMMA SynsKept ==
  ASSUME TypeOK, SynsFirst, tun' = tun \/ ReadsHead,
         \/ app'.st = app.st
         \/ app.st \in {"syn_sent", "open"} /\ app'.st = "reset"
         \/ app.st = "syn_sent" /\ app'.st = "open",
         Opened(app') <=> Opened(app) \/ (app.st = "syn_sent" /\ app'.st = "open"),
         (Opened(app') \/ app'.st = "reset") /\ (\E i \in 1 .. Len(tun') : Syn(tun'[i]))
           => s'.state # "NONE" /\ Lingers'
  PROVE  SynsFirst'
<1>1. /\ \A i, j \in 1 .. Len(tun') : i < j /\ Syn(tun'[j]) => Syn(tun'[i])
      /\ \A i \in 1 .. Len(tun') : Syn(tun'[i]) => ~Ack(tun'[i])
      /\ app'.st = "closed" => tun' = <<>>
      /\ app'.st = "syn_sent" => \A i \in 1 .. Len(tun') : Syn(tun'[i])
  BY TunKept DEF SynsFirst
<1>2. /\ app'.st \in {"closed", "syn_sent"} => ~Opened(app')
      /\ app'.st = "open" => Opened(app')
  BY DEF SynsFirst
<1> QED
  BY <1>1, <1>2 DEF SynsFirst, Syn, Ack, Opened

\* What the app posts comes last.
LEMMA PostShape ==
  ASSUME TypeOK, NEW p \in Packet, Post(p)
  PROVE  /\ s' = s /\ pc' = pc /\ batch' = batch /\ remote' = remote
         /\ \/ tun' = tun
            \/ /\ Len(tun') = Len(tun) + 1 /\ tun'[Len(tun) + 1] = p
               /\ \A i \in 1 .. Len(tun) : tun'[i] = tun[i]
<1>1. tun \in Seq(Packet) /\ Len(tun) \in Nat
  BY LenProperties DEF TypeOK
<1>2. CASE tun' = Append(tun, p)
  BY <1>1, <1>2, AppendProperties DEF Post
<1> QED
  BY <1>2 DEF Post

\* tcp.c: the three things the app does, with the packet of each.
LEMMA AppConnectsShape ==
  ASSUME TypeOK, AppConnects
  PROVE  /\ app.st \in {"closed", "syn_sent"} /\ app'.st = "syn_sent"
         /\ app'.irs = app.irs /\ app'.rcv = app.rcv /\ app'.edge = app.edge
         /\ app'.faults = app.faults
         /\ \E p \in Packet : Syn(p) /\ ~Ack(p) /\ Post(p)
<1>1. PICK iss \in AppISNs, w \in Windows, n \in 0 .. (IF SynData THEN AppBytes ELSE 0) :
        LET a == IF app.st = "closed"
                 THEN [app EXCEPT !.st = "syn_sent", !.iss = iss, !.nxt = n + 1]
                 ELSE app
        IN  /\ app.st \in {"closed", "syn_sent"}
            /\ app' = a /\ Post(PacketOf(a, {"SYN"}, 0, n, w))
  BY DEF AppConnects
<1>2. app \in AppEnd /\ iss \in SeqNums /\ w \in Nat /\ n \in Nat
  BY TcpAssumption DEF TypeOK
<1>3. /\ app' \in AppEnd /\ app'.st = "syn_sent"
      /\ app'.irs = app.irs /\ app'.rcv = app.rcv /\ app'.edge = app.edge
      /\ app'.faults = app.faults
  <2>1. n + 1 \in Nat
    BY <1>2
  <2>2. \A i \in Nat : LET a == [app EXCEPT !.st = "syn_sent", !.iss = iss, !.nxt = i]
                       IN  /\ a \in AppEnd /\ a.st = "syn_sent"
                           /\ a.irs = app.irs /\ a.rcv = app.rcv /\ a.edge = app.edge
                           /\ a.faults = app.faults
    BY <1>2 DEF AppEnd
  <2> QED
    BY <1>1, <1>2, <2>1, <2>2
<1>4. PacketOf(app', {"SYN"}, 0, n, w) \in Packet
  <2>1. {"SYN"} \in SUBSET Flags
    BY DEF Flags
  <2> QED
    BY <1>2, <1>3, <2>1, PacketOfType
<1>5. Syn(PacketOf(app', {"SYN"}, 0, n, w)) /\ ~Ack(PacketOf(app', {"SYN"}, 0, n, w))
  BY DEF PacketOf, Syn, Ack
<1> QED
  BY <1>1, <1>3, <1>4, <1>5

LEMMA AppSendsShape ==
  ASSUME TypeOK, AppSends
  PROVE  /\ app.st = "open" /\ app'.st = "open"
         /\ app'.irs = app.irs /\ app'.rcv = app.rcv /\ app'.faults = app.faults
         /\ app'.edge \in Nat /\ app.edge <= app'.edge
         /\ \E p \in Packet :
              /\ ~Syn(p) /\ Ack(p) /\ Post(p)
              /\ p.ack_seq = SeqAdd(app.irs, app.rcv)
              /\ app.rcv + p.window <= app'.edge
<1>1. PICK from \in {app.una, app.nxt}, to \in 1 .. AppBytes + 2, fin \in BOOLEAN,
           w \in Windows :
        LET len == to - from
            end == IF fin THEN to + 1 ELSE to
        IN  /\ from <= to
            /\ len > 0 => to <= AppBytes + 1
            /\ from < app.nxt => end <= app.nxt
            /\ fin => to = AppBytes + 1
            /\ len = 0 /\ ~fin => from = app.nxt
            /\ Post(PacketOf(app, IF fin THEN {"ACK", "FIN"} ELSE {"ACK"}, from, len, w))
            /\ app' = [app EXCEPT !.nxt = IF end > @ THEN end ELSE @,
                                  !.edge = IF app.rcv + w > @ THEN app.rcv + w ELSE @]
  BY DEF AppSends
<1>2. /\ app \in AppEnd /\ w \in Nat /\ to \in Nat /\ app.st = "open"
      /\ app.rcv \in Nat /\ app.edge \in Nat
  BY TcpAssumption, AppType DEF TypeOK, AppSends
<1>3. from \in Nat /\ to - from \in Nat
  BY <1>1, <1>2 DEF AppEnd
<1>4. /\ app'.st = app.st /\ app'.irs = app.irs /\ app'.rcv = app.rcv
      /\ app'.faults = app.faults
      /\ app'.edge = IF app.rcv + w > app.edge THEN app.rcv + w ELSE app.edge
  BY <1>1, <1>2 DEF AppEnd
<1>5. app'.edge \in Nat /\ app.edge <= app'.edge /\ app.rcv + w <= app'.edge
  BY <1>2, <1>4
<1> DEFINE p == PacketOf(app, IF fin THEN {"ACK", "FIN"} ELSE {"ACK"}, from, to - from, w)
<1>6. p \in Packet
  <2>1. {"ACK", "FIN"} \in SUBSET Flags /\ {"ACK"} \in SUBSET Flags
    BY DEF Flags
  <2> QED
    BY <1>2, <1>3, <2>1, PacketOfType
<1>7. ~Syn(p) /\ Ack(p) /\ p.ack_seq = SeqAdd(app.irs, app.rcv) /\ p.window = w
  BY DEF PacketOf, Syn, Ack
<1>8. Post(p)
  BY <1>1
<1> HIDE DEF p
<1> QED
  BY <1>2, <1>4, <1>5, <1>6, <1>7, <1>8

LEMMA AppAbortsShape ==
  ASSUME TypeOK, AppAborts
  PROVE  /\ app.st \in {"syn_sent", "open", "aborted"} /\ app'.st = "aborted"
         /\ app'.irs = app.irs /\ app'.rcv = app.rcv /\ app'.edge = app.edge
         /\ app'.faults = app.faults
         /\ \E p \in Packet : ~Syn(p) /\ ~Ack(p) /\ Post(p)
<1>1. app \in AppEnd /\ app.nxt \in Nat /\ {"RST"} \in SUBSET Flags
  BY DEF TypeOK, AppEnd, Flags
<1>2. PacketOf(app, {"RST"}, app.nxt, 0, 0) \in Packet
  BY <1>1, PacketOfType
<1>3. /\ ~Syn(PacketOf(app, {"RST"}, app.nxt, 0, 0))
      /\ ~Ack(PacketOf(app, {"RST"}, app.nxt, 0, 0))
  BY DEF PacketOf, Syn, Ack
<1>4. /\ app'.st = "aborted"
      /\ app'.irs = app.irs /\ app'.rcv = app.rcv /\ app'.edge = app.edge
      /\ app'.faults = app.faults
  BY <1>1 DEF AppAborts, AppEnd
<1> QED
  BY <1>2, <1>3, <1>4 DEF AppAborts

\* A step of the thread or of the server: the app's packets are kept or read.
LEMMA ResetKept ==
  ASSUME TypeOK, ResetInv,
         \/ Stays \/ Ends \/ Frees \/ Rejects \/ Listens
         \/ Hears \/ Connects \/ PassesOn \/ Finishes
  PROVE  ResetInv'
<1>1. /\ app.st \in {"closed", "syn_sent", "open", "aborted", "reset"}
      /\ app.rcv \in Nat /\ s \in Session
  BY AppType DEF TypeOK
<1>2. /\ SynsFirst
      /\ app.st = "reset" => s.state \in {"NONE", "CLOSING", "CLOSE"}
      /\ Opened(app) => s.state # "LISTEN"
      /\ "after_reset" \notin app.faults
  BY DEF ResetInv
<1>3. /\ app.st \in {"closed", "syn_sent"} => ~Opened(app)
      /\ app.st = "open" => Opened(app)
  BY <1>2 DEF SynsFirst
<1>4. (Opened(app) \/ app.st = "reset") /\ (\E i \in 1 .. Len(tun) : Syn(tun[i]))
        => s.state # "NONE" /\ Lingers
  BY <1>2 DEF SynsFirst
<1>5. Syn(Head(tun)) /\ ReadsHead => \E i \in 1 .. Len(tun) : Syn(tun[i])
  BY HeadOfTun
<1>6. CASE Stays
  <2>1. /\ app'.st = app.st /\ (Opened(app') <=> Opened(app)) /\ tun' = tun
        /\ s'.state = s.state
        /\ "after_reset" \in app'.faults <=> "after_reset" \in app.faults
    BY <1>6 DEF Stays, Same, Watched, Opened
  <2>2. (\E i \in 1 .. Len(tun) : Syn(tun[i])) => tun # <<>>
    OBVIOUS
  <2>3. Lingers /\ tun # <<>> => Lingers'
    BY <1>6 DEF Stays
  <2>4. (Opened(app') \/ app'.st = "reset") /\ (\E i \in 1 .. Len(tun') : Syn(tun'[i]))
          => s'.state # "NONE" /\ Lingers'
    BY <1>4, <2>1, <2>2, <2>3
  <2>5. SynsFirst'
    BY <1>1, <1>2, <1>3, <2>1, <2>4, SynsKept
  <2> QED
    BY <1>2, <2>1, <2>5 DEF ResetInv, Opened
<1>7. CASE Ends
  <2>1. /\ app'.st = app.st \/ (app.st \in {"syn_sent", "open"} /\ app'.st = "reset")
        /\ Opened(app') <=> Opened(app)
        /\ "after_reset" \in app'.faults <=> "after_reset" \in app.faults
    BY <1>7 DEF Ends, SameOrReset, Watched, Opened
  <2>2. /\ s'.state \in {"CLOSING", "CLOSE"} /\ Lingers'
        /\ tun' = tun \/ ReadsHead
    BY <1>7 DEF Ends
  <2>3. SynsFirst'
    BY <1>1, <1>2, <1>3, <2>1, <2>2, SynsKept
  <2> QED
    BY <1>2, <2>1, <2>2, <2>3 DEF ResetInv, Opened
<1>8. CASE Frees
  <2>1. app' = app /\ tun' = tun /\ s'.state = "NONE" /\ ~Lingers
    BY <1>8 DEF Frees, Lingers
  <2>2. SynsFirst'
    BY <1>1, <1>2, <1>3, <1>4, <2>1, SynsKept
  <2> QED
    BY <1>2, <2>1, <2>2 DEF ResetInv, Opened
<1>9. CASE Rejects
  <2>1. /\ app'.st = app.st \/ (app.st \in {"syn_sent", "open"} /\ app'.st = "reset")
        /\ Opened(app') <=> Opened(app)
        /\ "after_reset" \in app'.faults <=> "after_reset" \in app.faults
    BY <1>9 DEF Rejects, SameOrReset, Watched, Opened
  <2>2. /\ s'.state = "NONE" /\ s.state = "NONE" /\ ReadsHead
        /\ Syn(Head(tun)) => app' = app
    BY <1>9 DEF Rejects
  <2>3. (\E i \in 1 .. Len(tun') : Syn(tun'[i])) => Syn(Head(tun))
    BY <1>2, <2>2, TunKept
  <2>4. SynsFirst'
    BY <1>1, <1>2, <1>3, <1>4, <1>5, <2>1, <2>2, <2>3, SynsKept
  <2> QED
    BY <1>2, <2>1, <2>2, <2>4 DEF ResetInv, Opened
<1>10. CASE Listens
  <2>1. app' = app /\ s'.state = "LISTEN" /\ ReadsHead
    BY <1>10 DEF Listens
  <2>2. ~Opened(app) /\ app.st # "reset"
    BY <1>4, <1>5, <1>10 DEF Listens
  <2>3. SynsFirst'
    BY <1>1, <1>2, <1>3, <2>1, <2>2, SynsKept
  <2> QED
    BY <1>2, <2>1, <2>2, <2>3 DEF ResetInv, Opened
<1>11. CASE Hears
  <2>1. /\ app'.st = app.st /\ (Opened(app') <=> Opened(app)) /\ ReadsHead
        /\ "after_reset" \in app'.faults <=> "after_reset" \in app.faults
    BY <1>11 DEF Hears, Same, Watched, Opened
  <2>2. /\ app.st # "reset" /\ s'.state \notin {"NONE", "CLOSE"}
        /\ s'.state = "LISTEN" => s.state = "LISTEN"
    BY <1>2, <1>11 DEF Hears, Live
  <2>3. SynsFirst'
    BY <1>1, <1>2, <1>3, <2>1, <2>2, SynsKept DEF Lingers
  <2> QED
    BY <1>2, <2>1, <2>2, <2>3 DEF ResetInv, Opened
<1>12. CASE Connects
  <2>1. s.state = "LISTEN" /\ s'.state = "SYN_RECV" /\ tun' = tun
    BY <1>12 DEF Connects
  <2>2. ~Opened(app) /\ app.st \notin {"open", "reset"}
    BY <1>2, <1>3, <2>1
  <2>3. /\ IF app.st = "syn_sent" THEN app'.st = "open" /\ app'.rcv = 1
           ELSE app'.st = app.st /\ app'.rcv = app.rcv
        /\ "after_reset" \notin app'.faults
    BY <1>2, <1>12, <2>2 DEF Connects, Opens
  <2>4. Opened(app') <=> app.st = "syn_sent"
    BY <2>2, <2>3 DEF Opened
  <2>5. SynsFirst'
    BY <1>1, <1>2, <1>3, <2>1, <2>2, <2>3, <2>4, SynsKept DEF Lingers
  <2> QED
    BY <1>1, <2>1, <2>2, <2>3, <2>5 DEF ResetInv, Opened
<1>13. ASSUME PassesOn \/ Finishes
       PROVE  /\ Transferring(s) /\ tun' = tun
              /\ s'.state \in {"ESTABLISHED", "CLOSE_WAIT", "FIN_WAIT1", "LAST_ACK"}
              /\ \E n \in Nat : Receives(app, app', s.local_seq, n)
  <2>1. SendWindow(s) \in Nat
    BY <1>1, SendWindowType
  <2> QED
    BY <1>13, <2>1 DEF PassesOn, Finishes, Transferring
<1>14. CASE PassesOn \/ Finishes
  <2>1. app.st # "reset"
    BY <1>2, <1>13, <1>14 DEF Transferring
  <2>2. PICK n \in Nat : Receives(app, app', s.local_seq, n)
    BY <1>13, <1>14
  <2>3. /\ app'.st = app.st /\ "after_reset" \notin app'.faults
        /\ app.st # "open" => app'.rcv = app.rcv
        /\ app.st = "open" => app'.rcv \in Nat /\ app'.rcv >= app.rcv
    <3>1. app'.st = app.st /\ "after_reset" \notin app'.faults
      BY <1>2, <2>1, <2>2 DEF Receives
    <3>2. app'.rcv = IF app.st = "open" /\ (s.local_seq - app.irs) % Mod = app.rcv
                     THEN app.rcv + (IF n = 0 THEN 1 ELSE n) ELSE app.rcv
      BY <2>2 DEF Receives
    <3> QED
      BY <1>1, <3>1, <3>2
  <2>4. Opened(app') <=> Opened(app)
    BY <1>1, <1>3, <2>3 DEF Opened
  <2>5. SynsFirst'
    BY <1>1, <1>2, <1>3, <1>13, <1>14, <2>1, <2>3, <2>4, SynsKept DEF Lingers
  <2> QED
    BY <1>2, <1>13, <1>14, <2>1, <2>3, <2>4, <2>5 DEF ResetInv, Opened
<1> QED
  BY <1>6, <1>7, <1>8, <1>9, <1>10, <1>11, <1>12, <1>14

\* A step of the app.
LEMMA ResetApp ==
  ASSUME TypeOK, ResetInv, AppConnects \/ AppSends \/ AppAborts
  PROVE  ResetInv'
<1>1. /\ SynsFirst
      /\ app.st = "reset" => s.state \in {"NONE", "CLOSING", "CLOSE"}
      /\ Opened(app) => s.state # "LISTEN"
      /\ "after_reset" \notin app.faults
  BY DEF ResetInv
<1>2. /\ \A i, j \in 1 .. Len(tun) : i < j /\ Syn(tun[j]) => Syn(tun[i])
      /\ \A i \in 1 .. Len(tun) : Syn(tun[i]) => ~Ack(tun[i])
      /\ app.st = "closed" => tun = <<>>
      /\ app.st = "syn_sent" => \A i \in 1 .. Len(tun) : Syn(tun[i])
      /\ app.st \in {"closed", "syn_sent"} => ~Opened(app)
      /\ app.st = "open" => Opened(app)
      /\ (Opened(app) \/ app.st = "reset") /\ (\E i \in 1 .. Len(tun) : Syn(tun[i]))
           => s.state # "NONE" /\ Lingers
  BY <1>1 DEF SynsFirst
<1>3. /\ app'.rcv = app.rcv /\ app'.faults = app.faults /\ app'.st # "reset"
      /\ app'.st \in {"syn_sent", "open", "aborted"}
      /\ app'.st = "syn_sent" => app.st \in {"closed", "syn_sent"}
      /\ app'.st = "open" => app.st = "open"
  BY AppConnectsShape, AppSendsShape, AppAbortsShape
<1>4. PICK p \in Packet : /\ Post(p) /\ (Syn(p) => ~Ack(p))
                          /\ Syn(p) <=> app'.st = "syn_sent"
  BY AppConnectsShape, AppSendsShape, AppAbortsShape
<1>5. /\ s' = s /\ pc' = pc /\ batch' = batch
      /\ \/ tun' = tun
         \/ /\ Len(tun') = Len(tun) + 1 /\ tun'[Len(tun) + 1] = p
            /\ \A i \in 1 .. Len(tun) : tun'[i] = tun[i]
  BY <1>4, PostShape
<1>6. Len(tun) \in Nat /\ (app.st = "closed" => Len(tun) = 0)
  <2>1. Len(<<>>) = 0
    OBVIOUS
  <2> QED
    BY <1>2, <2>1, TunType
<1>7. app'.st = "syn_sent" => \A i \in 1 .. Len(tun) : Syn(tun[i])
  BY <1>2, <1>3, <1>6
<1>8. /\ \A i, j \in 1 .. Len(tun') : i < j /\ Syn(tun'[j]) => Syn(tun'[i])
      /\ \A i \in 1 .. Len(tun') : Syn(tun'[i]) => ~Ack(tun'[i])
      /\ app'.st = "syn_sent" => \A i \in 1 .. Len(tun') : Syn(tun'[i])
      /\ app'.st # "syn_sent" /\ (\E i \in 1 .. Len(tun') : Syn(tun'[i]))
           => \E i \in 1 .. Len(tun) : Syn(tun[i])
  <2>1. CASE tun' = tun
    BY <1>2, <1>7, <2>1
  <2>2. CASE tun' # tun
    <3>1. /\ Len(tun') = Len(tun) + 1 /\ tun'[Len(tun) + 1] = p
          /\ \A i \in 1 .. Len(tun) : tun'[i] = tun[i]
      BY <1>5, <2>2
    <3>2. \A i \in 1 .. Len(tun') : i \in 1 .. Len(tun) \/ i = Len(tun) + 1
      BY <1>6, <3>1
    <3>3. ASSUME NEW i \in 1 .. Len(tun'), NEW j \in 1 .. Len(tun'), i < j, Syn(tun'[j])
          PROVE  Syn(tun'[i])
      <4>1. i \in 1 .. Len(tun)
        BY <1>6, <3>1, <3>3
      <4>2. CASE j \in 1 .. Len(tun)
        BY <1>2, <3>1, <3>3, <4>1, <4>2
      <4>3. CASE j = Len(tun) + 1
        BY <1>4, <1>7, <3>1, <3>3, <4>1, <4>3
      <4> QED
        BY <3>2, <4>2, <4>3
    <3>4. ASSUME NEW i \in 1 .. Len(tun')
          PROVE  /\ Syn(tun'[i]) => ~Ack(tun'[i])
                 /\ app'.st = "syn_sent" => Syn(tun'[i])
                 /\ app'.st # "syn_sent" /\ Syn(tun'[i])
                      => \E k \in 1 .. Len(tun) : Syn(tun[k])
      <4>1. CASE i \in 1 .. Len(tun)
        BY <1>2, <1>7, <3>1, <4>1
      <4>2. CASE i = Len(tun) + 1
        BY <1>4, <3>1, <4>2
      <4> QED
        BY <3>2, <4>1, <4>2
    <3> QED
      BY <3>3, <3>4
  <2> QED
    BY <2>1, <2>2
<1>9. SynsFirst'
  <2>1. app'.st \in {"closed", "syn_sent"} => ~Opened(app')
    BY <1>2, <1>3 DEF Opened
  <2>2. app'.st = "open" => Opened(app')
    BY <1>2, <1>3 DEF Opened
  <2>3. Lingers => Lingers'
    BY <1>5 DEF Lingers
  <2>4. (Opened(app') \/ app'.st = "reset") /\ (\E i \in 1 .. Len(tun') : Syn(tun'[i]))
          => s'.state # "NONE" /\ Lingers'
    <3>1. Opened(app') => Opened(app) /\ app'.st # "syn_sent"
      BY <1>3, <2>1 DEF Opened
    <3> QED
      BY <1>2, <1>3, <1>5, <1>8, <2>3, <3>1
  <2> QED
    BY <1>3, <1>8, <2>1, <2>2, <2>4 DEF SynsFirst, Syn, Ack, Opened
<1> QED
  BY <1>1, <1>3, <1>5, <1>9 DEF ResetInv, Opened

\* Where the system starts.
LEMMA StartShape ==
  ASSUME Init
  PROVE  /\ s.state = "NONE" /\ app.st = "closed" /\ app.rcv = 0 /\ app.faults = {}
         /\ tun = <<>> /\ Len(tun) = 0 /\ Ahead = 0
BY DEF Init, NoSession, NoRemote, Ahead

\* The inductive invariant: SYNs are read before anything that may reset the
\* connection, so that no second session answers one of them afterwards.
THEOREM ResetInvInductive == Spec => []ResetInv
<1>1. Init => ResetInv
  <2> SUFFICES ASSUME Init PROVE ResetInv
    OBVIOUS
  <2>1. ~Opened(app)
    BY StartShape DEF Opened
  <2>2. SynsFirst
    BY <2>1, StartShape DEF SynsFirst
  <2> QED
    BY <2>1, <2>2, StartShape DEF ResetInv
<1>2. TypeOK /\ SocketInv /\ ResetInv /\ [Next]_vars => ResetInv'
  BY StepDown, ResetKept, ResetApp
<1> QED
  BY <1>1, <1>2, TypeCorrect, SocketInvInductive, PTL DEF Spec

\* tcp.c:350: for every stream, window, loss, number of packets on their way and
\* failed write: no data, FIN or SYN+ACK reaches the app after an RST.
THEOREM NothingFollowsReset == Spec => []NothingAfterReset
<1>1. ResetInv => NothingAfterReset
  BY DEF ResetInv, NothingAfterReset
<1> QED
  BY <1>1, ResetInvInductive, PTL

-----------------------------------------------------------------------------
(* The stream without a gap                                                *)

LEMMA AheadType ==
  ASSUME TypeOK
  PROVE  Ahead \in Nat
BY DEF TypeOK, RemoteEnd, Ahead

LEMMA OffType ==
  ASSUME NEW i \in SeqNums, NEW n \in SeqNums
  PROVE  (n - i) % Mod \in Nat /\ (n - i) % Mod < Mod
<1>1. n - i \in Int /\ Mod \in Nat /\ Mod > 0
  BY SeqNumsAreNat, HalfAssumption DEF Mod
<1> QED
  BY <1>1

\* The parts of the invariant for an end of the app and a session.
LEMMA StreamParts ==
  ASSUME TypeOK, StreamInv, ResetInv
  PROVE  /\ s \in Session /\ app \in AppEnd /\ Ahead \in Nat /\ RemoteBytes \in Nat
         /\ app.rcv \in Nat /\ app.irs \in SeqNums /\ s.local_seq \in SeqNums
         /\ Off(s.local_seq) \in Nat
         /\ Ahead <= RemoteBytes
         /\ app.st = "open" => Opened(app)
         /\ Opened(app) => app.rcv <= RemoteBytes + 2 /\ app.irs \in LocalISNs
         /\ Opened(app) /\ Live(s) =>
              app.rcv <= Off(s.local_seq) /\ Off(s.local_seq) <= RemoteBytes + 2
         /\ Opened(app) /\ Live(s) /\ s.state \in Sending =>
              /\ Off(s.local_seq) + Ahead <= RemoteBytes + 1
              /\ app.st = "open" => Off(s.local_seq) = app.rcv
         /\ "gap" \notin app.faults
<1>1. s \in Session /\ app \in AppEnd /\ s.local_seq \in SeqNums
  BY DEF TypeOK, Session
<1>2. app.irs \in SeqNums /\ app.rcv \in Nat
  BY <1>1, AppType
<1>3. Off(s.local_seq) \in Nat
  BY <1>1, <1>2, OffType DEF Off
<1>4. app.st = "open" => Opened(app)
  BY DEF ResetInv, SynsFirst
<1> QED
  BY <1>1, <1>2, <1>3, <1>4, AheadType, TcpAssumption DEF StreamInv

LEMMA StreamKept ==
  ASSUME TypeOK, TypeOK', ResetInv, ResetInv', StreamInv, RemoteFits,
         \/ Stays \/ Ends \/ Frees \/ Rejects \/ Listens
         \/ Hears \/ Connects \/ PassesOn \/ Finishes
  PROVE  StreamInv'
<1>1. /\ s \in Session /\ app \in AppEnd /\ Ahead \in Nat /\ RemoteBytes \in Nat
      /\ app.rcv \in Nat /\ app.irs \in SeqNums /\ s.local_seq \in SeqNums
      /\ Off(s.local_seq) \in Nat
      /\ Ahead <= RemoteBytes
      /\ app.st = "open" => Opened(app)
      /\ Opened(app) => app.rcv <= RemoteBytes + 2 /\ app.irs \in LocalISNs
      /\ Opened(app) /\ Live(s) =>
           app.rcv <= Off(s.local_seq) /\ Off(s.local_seq) <= RemoteBytes + 2
      /\ Opened(app) /\ Live(s) /\ s.state \in Sending =>
           /\ Off(s.local_seq) + Ahead <= RemoteBytes + 1
           /\ app.st = "open" => Off(s.local_seq) = app.rcv
      /\ "gap" \notin app.faults
  BY StreamParts
<1>2. s' \in Session /\ app' \in AppEnd /\ Ahead' \in Nat
  BY DEF TypeOK, RemoteEnd, Ahead
<1>3. app'.irs \in SeqNums /\ app'.rcv \in Nat
  BY <1>2, AppType
\* It suffices to look at the stream as the app counts it after the step.
<1> DEFINE off == (s'.local_seq - app'.irs) % Mod
<1>4. ASSUME Ahead' <= RemoteBytes,
             s'.state = "LISTEN" => s'.local_seq \in LocalISNs,
             Opened(app') => app'.rcv <= RemoteBytes + 2 /\ app'.irs \in LocalISNs,
             Opened(app') /\ Live(s') =>
               /\ app'.rcv <= off /\ off <= RemoteBytes + 2
               /\ s'.state \in Sending => off + Ahead' <= RemoteBytes + 1
               /\ s'.state \in Sending /\ app'.st = "open" => off = app'.rcv,
             "gap" \notin app'.faults
      PROVE  StreamInv'
  BY <1>4 DEF StreamInv, Off, Opened, Live, Sending
<1>5. ASSUME app'.irs = app.irs, s'.local_seq = s.local_seq
      PROVE  off = Off(s.local_seq)
  BY <1>5 DEF Off
<1>6. CASE Stays \/ Hears
  <2>1. /\ app'.st = app.st /\ app'.irs = app.irs /\ app'.rcv = app.rcv
        /\ "gap" \notin app'.faults
        /\ Opened(app') <=> Opened(app)
    BY <1>1, <1>6 DEF Stays, Hears, Same, Watched, Opened
  <2>2. s'.local_seq = s.local_seq /\ Ahead' <= Ahead
    BY <1>6 DEF Stays, Hears, SameNumbers
  <2>3. /\ Live(s') => Live(s)
        /\ s'.state \in Sending => s.state \in Sending
        /\ s'.state = "LISTEN" => s.state = "LISTEN"
    BY <1>6 DEF Stays, Hears, Live, Sending
  <2>4. off = Off(s.local_seq)
    BY <1>5, <2>1, <2>2
  <2>5. s'.state = "LISTEN" => s'.local_seq \in LocalISNs
    BY <2>2, <2>3 DEF StreamInv
  <2> HIDE DEF off
  <2> QED
    BY <1>1, <1>2, <1>4, <2>1, <2>2, <2>3, <2>4, <2>5
<1>7. CASE Ends \/ Frees \/ Rejects
  <2>1. /\ app'.irs = app.irs /\ app'.rcv = app.rcv
        /\ "gap" \notin app'.faults
        /\ Opened(app') <=> Opened(app)
    BY <1>1, <1>7 DEF Ends, Frees, Rejects, SameOrReset, Watched, Opened
  <2>2. ~Live(s') /\ s'.state # "LISTEN" /\ Ahead' <= Ahead
    BY <1>7 DEF Ends, Frees, Rejects, Live
  <2> HIDE DEF off
  <2> QED
    BY <1>1, <1>2, <1>4, <2>1, <2>2
<1>8. CASE Listens
  <2>1. app' = app /\ s'.state = "LISTEN" /\ s'.local_seq \in LocalISNs /\ Ahead' = RemoteBytes
    BY <1>8 DEF Listens
  <2>2. ~Opened(app')
    BY <2>1 DEF ResetInv, Opened
  <2> HIDE DEF off
  <2> QED
    BY <1>1, <1>4, <2>1, <2>2
<1>9. CASE Connects
  <2>1. /\ s.state = "LISTEN" /\ s'.state = "SYN_RECV" /\ Ahead' <= Ahead
        /\ s'.local_seq = SeqAdd(s.local_seq, 1) /\ Opens(app, app', s.local_seq)
    BY <1>9 DEF Connects
  <2>2. ~Opened(app) /\ s.local_seq \in LocalISNs
    BY <2>1 DEF ResetInv, StreamInv
  <2>3. "gap" \notin app'.faults
    BY <1>1, <2>1 DEF Opens
  <2>4. CASE app.st = "syn_sent"
    <3>1. app'.irs = s.local_seq /\ app'.rcv = 1
      BY <2>1, <2>4 DEF Opens
    <3>2. (s.local_seq - s.local_seq) % Mod = 0
      <4>1. s.local_seq - s.local_seq = 0
        BY <1>1, SeqNumsAreNat
      <4> QED
        BY <4>1, ModWithin, HalfAssumption DEF Mod
    <3>3. off = 1
      <4>1. ((s.local_seq - s.local_seq) % Mod) + 1 < Mod
        BY <3>2, HalfAssumption DEF Mod
      <4>2. (SeqAdd(s.local_seq, 1) - s.local_seq) % Mod
              = ((s.local_seq - s.local_seq) % Mod) + 1
        BY <1>1, <4>1, DistanceAdd
      <4> QED
        BY <2>1, <3>1, <3>2, <4>2
    <3> HIDE DEF off
    <3>4. /\ Ahead' <= RemoteBytes /\ 1 + Ahead' <= RemoteBytes + 1
          /\ 1 <= RemoteBytes + 2
      <4>1. Ahead' <= Ahead /\ Ahead <= RemoteBytes
        BY <1>1, <2>1
      <4>2. Ahead \in Nat /\ Ahead' \in Nat /\ RemoteBytes \in Nat
        BY <1>1, <1>2
      <4>3. \A u, v, w \in Nat : u <= v /\ v <= w =>
                                  u <= w /\ 1 + u <= w + 1 /\ 1 <= w + 2
        OBVIOUS
      <4> QED
        BY <4>1, <4>2, <4>3
    <3>5. s'.state # "LISTEN"
      BY <2>1
    <3>6. off <= RemoteBytes + 2 /\ off + Ahead' <= RemoteBytes + 1
      BY <3>3, <3>4
    <3>7. app'.rcv <= off /\ off = app'.rcv /\ app'.rcv <= RemoteBytes + 2
      BY <3>1, <3>3, <3>4
    <3> QED
      BY <1>4, <2>2, <2>3, <3>1, <3>4, <3>5, <3>6, <3>7
  <2>5. CASE app.st # "syn_sent"
    <3>1. ~Opened(app')
      BY <2>1, <2>2, <2>5 DEF Opens, Opened
    <3> HIDE DEF off
    <3> QED
      BY <1>1, <1>2, <1>4, <2>1, <2>3, <3>1
  <2> QED
    BY <2>4, <2>5
\* One byte or more, or the FIN: n numbers of which the app receives all.
<1>10. ASSUME Transferring(s), NEW n \in Nat, NEW k \in Nat,
              k = (IF n = 0 THEN 1 ELSE n),
              s'.local_seq = SeqAdd(s.local_seq, k),
              Receives(app, app', s.local_seq, n),
              Opened(app) => Off(s.local_seq) + k <= RemoteBytes + 2
       PROVE  /\ app'.st = app.st /\ app'.irs = app.irs /\ "gap" \notin app'.faults
              /\ Opened(app') => Opened(app)
              /\ app'.rcv = IF app.st = "open" THEN app.rcv + k ELSE app.rcv
              /\ Opened(app) => off = Off(s.local_seq) + k
  <2>1. Live(s) /\ s.state \in Sending
    BY <1>10 DEF Transferring, Live, Sending
  <2>2. app.st = "open" => (s.local_seq - app.irs) % Mod = app.rcv
    BY <1>1, <2>1 DEF Off
  <2>3. app'.st = app.st /\ app'.irs = app.irs /\ "gap" \notin app'.faults
    BY <1>1, <1>10, <2>2 DEF Receives
  <2>4. app'.rcv = IF app.st = "open" THEN app.rcv + k ELSE app.rcv
    BY <1>10, <2>2 DEF Receives
  <2>5. Opened(app') => Opened(app)
    BY <1>1, <2>4 DEF Opened
  <2>6. Opened(app) => off = Off(s.local_seq) + k
    <3>1. Opened(app) => ((s.local_seq - app.irs) % Mod) + k < Mod
      <4> HIDE DEF off
      <4>1. Off(s.local_seq) = (s.local_seq - app.irs) % Mod
        BY DEF Off
      <4>2. Mod \in Nat
        BY HalfAssumption DEF Mod
      <4>3. Opened(app) => Off(s.local_seq) + k < Mod
        BY <1>1, <1>10, <4>2 DEF RemoteFits
      <4> QED
        BY <4>1, <4>3, Zenon
    <3>2. Opened(app) => (SeqAdd(s.local_seq, k) - app.irs) % Mod
                           = ((s.local_seq - app.irs) % Mod) + k
      BY <1>1, <3>1, DistanceAdd
    <3> QED
      BY <1>10, <2>3, <3>2, Zenon DEF Off
  <2> QED
    BY <2>3, <2>4, <2>5, <2>6
<1>11. CASE PassesOn
  <2>1. PICK n \in 1 .. SendWindow(s) :
          /\ Transferring(s) /\ s'.state = s.state
          /\ s'.local_seq = SeqAdd(s.local_seq, n)
          /\ Receives(app, app', s.local_seq, n) /\ Ahead' <= Ahead - n
    BY <1>11 DEF PassesOn
  <2>2. n \in Nat /\ n > 0 /\ n = (IF n = 0 THEN 1 ELSE n)
    BY <1>1, SendWindowType
  <2>3. Live(s) /\ s.state \in Sending
    BY <2>1 DEF Transferring, Live, Sending
  <2>4. Opened(app) => Off(s.local_seq) + n <= RemoteBytes + 1
    BY <1>1, <1>2, <2>1, <2>2, <2>3
  <2>5. Opened(app) => Off(s.local_seq) + n <= RemoteBytes + 2
    BY <1>1, <2>2, <2>4
  <2> HIDE DEF off
  <2>6. /\ app'.st = app.st /\ app'.irs = app.irs /\ "gap" \notin app'.faults
        /\ Opened(app') => Opened(app)
        /\ app'.rcv = IF app.st = "open" THEN app.rcv + n ELSE app.rcv
        /\ Opened(app) => off = Off(s.local_seq) + n
    BY <1>10, <2>1, <2>2, <2>5
  <2>7. s'.state # "LISTEN"
    BY <2>1 DEF Transferring
  <2> QED
    BY <1>1, <1>2, <1>4, <2>1, <2>2, <2>3, <2>4, <2>6, <2>7
<1>12. CASE Finishes
  <2>1. /\ Transferring(s) /\ s'.state \in {"FIN_WAIT1", "LAST_ACK"}
        /\ s'.local_seq = SeqAdd(s.local_seq, 1)
        /\ Receives(app, app', s.local_seq, 0) /\ Ahead' <= Ahead
    BY <1>12 DEF Finishes
  <2>2. Live(s) /\ s.state \in Sending
    BY <2>1 DEF Transferring, Live, Sending
  <2>3. Opened(app) => Off(s.local_seq) + 1 <= RemoteBytes + 2
    BY <1>1, <2>2
  <2> HIDE DEF off
  <2>4. /\ app'.st = app.st /\ app'.irs = app.irs /\ "gap" \notin app'.faults
        /\ Opened(app') => Opened(app)
        /\ app'.rcv = IF app.st = "open" THEN app.rcv + 1 ELSE app.rcv
        /\ Opened(app) => off = Off(s.local_seq) + 1
    BY <1>10, <2>1, <2>3
  <2>5. s'.state # "LISTEN" /\ s'.state \notin Sending
    BY <2>1 DEF Sending
  <2> QED
    BY <1>1, <1>2, <1>4, <2>1, <2>2, <2>3, <2>4, <2>5
<1> QED
  BY <1>6, <1>7, <1>8, <1>9, <1>11, <1>12

LEMMA StreamApp ==
  ASSUME TypeOK, ResetInv, StreamInv, AppConnects \/ AppSends \/ AppAborts
  PROVE  StreamInv'
<1>1. /\ app'.irs = app.irs /\ app'.rcv = app.rcv /\ app'.faults = app.faults
      /\ app'.st = "open" => app.st = "open"
  BY AppConnectsShape, AppSendsShape, AppAbortsShape
<1>2. s' = s /\ remote' = remote
  <2>1. \E p \in Packet : Post(p)
    BY AppConnectsShape, AppSendsShape, AppAbortsShape
  <2> QED
    BY <2>1, PostShape
<1>3. /\ Ahead' = Ahead /\ (Opened(app') <=> Opened(app))
      /\ (s'.local_seq - app'.irs) % Mod = Off(s.local_seq)
  BY <1>1, <1>2 DEF Ahead, Opened, Off
<1> QED
  BY <1>1, <1>2, <1>3 DEF StreamInv, Off, Opened, Live, Sending

\* The inductive invariant (tcp.c:375, 409): local_seq, the data the server has still
\* to send and what the app has received add up to the server's stream.
THEOREM StreamInvInductive == ASSUME RemoteFits PROVE Spec => []StreamInv
<1>1. Init => StreamInv
  <2> SUFFICES ASSUME Init PROVE StreamInv
    OBVIOUS
  <2>1. ~Opened(app) /\ Ahead <= RemoteBytes
    BY StartShape, TcpAssumption DEF Opened
  <2> QED
    BY <2>1, StartShape DEF StreamInv
<1>2. /\ TypeOK /\ SocketInv /\ ResetInv /\ TypeOK' /\ ResetInv' /\ StreamInv
      /\ [Next]_vars
      => StreamInv'
  BY StepDown, StreamKept, StreamApp
<1> QED
  BY <1>1, <1>2, TypeCorrect, SocketInvInductive, ResetInvInductive, PTL DEF Spec

\* tcp.c:409-410: for every stream of the server shorter than the number space,
\* every window and every write that fails: the app never sees a gap.
THEOREM StreamHasNoGap == ASSUME RemoteFits PROVE Spec => []NoGapForApp
<1>1. StreamInv => NoGapForApp
  BY DEF StreamInv, NoGapForApp
<1> QED
  BY <1>1, StreamInvInductive, PTL

-----------------------------------------------------------------------------
(* Within the window, and no ACK of the future                             *)

LEMMA ComparableFits == RemoteComparable => RemoteFits
BY HalfAssumption, TcpAssumption DEF RemoteComparable, RemoteFits, Mod

\* Two numbers of the stream compare as they follow one another.
LEMMA CompareInStream ==
  ASSUME RemoteComparable, NEW i \in LocalISNs, NEW a \in SeqNums, NEW b \in SeqNums,
         NEW j \in Nat, NEW k \in Nat, j = (a - i) % Mod, k = (b - i) % Mod,
         j <= k, k <= RemoteBytes + 2, k - j <= RemoteBytes + 1
  PROVE  /\ (b - a) % Mod = k - j
         /\ Compare(a, b) <= 0
         /\ a # b => Compare(a, b) < 0
<1>1. /\ i \in 0 .. Mod - 1 /\ a \in 0 .. Mod - 1 /\ b \in 0 .. Mod - 1
      /\ Half \in Nat /\ Half > 2 /\ Mod = 2 * Half
      /\ RemoteBytes + 2 < Half /\ RemoteBytes \in Nat
  BY TcpAssumption, HalfAssumption DEF SeqNums, Mod, RemoteComparable
<1>2. /\ j = IF a >= i THEN a - i ELSE a - i + Mod
      /\ k = IF b >= i THEN b - i ELSE b - i + Mod
  <2>1. /\ a >= i => a - i \in 0 .. Mod - 1
        /\ a < i => a - i \in -Mod .. -1
        /\ b >= i => b - i \in 0 .. Mod - 1
        /\ b < i => b - i \in -Mod .. -1
    BY <1>1
  <2>2. /\ (a - i) % Mod = IF a >= i THEN a - i ELSE a - i + Mod
        /\ (b - i) % Mod = IF b >= i THEN b - i ELSE b - i + Mod
    BY <1>1, <2>1, ModWithin, ModBelow
  <2> QED
    BY <2>2
<1>3. b - a = k - j \/ b - a = k - j - Mod
  BY <1>1, <1>2
<1>4. (b - a) % Mod = k - j
  <2>1. k - j \in 0 .. Mod - 1
    BY <1>1
  <2>2. CASE b - a = k - j
    BY <2>1, <2>2, ModWithin
  <2>3. CASE b - a = k - j - Mod
    <3>1. b - a \in -Mod .. -1
      BY <2>1, <2>3, <1>1
    <3>2. (b - a) % Mod = b - a + Mod
      BY <3>1, ModBelow
    <3> QED
      BY <1>1, <2>3, <3>2
  <2> QED
    BY <1>3, <2>2, <2>3
<1> DEFINE i1 == ToInt(a)
           i2 == ToInt(b)
<1>5. /\ i1 = IF a < Half THEN a ELSE a - Mod
      /\ i2 = IF b < Half THEN b ELSE b - Mod
  BY DEF ToInt
<1>6. Wraps => i >= Half \/ i + RemoteBytes + 2 < Half
  BY DEF RemoteComparable
\* The two ints are as far apart, or as far as the space is larger.
<1>7. \/ i2 - i1 = k - j
      \/ ~Wraps /\ i1 - i2 = Mod - (k - j)
  <2> HIDE DEF i1, i2
  <2>1. CASE i >= Half
    <3>1. i1 = i - Mod + j
      BY <1>1, <1>2, <1>5, <2>1
    <3>2. i2 = i - Mod + k
      BY <1>1, <1>2, <1>5, <2>1
    <3> QED
      BY <1>1, <3>1, <3>2
  <2>2. CASE i < Half
    <3>1. a = i + j /\ b = i + k
      BY <1>1, <1>2, <2>2
    <3>2. CASE b < Half
      BY <1>1, <1>5, <3>1, <3>2
    <3>3. CASE a >= Half
      BY <1>1, <1>5, <3>1, <3>3
    <3>4. CASE a < Half /\ b >= Half
      <4>1. ~Wraps
        BY <1>1, <1>6, <2>2, <3>1, <3>4
      <4> QED
        BY <1>1, <1>5, <3>1, <3>4, <4>1
    <3> QED
      BY <1>1, <3>2, <3>3, <3>4
  <2> QED
    BY <1>1, <2>1, <2>2
<1>8. ASSUME a # b PROVE Compare(a, b) = -1
  <2>1. i1 \in Int /\ i2 \in Int
    BY <1>1, <1>5
  <2>2. k - j > 0
    BY <1>1, <1>2, <1>8
  <2> HIDE DEF i1, i2
  <2>3. CASE i2 - i1 = k - j
    <3>1. IntDiff(Wraps, i2, i1) = k - j
      BY <1>1, <2>1, <2>2, <2>3 DEF IntDiff
    <3>2. i1 < i2 /\ IntDiff(Wraps, i2, i1) < Half - 1
      BY <1>1, <2>1, <2>2, <2>3, <3>1
    <3> QED
      BY <1>8, <3>2 DEF Compare, compare_u32, i1, i2
  <2>4. CASE ~Wraps /\ i1 - i2 = Mod - (k - j)
    <3>1. IntDiff(Wraps, i1, i2) = i1 - i2
      BY <2>1, <2>4 DEF IntDiff
    <3>2. i1 > i2 /\ IntDiff(Wraps, i1, i2) > Half - 1
      BY <1>1, <2>1, <2>2, <2>4, <3>1
    <3> QED
      BY <1>8, <3>2 DEF Compare, compare_u32, i1, i2
  <2> QED
    BY <1>7, <2>3, <2>4
<1>9. a = b => Compare(a, b) = 0
  BY DEF Compare, compare_u32
<1> QED
  BY <1>4, <1>8, <1>9

\* tcp.c:145-150: what the send window takes ends where the app's window ends.
LEMMA WindowEnd ==
  ASSUME RemoteComparable, NEW i \in LocalISNs, NEW x \in Session, NEW n \in Nat,
         n >= 1, n <= SendWindow(x),
         (x.acked - i) % Mod <= (x.local_seq - i) % Mod,
         (x.local_seq - i) % Mod <= RemoteBytes + 1
  PROVE  ((x.local_seq - i) % Mod) + n <= ((x.acked - i) % Mod) + x.send_window
<1> DEFINE j == (x.acked - i) % Mod
           k == (x.local_seq - i) % Mod
           flying == (x.local_seq - x.acked) % Mod
<1>1. x.acked \in SeqNums /\ x.local_seq \in SeqNums /\ x.send_window \in Nat /\ i \in SeqNums
  BY TcpAssumption DEF Session
<1>2. j \in Nat /\ k \in Nat
  BY <1>1, OffType
<1>3. RemoteBytes \in Nat
  BY TcpAssumption
<1>4. j <= k /\ k <= RemoteBytes + 2 /\ k - j <= RemoteBytes + 1
  <2> SUFFICES ASSUME j <= k, k <= RemoteBytes + 1
               PROVE  j <= k /\ k <= RemoteBytes + 2 /\ k - j <= RemoteBytes + 1
    OBVIOUS
  <2> HIDE DEF j, k
  <2> QED
    BY <1>2, <1>3
<1>5. flying = k - j /\ Compare(x.acked, x.local_seq) <= 0
  BY <1>1, <1>2, <1>4, CompareInStream
<1>6. SendWindow(x) = IF flying < x.send_window THEN x.send_window - flying ELSE 0
  BY <1>5 DEF SendWindow, get_send_window, Compare
<1>7. k + n <= j + x.send_window
  <2> HIDE DEF j, k, flying
  <2> QED
    BY <1>1, <1>2, <1>5, <1>6
<1> QED
  BY <1>7

\* What is read, or nothing, leaves the ACKs of an app that is still open, or
\* has been reset, in their order.
LEMMA AcksKept ==
  ASSUME TypeOK, TypeOK', AcksInOrder, tun' = tun \/ ReadsHead,
         app'.irs = app.irs, app'.edge = app.edge, app.rcv <= app'.rcv,
         app'.st = "open" => app.st = "open"
  PROVE  AcksInOrder'
<1>0. /\ \A i \in 1 .. Len(tun) :
           Ack(tun[i]) => /\ Opened(app)
                          /\ 1 <= Off(tun[i].ack_seq) /\ Off(tun[i].ack_seq) <= app.rcv
                          /\ Off(tun[i].ack_seq) + tun[i].window <= app.edge
      /\ \A i, j \in 1 .. Len(tun) :
           i < j /\ Ack(tun[i]) /\ Ack(tun[j])
             => Off(tun[i].ack_seq) <= Off(tun[j].ack_seq)
      /\ app.st = "open" => \A i \in 1 .. Len(tun) : Syn(tun[i]) \/ Ack(tun[i])
  BY DEF AcksInOrder
<1>1. app \in AppEnd /\ app' \in AppEnd
  BY DEF TypeOK
<1>2. app.rcv \in Nat /\ app'.rcv \in Nat /\ app.irs \in SeqNums
  BY <1>1, AppType
<1>3. \A n \in SeqNums : Off(n) \in Nat /\ (n - app'.irs) % Mod = Off(n)
  BY <1>2, OffType DEF Off
<1>4. Opened(app) => Opened(app')
  BY <1>2 DEF Opened
\* Each packet was there before, and of two of them the first came first.
<1>5. PICK m \in 0 .. 1 :
        /\ Len(tun') \in Nat
        /\ \A i \in 1 .. Len(tun') : i + m \in 1 .. Len(tun) /\ tun'[i] = tun[i + m]
  <2>1. CASE tun' = tun
    <3>1. \A i \in 1 .. Len(tun) : i + 0 = i
      BY TunType
    <3> QED
      BY <2>1, <3>1, TunType
  <2>2. CASE ReadsHead
    BY <2>2, HeadOfTun
  <2> QED
    BY <2>1, <2>2
<1>6. ASSUME NEW i \in 1 .. Len(tun'), Ack(tun'[i])
      PROVE  /\ Opened(app')
             /\ 1 <= Off(tun'[i].ack_seq) /\ Off(tun'[i].ack_seq) <= app'.rcv
             /\ Off(tun'[i].ack_seq) + tun'[i].window <= app'.edge
  <2>1. i + m \in 1 .. Len(tun) /\ tun'[i] = tun[i + m] /\ tun[i + m].ack_seq \in SeqNums
    BY <1>5, TunType
  <2>2. /\ Opened(app)
        /\ 1 <= Off(tun'[i].ack_seq) /\ Off(tun'[i].ack_seq) <= app.rcv
        /\ Off(tun'[i].ack_seq) + tun'[i].window <= app.edge
    BY <1>0, <1>6, <2>1
  <2>3. Off(tun'[i].ack_seq) \in Nat
    BY <1>3, <2>1
  <2> QED
    BY <1>2, <1>4, <2>2, <2>3
<1>7. ASSUME NEW i \in 1 .. Len(tun'), NEW j \in 1 .. Len(tun'), i < j,
             Ack(tun'[i]), Ack(tun'[j])
      PROVE  Off(tun'[i].ack_seq) <= Off(tun'[j].ack_seq)
  <2>1. i + m < j + m
    BY <1>5, <1>7
  <2>2. /\ i + m \in 1 .. Len(tun) /\ j + m \in 1 .. Len(tun)
        /\ tun'[i] = tun[i + m] /\ tun'[j] = tun[j + m]
    BY <1>5
  <2> QED
    BY <1>0, <1>7, <2>1, <2>2
<1>8. app'.st = "open" => \A i \in 1 .. Len(tun') : Syn(tun'[i]) \/ Ack(tun'[i])
  BY <1>0, <1>5
<1>9. \A i \in 1 .. Len(tun') : (tun'[i].ack_seq - app'.irs) % Mod = Off(tun'[i].ack_seq)
  BY <1>3, <1>5, TunType
<1>10. /\ \A i \in 1 .. Len(tun') :
            Ack(tun'[i]) =>
              /\ Opened(app')
              /\ 1 <= (tun'[i].ack_seq - app'.irs) % Mod
              /\ (tun'[i].ack_seq - app'.irs) % Mod <= app'.rcv
              /\ ((tun'[i].ack_seq - app'.irs) % Mod) + tun'[i].window <= app'.edge
       /\ \A i, j \in 1 .. Len(tun') :
            i < j /\ Ack(tun'[i]) /\ Ack(tun'[j])
              => (tun'[i].ack_seq - app'.irs) % Mod <= (tun'[j].ack_seq - app'.irs) % Mod
  BY <1>6, <1>7, <1>9, Zenon
<1> QED
  BY <1>8, <1>10 DEF AcksInOrder, Off, Opened, Ack, Syn

\* The session is transferring after the step only if it was before, or has just
\* been told that the SYN+ACK arrived.
LEMMA WindowHears ==
  ASSUME TypeOK, TypeOK', ResetInv, StreamInv, WindowInv, Hears,
         app'.st = "open", Transferring(s')
  PROVE  /\ app.st = "open" /\ app'.irs = app.irs /\ app'.edge = app.edge
         /\ Off(s'.acked) <= Off(s'.local_seq)
         /\ Off(s'.acked) + s'.send_window <= app.edge
         /\ \A i \in 1 .. Len(tun') :
              Ack(tun'[i]) /\ Off(s'.acked) <= Off(tun'[i].ack_seq)
<1> DEFINE p == Head(tun)
<1>1. /\ app.st = "open" /\ app'.irs = app.irs /\ app'.edge = app.edge
      /\ Live(s) /\ s'.local_seq = s.local_seq /\ s'.send_window = p.window
      /\ s'.acked = s.acked \/ (Ack(p) /\ s'.acked = p.ack_seq)
      /\ \/ Transferring(s)
         \/ Ack(p) /\ s'.acked = p.ack_seq
  BY DEF Hears, Same, Transferring
<1>2. /\ p = tun[1] /\ 1 \in 1 .. Len(tun) /\ Len(tun') \in Nat
      /\ \A i \in 1 .. Len(tun') :
           tun'[i] = tun[i + 1] /\ i + 1 \in 1 .. Len(tun) /\ 1 < i + 1
  BY HeadOfTun DEF Hears
<1>3. /\ \A i \in 1 .. Len(tun) :
           Ack(tun[i]) => /\ 1 <= Off(tun[i].ack_seq) /\ Off(tun[i].ack_seq) <= app.rcv
                          /\ Off(tun[i].ack_seq) + tun[i].window <= app.edge
      /\ \A i, j \in 1 .. Len(tun) :
           i < j /\ Ack(tun[i]) /\ Ack(tun[j])
             => Off(tun[i].ack_seq) <= Off(tun[j].ack_seq)
      /\ \A i \in 1 .. Len(tun) : Syn(tun[i]) \/ Ack(tun[i])
  BY <1>1 DEF WindowInv, AcksInOrder
<1>4. Transferring(s) =>
        /\ Off(s.acked) <= Off(s.local_seq)
        /\ \A i \in 1 .. Len(tun) :
             Ack(tun[i]) /\ Off(s.acked) <= Off(tun[i].ack_seq)
  BY <1>1 DEF WindowInv
<1>5. /\ \A i, j \in 1 .. Len(tun) : i < j /\ Syn(tun[j]) => Syn(tun[i])
      /\ \A i \in 1 .. Len(tun) : Syn(tun[i]) => ~Ack(tun[i])
  BY DEF ResetInv, SynsFirst
<1>6. app.rcv <= Off(s.local_seq)
  BY <1>1, StreamParts
<1>7. /\ app.rcv \in Nat /\ app.edge \in Nat /\ Off(s.local_seq) \in Nat
      /\ Off(s.acked) \in Nat
      /\ \A i \in 1 .. Len(tun) : Off(tun[i].ack_seq) \in Nat /\ tun[i].window \in Nat
  <2>1. app.rcv \in Nat /\ app.edge \in Nat /\ app.irs \in SeqNums
    BY AppType DEF TypeOK
  <2>2. s.local_seq \in SeqNums /\ s.acked \in SeqNums
    BY DEF TypeOK, Session
  <2> QED
    BY <2>1, <2>2, TunType, OffType DEF Off
<1> HIDE DEF p
\* Whatever is first to be read is an ACK, and so is what follows it.
<1>8. Ack(p)
  BY <1>1, <1>2, <1>4
<1>9. \A i \in 1 .. Len(tun') : Ack(tun'[i]) /\ Off(p.ack_seq) <= Off(tun'[i].ack_seq)
  <2> SUFFICES ASSUME NEW i \in 1 .. Len(tun')
               PROVE  Ack(tun'[i]) /\ Off(p.ack_seq) <= Off(tun'[i].ack_seq)
    OBVIOUS
  <2>1. tun'[i] = tun[i + 1] /\ i + 1 \in 1 .. Len(tun) /\ 1 < i + 1
    BY <1>2
  <2>2. ~Syn(tun[i + 1])
    BY <1>2, <1>5, <1>8, <2>1
  <2>3. Ack(tun[i + 1])
    BY <1>3, <2>1, <2>2
  <2> QED
    BY <1>2, <1>3, <1>8, <2>1, <2>3
<1>10. /\ Off(p.ack_seq) + p.window <= app.edge
       /\ Off(p.ack_seq) <= Off(s.local_seq)
  <2>1. /\ Off(p.ack_seq) <= app.rcv
        /\ Off(p.ack_seq) + p.window <= app.edge
        /\ Off(p.ack_seq) \in Nat
    BY <1>2, <1>3, <1>7, <1>8
  <2> QED
    BY <1>6, <1>7, <2>1
<1>11. CASE s'.acked = p.ack_seq
  BY <1>1, <1>9, <1>10, <1>11
<1>12. CASE Transferring(s) /\ s'.acked = s.acked
  <2>1. Off(s.acked) <= Off(p.ack_seq)
    BY <1>2, <1>4, <1>12
  <2>2. Off(p.ack_seq) \in Nat /\ p.window \in Nat
    BY <1>2, <1>7
  <2>3. Off(s.acked) + p.window <= app.edge
    BY <1>7, <1>10, <2>1, <2>2
  <2>4. \A i \in 1 .. Len(tun') : Ack(tun'[i]) /\ Off(s.acked) <= Off(tun'[i].ack_seq)
    <3>1. \A i \in 1 .. Len(tun') : i + 1 \in 1 .. Len(tun) /\ tun'[i] = tun[i + 1]
      BY <1>2
    <3> QED
      BY <1>4, <1>12, <3>1
  <2> QED
    BY <1>1, <1>4, <1>12, <2>3, <2>4
<1> QED
  BY <1>1, <1>11, <1>12

\* A step of the thread or of the server.
LEMMA WindowKept ==
  ASSUME TypeOK, TypeOK', ResetInv, StreamInv, WindowInv, RemoteComparable,
         \/ Stays \/ Ends \/ Frees \/ Rejects \/ Listens
         \/ Hears \/ Connects \/ PassesOn \/ Finishes
  PROVE  WindowInv'
<1>1. /\ app \in AppEnd /\ app' \in AppEnd /\ s \in Session
      /\ app.rcv \in Nat /\ app.edge \in Nat /\ app.irs \in SeqNums
      /\ SendWindow(s) \in Nat
  BY AppType, SendWindowType DEF TypeOK
<1>2. /\ AcksInOrder /\ "overrun" \notin app.faults
      /\ Opened(app) => s.state # "LISTEN"
      /\ app.st \in {"closed", "syn_sent"} => ~Opened(app)
      /\ app.st = "open" => Opened(app)
      /\ app.st = "syn_sent" => \A i \in 1 .. Len(tun) : Syn(tun[i])
  BY DEF WindowInv, ResetInv, SynsFirst
\* It suffices to look at a session that still transfers to an app still open.
<1>3. ASSUME AcksInOrder', "overrun" \notin app'.faults,
             app'.st = "open" /\ Transferring(s') =>
               /\ app'.irs = app.irs /\ app'.edge = app.edge
               /\ Off(s'.acked) <= (s'.local_seq - app.irs) % Mod
               /\ Off(s'.acked) + s'.send_window <= app.edge
               /\ \A i \in 1 .. Len(tun') :
                    Ack(tun'[i]) /\ Off(s'.acked) <= Off(tun'[i].ack_seq)
      PROVE  WindowInv'
  BY <1>3 DEF WindowInv, Off, Transferring, Ack
<1>4. CASE Stays
  <2>1. /\ app'.st = app.st /\ app'.irs = app.irs /\ app'.rcv = app.rcv
        /\ app'.edge = app.edge /\ "overrun" \notin app'.faults /\ tun' = tun
        /\ s'.state = s.state /\ s'.local_seq = s.local_seq /\ s'.acked = s.acked
        /\ s'.send_window = s.send_window
    BY <1>2, <1>4 DEF Stays, Same, SameNumbers, Watched
  <2>2. AcksInOrder'
    BY <1>1, <1>2, <2>1, AcksKept
  <2>3. app.st = "open" /\ Transferring(s) =>
          /\ Off(s.acked) <= Off(s.local_seq)
          /\ Off(s.acked) + s.send_window <= app.edge
          /\ \A i \in 1 .. Len(tun) :
               Ack(tun[i]) /\ Off(s.acked) <= Off(tun[i].ack_seq)
    BY DEF WindowInv
  <2>4. Transferring(s') <=> Transferring(s)
    BY <2>1 DEF Transferring
  <2>5. Off(s.local_seq) = (s.local_seq - app.irs) % Mod
    BY DEF Off
  <2> QED
    BY <1>3, <2>1, <2>2, <2>3, <2>4, <2>5
<1>5. CASE Ends \/ Frees \/ Rejects \/ Listens
  <2>1. /\ app'.st = app.st \/ (app.st \in {"syn_sent", "open"} /\ app'.st = "reset")
        /\ app'.irs = app.irs /\ app'.rcv = app.rcv
        /\ app'.edge = app.edge /\ "overrun" \notin app'.faults
        /\ tun' = tun \/ ReadsHead
    BY <1>2, <1>5 DEF Ends, Frees, Rejects, Listens, SameOrReset, Watched
  <2>2. AcksInOrder'
    BY <1>1, <1>2, <2>1, AcksKept
  <2>3. ~Transferring(s')
    BY <1>5 DEF Ends, Frees, Rejects, Listens, Transferring
  <2> QED
    BY <1>3, <2>1, <2>2, <2>3
<1>6. CASE Hears
  <2>1. /\ app'.st = app.st /\ app'.irs = app.irs /\ app'.rcv = app.rcv
        /\ app'.edge = app.edge /\ "overrun" \notin app'.faults /\ ReadsHead
        /\ s'.local_seq = s.local_seq
    BY <1>2, <1>6 DEF Hears, Same, Watched
  <2>2. AcksInOrder'
    BY <1>1, <1>2, <2>1, AcksKept
  <2>3. app'.st = "open" /\ Transferring(s') =>
          /\ Off(s'.acked) <= Off(s'.local_seq)
          /\ Off(s'.acked) + s'.send_window <= app.edge
          /\ \A i \in 1 .. Len(tun') :
               Ack(tun'[i]) /\ Off(s'.acked) <= Off(tun'[i].ack_seq)
    BY <1>6, WindowHears
  <2>4. Off(s'.local_seq) = (s'.local_seq - app.irs) % Mod
    BY DEF Off
  <2> QED
    BY <1>3, <2>1, <2>2, <2>3, <2>4
<1>7. CASE Connects
  <2>1. /\ s.state = "LISTEN" /\ s'.state = "SYN_RECV" /\ tun' = tun
        /\ app'.edge = app.edge /\ "overrun" \notin app'.faults
        /\ app'.st = "open" => app.st \in {"syn_sent", "open"}
    BY <1>2, <1>7 DEF Connects, Opens
  \* No ACK has been sent yet.
  <2>2. ~Opened(app) /\ (app'.st = "open" => app.st = "syn_sent")
    BY <1>2, <2>1
  <2>3. \A i \in 1 .. Len(tun) : ~Ack(tun[i])
    BY <1>2, <2>2 DEF AcksInOrder
  <2>4. AcksInOrder'
    <3>1. /\ \A i \in 1 .. Len(tun') : ~Ack(tun'[i])
          /\ app'.st = "open" => \A i \in 1 .. Len(tun') : Syn(tun'[i])
      BY <1>2, <2>1, <2>2, <2>3
    <3> QED
      BY <3>1 DEF AcksInOrder, Ack, Syn
  <2>5. ~Transferring(s')
    BY <2>1 DEF Transferring
  <2> QED
    BY <1>3, <2>1, <2>4, <2>5
\* What PassesOn and Finishes have in common.
<1>8. ASSUME Transferring(s), NEW n \in Nat, Receives(app, app', s.local_seq, n),
             tun' = tun
      PROVE  /\ AcksInOrder' /\ app'.st = app.st
             /\ app'.irs = app.irs /\ app'.edge = app.edge
             /\ "overrun" \in app'.faults =>
                  app.st = "open" /\ n > 0 /\ Off(s.local_seq) + n > app.edge
  <2>1. /\ app'.st = app.st /\ app'.irs = app.irs /\ app'.edge = app.edge
        /\ app'.rcv = IF app.st = "open" /\ (s.local_seq - app.irs) % Mod = app.rcv
                      THEN app.rcv + (IF n = 0 THEN 1 ELSE n) ELSE app.rcv
    BY <1>8 DEF Receives
  <2>2. "overrun" \in app'.faults =>
          app.st = "open" /\ n > 0 /\ ((s.local_seq - app.irs) % Mod) + n > app.edge
    BY <1>2, <1>8 DEF Receives
  <2>3. app.rcv <= app'.rcv
    BY <1>1, <2>1
  <2>4. AcksInOrder'
    BY <1>1, <1>2, <1>8, <2>1, <2>3, AcksKept
  <2> QED
    BY <2>1, <2>2, <2>4, Zenon DEF Off
<1>9. CASE PassesOn
  <2>1. PICK n \in 1 .. SendWindow(s) :
          /\ Transferring(s) /\ s'.state = s.state
          /\ s'.local_seq = SeqAdd(s.local_seq, n)
          /\ s'.acked = s.acked /\ s'.send_window = s.send_window
          /\ Receives(app, app', s.local_seq, n) /\ tun' = tun /\ Ahead' <= Ahead - n
    BY <1>9 DEF PassesOn
  <2>2. n \in Nat /\ n >= 1 /\ n <= SendWindow(s)
    BY <1>1
  <2>3. /\ AcksInOrder' /\ app'.st = app.st
        /\ app'.irs = app.irs /\ app'.edge = app.edge
        /\ "overrun" \in app'.faults =>
             app.st = "open" /\ n > 0 /\ Off(s.local_seq) + n > app.edge
    BY <1>8, <2>1, <2>2
  <2>4. app.st = "open" =>
          /\ Off(s.acked) <= Off(s.local_seq)
          /\ Off(s.acked) + s.send_window <= app.edge
          /\ \A i \in 1 .. Len(tun) :
               Ack(tun[i]) /\ Off(s.acked) <= Off(tun[i].ack_seq)
    BY <2>1 DEF WindowInv
  <2>5. /\ Off(s.local_seq) \in Nat /\ Off(s.acked) \in Nat /\ s.send_window \in Nat
        /\ RemoteBytes \in Nat /\ Ahead \in Nat /\ Ahead' \in Nat
    <3>1. s.local_seq \in SeqNums /\ s.acked \in SeqNums /\ s.send_window \in Nat
      BY <1>1 DEF Session
    <3>2. Ahead' \in Nat
      BY DEF TypeOK, RemoteEnd, Ahead
    <3> QED
      BY <1>1, <3>1, <3>2, OffType, AheadType, TcpAssumption DEF Off
  <2>6. app.st = "open" =>
          /\ app.irs \in LocalISNs
          /\ Off(s.local_seq) + Ahead <= RemoteBytes + 1
    <3>1. Live(s) /\ s.state \in Sending
      BY <2>1 DEF Transferring, Live, Sending
    <3> QED
      BY <1>2, <3>1, StreamParts
  <2>7. app.st = "open" => Off(s.local_seq) + n <= Off(s.acked) + s.send_window
    <3> SUFFICES ASSUME app.st = "open"
                 PROVE  Off(s.local_seq) + n <= Off(s.acked) + s.send_window
      OBVIOUS
    <3>1. Off(s.local_seq) <= RemoteBytes + 1
      BY <2>5, <2>6
    <3>2. /\ (s.acked - app.irs) % Mod <= (s.local_seq - app.irs) % Mod
          /\ (s.local_seq - app.irs) % Mod <= RemoteBytes + 1
      BY <2>4, <3>1 DEF Off
    <3>3. ((s.local_seq - app.irs) % Mod) + n
            <= ((s.acked - app.irs) % Mod) + s.send_window
      BY <1>1, <2>2, <2>6, <3>2, WindowEnd
    <3> QED
      BY <3>3 DEF Off
  <2>8. "overrun" \notin app'.faults
    BY <1>1, <2>2, <2>3, <2>4, <2>5, <2>7
  <2>9. app.st = "open" => Off(s.acked) <= (s'.local_seq - app.irs) % Mod
    <3> SUFFICES ASSUME app.st = "open"
                 PROVE  Off(s.acked) <= (s'.local_seq - app.irs) % Mod
      OBVIOUS
    <3>1. Off(s.local_seq) + n < Mod
      <4>1. n <= Ahead
        BY <2>2, <2>5, <2>1
      <4>2. RemoteBytes + 2 < Mod /\ Mod \in Nat
        BY ComparableFits, HalfAssumption DEF RemoteFits, Mod
      <4> QED
        BY <2>2, <2>5, <2>6, <4>1, <4>2
    <3>2. s.local_seq \in SeqNums /\ ((s.local_seq - app.irs) % Mod) + n < Mod
      BY <1>1, <3>1 DEF Off, Session
    <3>3. (SeqAdd(s.local_seq, n) - app.irs) % Mod
            = ((s.local_seq - app.irs) % Mod) + n
      BY <1>1, <2>2, <3>2, DistanceAdd
    <3>4. (s'.local_seq - app.irs) % Mod = Off(s.local_seq) + n
      BY <2>1, <3>3, Zenon DEF Off
    <3> QED
      BY <2>2, <2>4, <2>5, <3>4
  <2>10. Transferring(s') <=> Transferring(s)
    BY <2>1 DEF Transferring
  <2> QED
    BY <1>3, <2>1, <2>3, <2>4, <2>8, <2>9, <2>10
<1>10. CASE Finishes
  <2>1. /\ Transferring(s) /\ ~Transferring(s')
        /\ Receives(app, app', s.local_seq, 0) /\ tun' = tun
    BY <1>10 DEF Finishes, Transferring
  <2>2. AcksInOrder' /\ "overrun" \notin app'.faults
    BY <1>8, <2>1
  <2> QED
    BY <1>3, <2>1, <2>2
<1> QED
  BY <1>4, <1>5, <1>6, <1>7, <1>9, <1>10

\* tcp.c: the app's own steps. What it acknowledges is what it has received, and
\* the window it advertises begins there.
LEMMA WindowApp ==
  ASSUME TypeOK, TypeOK', RemoteComparable, ResetInv, StreamInv, WindowInv,
         AppConnects \/ AppSends \/ AppAborts
  PROVE  WindowInv'
<1>1. /\ app \in AppEnd /\ app' \in AppEnd /\ s \in Session
      /\ app.rcv \in Nat /\ app.edge \in Nat /\ app'.edge \in Nat /\ app.irs \in SeqNums
      /\ Len(tun) \in Nat
      /\ \A i \in 1 .. Len(tun) : tun[i].window \in Nat /\ tun[i].ack_seq \in SeqNums
  BY AppType, TunType DEF TypeOK
<1>2. \A n \in SeqNums : Off(n) \in Nat
  BY <1>1, OffType DEF Off
<1>3. /\ \A i \in 1 .. Len(tun) :
           Ack(tun[i]) => /\ Opened(app)
                          /\ 1 <= Off(tun[i].ack_seq) /\ Off(tun[i].ack_seq) <= app.rcv
                          /\ Off(tun[i].ack_seq) + tun[i].window <= app.edge
      /\ \A i, j \in 1 .. Len(tun) :
           i < j /\ Ack(tun[i]) /\ Ack(tun[j])
             => Off(tun[i].ack_seq) <= Off(tun[j].ack_seq)
      /\ app.st = "open" => \A i \in 1 .. Len(tun) : Syn(tun[i]) \/ Ack(tun[i])
      /\ app.st = "open" /\ Transferring(s) =>
           /\ Off(s.acked) <= Off(s.local_seq)
           /\ Off(s.acked) + s.send_window <= app.edge
           /\ \A i \in 1 .. Len(tun) :
                Ack(tun[i]) /\ Off(s.acked) <= Off(tun[i].ack_seq)
      /\ "overrun" \notin app.faults
  BY DEF WindowInv, AcksInOrder
\* The packet, an ACK exactly when the connection is open.
<1>4. /\ app'.irs = app.irs /\ app'.rcv = app.rcv /\ app.edge <= app'.edge
      /\ app'.faults = app.faults
      /\ app'.st = "open" <=> app.st = "open" /\ AppSends
  BY <1>1, AppConnectsShape, AppSendsShape, AppAbortsShape
<1>5. PICK p \in Packet :
        /\ Post(p)
        /\ AppSends => /\ Ack(p) /\ app.st = "open"
                       /\ p.ack_seq = SeqAdd(app.irs, app.rcv)
                       /\ app.rcv + p.window <= app'.edge
        /\ ~AppSends => ~Ack(p)
  BY AppConnectsShape, AppSendsShape, AppAbortsShape
<1>6. /\ s' = s
      /\ \/ tun' = tun
         \/ /\ Len(tun') = Len(tun) + 1 /\ tun'[Len(tun) + 1] = p
            /\ \A i \in 1 .. Len(tun) : tun'[i] = tun[i]
  BY <1>5, PostShape
<1>7. AppSends => Off(p.ack_seq) = app.rcv /\ 1 <= app.rcv /\ Opened(app)
  <2> SUFFICES ASSUME AppSends PROVE Off(p.ack_seq) = app.rcv /\ 1 <= app.rcv /\ Opened(app)
    OBVIOUS
  <2>1. Opened(app) /\ app.rcv >= 1
    BY <1>5 DEF ResetInv, SynsFirst, Opened
  <2>2. app.rcv < Mod
    <3>1. app.rcv <= RemoteBytes + 2
      BY <2>1, StreamParts
    <3>2. RemoteBytes + 2 < Mod /\ RemoteBytes \in Nat /\ Mod \in Nat
      BY ComparableFits, HalfAssumption, TcpAssumption DEF RemoteFits, Mod
    <3> QED
      BY <1>1, <3>1, <3>2
  <2>3. (app.irs - app.irs) % Mod = 0
    <3>1. app.irs - app.irs = 0
      BY <1>1, SeqNumsAreNat
    <3> QED
      BY <3>1, ModWithin, HalfAssumption DEF Mod
  <2>4. ((app.irs - app.irs) % Mod) + app.rcv < Mod
    BY <1>1, <2>2, <2>3
  <2>5. (SeqAdd(app.irs, app.rcv) - app.irs) % Mod
          = ((app.irs - app.irs) % Mod) + app.rcv
    BY <1>1, <2>4, DistanceAdd
  <2>6. Off(p.ack_seq) = app.rcv
    BY <1>1, <1>5, <2>3, <2>5 DEF Off
  <2> QED
    BY <1>1, <2>1, <2>6
\* Of an old packet or the new one.
<1>8. \A i \in 1 .. Len(tun') :
        \/ i \in 1 .. Len(tun) /\ tun'[i] = tun[i]
        \/ i = Len(tun) + 1 /\ tun'[i] = p
  BY <1>1, <1>6
<1>9. ASSUME NEW i \in 1 .. Len(tun'), Ack(tun'[i])
      PROVE  /\ Opened(app)
             /\ 1 <= Off(tun'[i].ack_seq) /\ Off(tun'[i].ack_seq) <= app.rcv
             /\ Off(tun'[i].ack_seq) + tun'[i].window <= app'.edge
  <2>1. CASE i \in 1 .. Len(tun) /\ tun'[i] = tun[i]
    <3>1. /\ Opened(app)
          /\ 1 <= Off(tun[i].ack_seq) /\ Off(tun[i].ack_seq) <= app.rcv
          /\ Off(tun[i].ack_seq) + tun[i].window <= app.edge
      BY <1>3, <1>9, <2>1
    <3>2. Off(tun[i].ack_seq) \in Nat /\ tun[i].window \in Nat
      BY <1>1, <1>2, <2>1
    <3>3. Off(tun[i].ack_seq) + tun[i].window <= app'.edge
      BY <1>1, <1>4, <3>1, <3>2
    <3> QED
      BY <2>1, <3>1, <3>3
  <2>2. CASE tun'[i] = p
    <3>1. AppSends
      BY <1>5, <1>9, <2>2
    <3> QED
      BY <1>1, <1>5, <1>7, <2>2, <3>1
  <2> QED
    BY <1>8, <2>1, <2>2
<1>10. ASSUME NEW i \in 1 .. Len(tun'), NEW j \in 1 .. Len(tun'), i < j,
              Ack(tun'[i]), Ack(tun'[j])
       PROVE  Off(tun'[i].ack_seq) <= Off(tun'[j].ack_seq)
  <2>1. i \in 1 .. Len(tun) /\ tun'[i] = tun[i]
    <3>1. \/ i \in 1 .. Len(tun) /\ tun'[i] = tun[i]
          \/ i = Len(tun) + 1
      BY <1>8
    <3>2. j \in 1 .. Len(tun) \/ j = Len(tun) + 1
      BY <1>8
    <3>3. i # Len(tun) + 1
      BY <1>1, <1>10, <3>2
    <3> QED
      BY <3>1, <3>3
  <2>2. CASE j \in 1 .. Len(tun) /\ tun'[j] = tun[j]
    BY <1>3, <1>10, <2>1, <2>2
  <2>3. CASE tun'[j] = p
    <3>1. AppSends
      BY <1>5, <1>10, <2>3
    <3> QED
      BY <1>7, <1>9, <1>10, <2>3, <3>1
  <2> QED
    BY <1>8, <2>2, <2>3
<1>11. app'.st = "open" => \A i \in 1 .. Len(tun') : Syn(tun'[i]) \/ Ack(tun'[i])
  <2> SUFFICES ASSUME app'.st = "open", NEW i \in 1 .. Len(tun')
               PROVE  Syn(tun'[i]) \/ Ack(tun'[i])
    OBVIOUS
  <2> QED
    BY <1>3, <1>4, <1>5, <1>8
<1>12. \A n : (n - app'.irs) % Mod = Off(n)
  BY <1>4 DEF Off
<1>13. AcksInOrder'
  <2>1. /\ \A i \in 1 .. Len(tun') :
             Ack(tun'[i]) =>
               /\ Opened(app')
               /\ 1 <= (tun'[i].ack_seq - app'.irs) % Mod
               /\ (tun'[i].ack_seq - app'.irs) % Mod <= app'.rcv
               /\ ((tun'[i].ack_seq - app'.irs) % Mod) + tun'[i].window <= app'.edge
        /\ \A i, j \in 1 .. Len(tun') :
             i < j /\ Ack(tun'[i]) /\ Ack(tun'[j])
               => (tun'[i].ack_seq - app'.irs) % Mod <= (tun'[j].ack_seq - app'.irs) % Mod
    BY <1>4, <1>9, <1>10, <1>12, Zenon DEF Opened
  <2> QED
    BY <1>11, <2>1 DEF AcksInOrder, Off, Opened, Ack, Syn
<1>14. ASSUME app'.st = "open", Transferring(s)
       PROVE  /\ Off(s.acked) <= Off(s.local_seq)
              /\ Off(s.acked) + s.send_window <= app'.edge
              /\ \A i \in 1 .. Len(tun') :
                   Ack(tun'[i]) /\ Off(s.acked) <= Off(tun'[i].ack_seq)
  <2>1. app.st = "open" /\ AppSends
    BY <1>4, <1>14
  <2>2. /\ Off(s.acked) <= Off(s.local_seq)
        /\ Off(s.acked) + s.send_window <= app.edge
        /\ \A i \in 1 .. Len(tun) :
             Ack(tun[i]) /\ Off(s.acked) <= Off(tun[i].ack_seq)
    BY <1>3, <1>14, <2>1
  <2>3. s.acked \in SeqNums /\ s.local_seq \in SeqNums /\ s.send_window \in Nat
    BY <1>1 DEF Session
  <2>4. Off(s.acked) + s.send_window <= app'.edge
    BY <1>1, <1>2, <1>4, <2>2, <2>3
  <2>5. Off(s.local_seq) = app.rcv
    <3>1. Live(s) /\ s.state \in Sending
      BY <1>14 DEF Transferring, Live, Sending
    <3> QED
      BY <1>7, <2>1, <3>1, StreamParts
  <2>6. ASSUME NEW i \in 1 .. Len(tun')
        PROVE  Ack(tun'[i]) /\ Off(s.acked) <= Off(tun'[i].ack_seq)
    <3>1. CASE i \in 1 .. Len(tun) /\ tun'[i] = tun[i]
      BY <2>2, <3>1
    <3>2. CASE tun'[i] = p
      BY <1>5, <1>7, <2>1, <2>2, <2>5, <3>2
    <3> QED
      BY <1>8, <3>1, <3>2
  <2> QED
    BY <2>2, <2>4, <2>6
<1>15. "overrun" \notin app'.faults
  BY <1>3, <1>4
<1>16. ASSUME app'.st = "open", Transferring(s')
       PROVE  /\ (s'.acked - app'.irs) % Mod <= (s'.local_seq - app'.irs) % Mod
              /\ ((s'.acked - app'.irs) % Mod) + s'.send_window <= app'.edge
              /\ \A i \in 1 .. Len(tun') :
                   /\ Ack(tun'[i])
                   /\ (s'.acked - app'.irs) % Mod <= (tun'[i].ack_seq - app'.irs) % Mod
  <2>1. Transferring(s)
    BY <1>6, <1>16
  <2> QED
    BY <1>6, <1>12, <1>14, <1>16, <2>1, Zenon
<1> QED
  BY <1>13, <1>15, <1>16 DEF WindowInv, Off, Ack, Transferring

\* The inductive invariant: the windows on their way to the VPN grow, so that the
\* one it uses, whichever it has read last, lies within what the app accepts.
THEOREM WindowInvInductive == ASSUME RemoteComparable PROVE Spec => []WindowInv
<1>0. RemoteFits
  BY ComparableFits
<1>1. Init => WindowInv
  <2> SUFFICES ASSUME Init PROVE WindowInv
    OBVIOUS
  <2>1. AcksInOrder
    BY StartShape DEF AcksInOrder
  <2> QED
    BY <2>1, StartShape DEF WindowInv
<1>2. /\ TypeOK /\ SocketInv /\ ResetInv /\ StreamInv /\ WindowInv
      /\ TypeOK' /\ [Next]_vars
      => WindowInv'
  BY StepDown, WindowKept, WindowApp
<1> QED
  BY <1>0, <1>1, <1>2, TypeCorrect, SocketInvInductive, ResetInvInductive,
     StreamInvInductive, PTL DEF Spec

\* tcp.c:354-359: for every stream whose numbers can be compared, every window and
\* every write that fails: the app is never sent more than it has asked for.
THEOREM WithinWindow == ASSUME RemoteComparable PROVE Spec => []WithinAppWindow
<1>1. WindowInv => WithinAppWindow
  BY DEF WindowInv, WithinAppWindow
<1> QED
  BY <1>1, WindowInvInductive, PTL

\* tcp.c:801: for every stream whose numbers can be compared: no ACK of the app is
\* of what has not been sent, none is answered by a reset.
THEOREM NoAckOfFuture == ASSUME RemoteComparable PROVE Spec => []NoFutureAck
<1>0. RemoteFits
  BY ComparableFits
<1>1. TypeOK /\ ResetInv /\ StreamInv /\ WindowInv => NoFutureAck
  <2> SUFFICES ASSUME TypeOK, ResetInv, StreamInv, WindowInv,
                      NEW i \in 1 .. Len(tun), Live(s), Ack(tun[i]),
                      tun[i].ack_seq # s.local_seq
               PROVE  AckClass(s, tun[i].ack_seq) # "future"
    BY DEF NoFutureAck, Ack
  <2>1. /\ Opened(app) /\ 1 <= Off(tun[i].ack_seq) /\ Off(tun[i].ack_seq) <= app.rcv
    BY DEF WindowInv, AcksInOrder
  <2>2. /\ app.rcv <= Off(s.local_seq) /\ Off(s.local_seq) <= RemoteBytes + 2
        /\ app.irs \in LocalISNs /\ app.irs \in SeqNums /\ s.local_seq \in SeqNums
        /\ app.rcv \in Nat /\ Off(s.local_seq) \in Nat /\ RemoteBytes \in Nat
    BY <2>1, StreamParts
  <2>3. tun[i].ack_seq \in SeqNums
    BY TunType
  <2>4. Off(tun[i].ack_seq) \in Nat
    BY <2>2, <2>3, OffType DEF Off
  <2>5. /\ Off(tun[i].ack_seq) <= Off(s.local_seq)
        /\ Off(s.local_seq) - Off(tun[i].ack_seq) <= RemoteBytes + 1
    BY <2>1, <2>2, <2>4
  <2>6. Compare(tun[i].ack_seq, s.local_seq) < 0
    <3>1. /\ Off(tun[i].ack_seq) = (tun[i].ack_seq - app.irs) % Mod
          /\ Off(s.local_seq) = (s.local_seq - app.irs) % Mod
      BY DEF Off
    <3> QED
      BY <2>2, <2>3, <2>4, <2>5, <3>1, CompareInStream
  <2> QED
    BY <2>6 DEF AckClass
<1> QED
  BY <1>0, <1>1, TypeCorrect, ResetInvInductive, StreamInvInductive,
     WindowInvInductive, PTL
=============================================================================
