------------------------- MODULE TcpUpstreamProofs -------------------------
(***************************************************************************)
(* The app's stream on its way to the server: what send() is given is a    *)
(* prefix of it, remote_seq counts it with the SYN and the FIN, and no ACK *)
(* covers what the app has not sent. For every number space, stream that   *)
(* fits into it, window, loss and retransmission, with data on the SYN and *)
(* without; from it, that each step of the session is one of TcpLifecycle. *)
(***************************************************************************)
EXTENDS TcpDownstreamProofs

\* The stream with its SYN and FIN has no number twice.
StreamFits == AppBytes + 2 < Mod

-----------------------------------------------------------------------------
(* Numbers as offsets from the app's initial sequence number               *)

Offset(a, n) == (n - a.iss) % Mod

LEMMA OffsetType ==
  ASSUME NEW a \in AppEnd, NEW n \in SeqNums
  PROVE  Offset(a, n) \in SeqNums
BY HalfAssumption DEF Offset, SeqNums, Mod, AppEnd

\* An offset grows with the number until the number space is used up.
LEMMA OffsetAdd ==
  ASSUME NEW a \in AppEnd, NEW r \in SeqNums, NEW n \in Nat,
         Offset(a, r) + n < Mod
  PROVE  Offset(a, SeqAdd(r, n)) = Offset(a, r) + n
<1>1. a.iss \in SeqNums
  BY DEF AppEnd
<1> QED
  BY <1>1, DistanceAdd DEF Offset

\* The number at an offset has that offset.
LEMMA OffsetOfNumber ==
  ASSUME NEW a \in AppEnd, NEW n \in Nat, n < Mod
  PROVE  Offset(a, SeqAdd(a.iss, n)) = n
<1>1. a.iss \in SeqNums /\ a.iss - a.iss = 0
  BY SeqNumsAreNat DEF AppEnd
<1>2. Offset(a, a.iss) = 0
  BY <1>1, ModWithin, HalfAssumption DEF Offset, Mod
<1>3. Offset(a, a.iss) + n < Mod /\ Offset(a, a.iss) + n = n
  BY <1>2
<1> QED
  BY <1>1, <1>3, OffsetAdd

\* Only the initial sequence number has the offset 0.
LEMMA OffsetZero ==
  ASSUME NEW a \in AppEnd, NEW r \in SeqNums
  PROVE  Offset(a, r) = 0 <=> r = a.iss
<1>1. a.iss \in 0 .. Mod - 1 /\ r \in 0 .. Mod - 1 /\ Mod \in Nat
  BY HalfAssumption DEF AppEnd, SeqNums, Mod
<1>2. CASE r >= a.iss
  <2>1. r - a.iss \in 0 .. Mod - 1
    BY <1>1, <1>2
  <2>2. Offset(a, r) = r - a.iss
    BY <2>1, ModWithin DEF Offset
  <2> QED
    BY <1>1, <2>2
<1>3. CASE r < a.iss
  <2>1. r - a.iss \in -Mod .. -1
    BY <1>1, <1>3
  <2>2. Offset(a, r) = r - a.iss + Mod
    BY <2>1, ModBelow DEF Offset
  <2> QED
    BY <1>1, <1>3, <2>2
<1> QED
  BY <1>1, <1>2, <1>3

LEMMA LaterNumber ==
  ASSUME NEW a \in AppEnd, NEW n \in Nat, n >= 1, n < Mod
  PROVE  SeqAdd(a.iss, n) # a.iss
<1>1. a.iss \in SeqNums /\ Offset(a, SeqAdd(a.iss, n)) = n
  BY OffsetOfNumber DEF AppEnd
<1>2. Offset(a, a.iss) = 0
  BY <1>1, OffsetZero
<1> QED
  BY <1>1, <1>2

-----------------------------------------------------------------------------
(* The inductive invariant                                                 *)

\* The app's end: what it has acknowledged lies in what it has sent.
AppOK(a) ==
  /\ a.nxt <= AppBytes + 2
  /\ IF a.st = "closed" THEN a.nxt = 0 ELSE a.nxt >= 1
  /\ a.st = "open" => a.una >= 1 /\ Opened(a)
  /\ a.una <= a.nxt
  /\ "unsent" \notin a.faults

\* Bytes of the app's stream from data on have their own numbers, except that
\* those on the SYN have the SYN's, which is one less.
PieceOK(a, seq, data, len) ==
  /\ data >= 1 /\ data + len <= AppBytes + 1 /\ data + len <= a.nxt
  /\ IF seq = a.iss THEN data = 1 ELSE seq = SeqAdd(a.iss, data)

\* A packet of the app is a piece of its stream; only with the SYN does it come
\* before the connection has opened.
PacketOK(a, p) ==
  /\ "SYN" \in p.flags => p.seq = a.iss
  /\ p.len > 0 => /\ PieceOK(a, p.seq, p.data, p.len)
                  /\ p.seq # a.iss => Opened(a)
  /\ "FIN" \in p.flags => a.nxt = AppBytes + 2

\* So is a segment in the queue, whichever of its bytes have been sent; those of
\* the SYN's segment are not sent any more once the SYN is counted.
SegmentOK(a, g, counted) ==
  /\ g.sent < g.len
  /\ PieceOK(a, g.seq, g.data, g.len)
  /\ counted /\ g.seq = a.iss => g.sent = 0

QueueOK(a, q, counted) == \A i \in 1 .. Len(q) : SegmentOK(a, q[i], counted)

\* k, the offset of remote_seq, is next, with the SYN not counted yet or the
\* FIN counted already: only once all that was queued has gone. Before the SYN
\* is counted there is at most its own segment, from which a session that was
\* reset at once may still send.
CountOK(a, x, k, next) ==
  /\ next >= 1 /\ next <= AppBytes + 1 /\ next <= a.nxt
  /\ k <= a.nxt
  /\ k \in {next - 1, next, next + 1}
  /\ k = next - 1 =>
       \A i \in 1 .. Len(x.forward) :
         i = 1 /\ x.forward[i].seq = a.iss /\ x.forward[i].sent = k
  /\ k = next + 1 => x.forward = <<>> /\ a.nxt = AppBytes + 2
  /\ x.state = "LISTEN" => k = next - 1 /\ next = 1
  /\ x.state \in {"SYN_RECV", "ESTABLISHED"} => k = next
  /\ x.state = "FIN_WAIT1" => k = next /\ x.forward = <<>>
  /\ x.state = "CLOSE_WAIT" => /\ k = next + (IF x.forward = <<>> THEN 1 ELSE 0)
                               /\ a.nxt = AppBytes + 2
  /\ x.state = "LAST_ACK" => k = next + 1

\* remote_seq has moved past the SYN.
Counted(a, x, h) == Offset(a, x.remote_seq) # h.next - 1

SessionOK(a, x, h) ==
  /\ x.state # "NONE" => /\ a.st # "closed" /\ x.remote_start = a.iss
                         /\ QueueOK(a, x.forward, Counted(a, x, h))
                         /\ CountOK(a, x, Offset(a, x.remote_seq), h.next)
  /\ h.inOrder

UpInv ==
  /\ AppOK(app)
  /\ app.st = "closed" => tun = <<>>
  /\ \A i \in 1 .. Len(tun) : PacketOK(app, tun[i])
  /\ SessionOK(app, s, taken)

-----------------------------------------------------------------------------
(* What keeps the parts of the invariant                                   *)

\* The app goes on: it starts no other stream and takes back nothing it sent.
Extends(a, b) ==
  /\ b.iss = a.iss /\ b.nxt >= a.nxt /\ b.nxt <= AppBytes + 2
  /\ Opened(a) => Opened(b)
  /\ a.st # "closed" => b.st # "closed"

LEMMA PacketCarried ==
  ASSUME NEW a \in AppEnd, NEW b \in AppEnd, NEW p \in Packet,
         Extends(a, b), PacketOK(a, p)
  PROVE  PacketOK(b, p)
<1>1. /\ a.nxt \in Nat /\ b.nxt \in Nat /\ p.len \in Nat /\ p.data \in Nat
      /\ AppBytes \in Nat
  BY TcpAssumption DEF AppEnd, Packet
<1>2. p.len > 0 => PieceOK(b, p.seq, p.data, p.len)
  BY <1>1 DEF Extends, PacketOK, PieceOK
<1> QED
  BY <1>1, <1>2 DEF Extends, PacketOK

LEMMA SegmentCarried ==
  ASSUME NEW a \in AppEnd, NEW b \in AppEnd, NEW g \in Segment,
         NEW c \in BOOLEAN, Extends(a, b), SegmentOK(a, g, c)
  PROVE  SegmentOK(b, g, c)
<1>1. a.nxt \in Nat /\ b.nxt \in Nat /\ g.len \in Nat /\ g.data \in Nat
  BY DEF AppEnd, Segment
<1> QED
  BY <1>1 DEF Extends, SegmentOK, PieceOK

LEMMA CountCarried ==
  ASSUME NEW a \in AppEnd, NEW b \in AppEnd, NEW x \in Session,
         NEW k \in Nat, NEW n \in Nat, Extends(a, b), CountOK(a, x, k, n)
  PROVE  CountOK(b, x, k, n)
<1>1. a.nxt \in Nat /\ b.nxt \in Nat /\ AppBytes \in Nat
  BY TcpAssumption DEF AppEnd
<1> QED
  BY <1>1 DEF Extends, CountOK

LEMMA SessionCarried ==
  ASSUME NEW a \in AppEnd, NEW b \in AppEnd, NEW x \in Session,
         NEW h \in History, Extends(a, b), SessionOK(a, x, h)
  PROVE  SessionOK(b, x, h)
<1>1. ASSUME x.state # "NONE"
      PROVE  /\ b.st # "closed" /\ x.remote_start = b.iss
             /\ QueueOK(b, x.forward, Counted(b, x, h))
             /\ CountOK(b, x, Offset(b, x.remote_seq), h.next)
  <2>1. b.st # "closed" /\ x.remote_start = b.iss
    BY <1>1 DEF SessionOK, Extends
  <2>2. QueueOK(b, x.forward, Counted(b, x, h))
    <3> DEFINE c == Counted(a, x, h)
    <3>1. x.forward \in Seq(Segment) /\ c \in BOOLEAN
      BY DEF Session, Counted
    <3>2. c = Counted(b, x, h)
      BY DEF Extends, Offset, Counted
    <3>3. QueueOK(a, x.forward, c)
      BY <1>1 DEF SessionOK
    <3> HIDE DEF c
    <3>4. ASSUME NEW i \in 1 .. Len(x.forward) PROVE SegmentOK(b, x.forward[i], c)
      <4>1. x.forward[i] \in Segment
        BY <3>1, ElementOfSeq
      <4>2. SegmentOK(a, x.forward[i], c)
        BY <3>3 DEF QueueOK
      <4> QED
        BY <3>1, <4>1, <4>2, SegmentCarried
    <3>5. QueueOK(b, x.forward, c)
      BY <3>4 DEF QueueOK
    <3> QED
      BY <3>2, <3>5, Zenon
  <2>3. CountOK(b, x, Offset(b, x.remote_seq), h.next)
    <3>1. x.remote_seq \in SeqNums /\ h.next \in Nat
      BY DEF Session, History
    <3>2. Offset(a, x.remote_seq) \in Nat
      BY <3>1, OffsetType, SeqNumsAreNat
    <3>3. Offset(b, x.remote_seq) = Offset(a, x.remote_seq)
      BY DEF Extends, Offset
    <3>4. CountOK(a, x, Offset(a, x.remote_seq), h.next)
      BY <1>1 DEF SessionOK
    <3>5. CountOK(b, x, Offset(a, x.remote_seq), h.next)
      BY <3>1, <3>2, <3>4, CountCarried
    <3> QED
      BY <3>3, <3>5, Zenon
  <2> QED
    BY <2>1, <2>2, <2>3
<1>2. h.inOrder
  BY DEF SessionOK
<1> QED
  BY <1>1, <1>2 DEF SessionOK

\* The session goes on, or ends, with its numbers and its queue as they are.
LEMMA SessionSame ==
  ASSUME NEW a \in AppEnd, NEW x \in Session, NEW y \in Session,
         NEW h \in History, SessionOK(a, x, h), x.state # "NONE",
         y.remote_start = x.remote_start, y.remote_seq = x.remote_seq,
         y.forward = x.forward, y.state \in {x.state, "CLOSING", "CLOSE"}
  PROVE  SessionOK(a, y, h)
<1>1. CountOK(a, x, Offset(a, x.remote_seq), h.next)
  BY DEF SessionOK
<1>2. CountOK(a, y, Offset(a, x.remote_seq), h.next)
  BY <1>1 DEF CountOK
<1>3. CountOK(a, y, Offset(a, y.remote_seq), h.next)
  BY <1>2, Zenon
<1>4. Counted(a, y, h) = Counted(a, x, h)
  BY Zenon DEF Counted
<1>5. QueueOK(a, y.forward, Counted(a, y, h))
  BY <1>4, Zenon DEF SessionOK
<1> QED
  BY <1>3, <1>5, Zenon DEF SessionOK

-----------------------------------------------------------------------------
(* What the app may be told                                                *)

\* The packet acknowledges what was sent, and with a SYN at least the SYN.
ReplyOK(a, p) ==
  /\ "ACK" \in p.flags => Offset(a, p.ack_seq) <= a.nxt
  /\ "SYN" \in p.flags => "ACK" \in p.flags /\ Offset(a, p.ack_seq) >= 1

LEMMA AppReceiveOK ==
  ASSUME NEW a \in AppEnd, NEW p \in Reply, AppOK(a), ReplyOK(a, p)
  PROVE  LET b == AppReceive(a, p)
         IN  /\ AppOK(b) /\ b \in AppEnd
             /\ b.iss = a.iss /\ b.nxt = a.nxt
             /\ b.st = "closed" <=> a.st = "closed"
             /\ Opened(a) => Opened(b)
<1> DEFINE irs == IF "SYN" \in p.flags THEN p.seq ELSE a.irs
           off == (p.seq - irs) % Mod
           ack == (p.ack_seq - a.iss) % Mod
           f   == [a EXCEPT !.faults = @ \cup FaultsOf(a, p, off, ack)]
           una == IF "ACK" \in p.flags /\ ack > a.una /\ ack <= a.nxt THEN ack ELSE a.una
           fin == IF "FIN" \in p.flags THEN 1 ELSE 0
<1>0. fin \in Nat /\ p.len \in Nat /\ a.rcv \in Nat
  BY DEF Reply, AppEnd
<1>1. ack = Offset(a, p.ack_seq) /\ ack \in Nat
  <2>1. p.ack_seq \in SeqNums
    BY DEF Reply
  <2> QED
    BY <2>1, OffsetType, SeqNumsAreNat DEF Offset
<1>2. a.una \in Nat /\ a.nxt \in Nat
  BY DEF AppEnd
<1>3. una >= a.una /\ una <= a.nxt /\ ("SYN" \in p.flags => una >= 1)
  <2> HIDE DEF ack
  <2> QED
    BY <1>1, <1>2 DEF AppOK, ReplyOK
<1>4. /\ f.iss = a.iss /\ f.nxt = a.nxt /\ f.st = a.st /\ f.una = a.una
      /\ f.rcv = a.rcv
      /\ "unsent" \notin f.faults /\ f \in AppEnd
  <2>1. "unsent" \notin FaultsOf(a, p, off, ack)
    <3> HIDE DEF ack, off
    <3> QED
      BY <1>1, <1>2 DEF FaultsOf, ReplyOK
  <2>2. FaultsOf(a, p, off, ack) \in SUBSET Faults
    BY DEF FaultsOf
  <2> HIDE DEF off, ack
  <2> QED
    BY <2>1, <2>2 DEF AppEnd, AppOK
<1> DEFINE b == AppReceive(a, p)
<1>5. \/ b = f
      \/ b = [f EXCEPT !.st = "reset"] /\ a.st # "closed"
      \/ b = [f EXCEPT !.st = "open", !.irs = irs, !.rcv = 1, !.una = una]
           /\ a.st = "syn_sent" /\ "SYN" \in p.flags
      \/ b = [f EXCEPT !.una = una, !.rcv = @ + p.len + fin]
      \/ b = [f EXCEPT !.una = una]
  <2> HIDE DEF off, ack
  <2> QED
    BY DEF AppReceive, irs, off, ack, f, una, fin
<1>6. b \in AppEnd
  BY AppReceiveType
<1> HIDE DEF f, una, irs, fin, b
<1>7. /\ b.iss = f.iss /\ b.nxt = f.nxt /\ b.faults = f.faults
      /\ b.una \in {f.una, una}
      /\ \/ b.st = f.st
         \/ b.st = "reset" /\ a.st # "closed"
         \/ b.st = "open" /\ b.una = una /\ a.st = "syn_sent" /\ "SYN" \in p.flags
      /\ b.rcv \in {f.rcv, 1, f.rcv + p.len + fin}
      /\ b.st = "open" /\ b.st # f.st => b.rcv = 1
  BY <1>4, <1>5 DEF AppEnd
<1>8. b.una >= a.una /\ b.una <= a.nxt
  BY <1>2, <1>3, <1>4, <1>7 DEF AppOK
<1>9. b.st = "open" => b.una >= 1
  <2>1. CASE b.st = f.st
    <3>1. b.st = "open" => a.una >= 1
      BY <1>4, <2>1 DEF AppOK
    <3>2. b.una \in Nat
      BY <1>6 DEF AppEnd
    <3> QED
      BY <1>2, <1>8, <3>1, <3>2
  <2>2. CASE b.st = "open" /\ b.una = una /\ "SYN" \in p.flags
    BY <1>3, <2>2
  <2> QED
    BY <1>7, <2>1, <2>2
<1>10. b.st = "closed" <=> a.st = "closed"
  BY <1>4, <1>7
<1>11. Opened(a) => Opened(b)
  BY <1>0, <1>4, <1>7 DEF Opened
<1>12. b.st = "open" => Opened(b)
  <2>1. CASE b.st = f.st
    BY <1>4, <1>11, <2>1 DEF AppOK
  <2>2. CASE b.st # f.st
    BY <1>7, <2>2 DEF Opened
  <2> QED
    BY <2>1, <2>2
<1>13. AppOK(b)
  BY <1>4, <1>7, <1>8, <1>9, <1>10, <1>12 DEF AppOK
<1> QED
  BY <1>4, <1>6, <1>7, <1>10, <1>11, <1>13 DEF b

\* Whether the app may be told something depends on what it has sent only.
LEMMA ReplyCarried ==
  ASSUME NEW a, NEW b, NEW p, ReplyOK(a, p), b.iss = a.iss, b.nxt = a.nxt
  PROVE  ReplyOK(b, p)
BY DEF ReplyOK, Offset

RepliesOK(out) == \A i \in 1 .. Len(out) : ReplyOK(app, out[i])

\* The app's end after all the packets of one step.
LEMMA DeliverOK ==
  ASSUME app \in AppEnd, AppOK(app), NEW out \in Seq(Reply), RepliesOK(out),
         Deliver(out)
  PROVE  /\ AppOK(app') /\ app' \in AppEnd /\ Extends(app, app')
         /\ app'.st = "closed" <=> app.st = "closed"
<1>1. Len(out) \in Nat /\ (Len(out) = 0 \/ Len(out) = 1 \/ Len(out) > 1)
  <2>1. Len(out) \in Nat
    BY LenProperties
  <2>2. \A n \in Nat : n = 0 \/ n = 1 \/ n > 1
    OBVIOUS
  <2> QED
    BY <2>1, <2>2
<1>2. \A i \in 1 .. Len(out) : out[i] \in Reply /\ ReplyOK(app, out[i])
  BY ElementOfSeq DEF RepliesOK
<1>3. /\ AppOK(app') /\ app' \in AppEnd /\ app'.iss = app.iss /\ app'.nxt = app.nxt
      /\ app'.st = "closed" <=> app.st = "closed"
      /\ Opened(app) => Opened(app')
  <2>1. CASE Len(out) = 0
    BY <2>1 DEF Deliver
  <2>2. CASE Len(out) = 1
    <3>1. out[1] \in Reply /\ ReplyOK(app, out[1])
      BY <1>2, <2>2
    <3> QED
      BY <2>2, <3>1, AppReceiveOK DEF Deliver
  <2>3. CASE Len(out) > 1
    <3> DEFINE b == AppReceive(app, out[1])
    <3>1. /\ out[1] \in Reply /\ ReplyOK(app, out[1])
          /\ out[2] \in Reply /\ ReplyOK(app, out[2])
      BY <1>1, <1>2, <2>3
    <3>2. /\ AppOK(b) /\ b \in AppEnd /\ b.iss = app.iss /\ b.nxt = app.nxt
          /\ b.st = "closed" <=> app.st = "closed"
          /\ Opened(app) => Opened(b)
      BY <3>1, AppReceiveOK
    <3>3. app' = AppReceive(b, out[2])
      BY <1>1, <2>3 DEF Deliver
    <3> HIDE DEF b
    <3>4. ReplyOK(b, out[2])
      BY <3>1, <3>2, ReplyCarried
    <3> QED
      BY <3>1, <3>2, <3>3, <3>4, AppReceiveOK
  <2> QED
    BY <1>1, <2>1, <2>2, <2>3
<1>4. app.nxt \in Nat /\ app.nxt <= AppBytes + 2
  BY DEF AppEnd, AppOK
<1> QED
  BY <1>3, <1>4 DEF Extends

\* No packet, one packet, two packets.
LEMMA NoReply == RepliesOK(<<>>)
<1>1. Len(<<>>) = 0
  OBVIOUS
<1> QED
  BY <1>1 DEF RepliesOK

LEMMA OneReply ==
  ASSUME NEW p \in Reply, ReplyOK(app, p), NEW ok \in BOOLEAN
  PROVE  RepliesOK(Out(ok, p))
<1>1. Len(<<p>>) = 1 /\ <<p>>[1] = p
  OBVIOUS
<1>2. RepliesOK(<<p>>)
  BY <1>1 DEF RepliesOK
<1> QED
  BY <1>2, NoReply DEF Out

LEMMA MoreReplies ==
  ASSUME NEW out \in Seq(Reply), NEW more \in Seq(Reply),
         RepliesOK(out), RepliesOK(more)
  PROVE  RepliesOK(out \o more)
<1>1. /\ Len(out) \in Nat /\ Len(more) \in Nat
      /\ Len(out \o more) = Len(out) + Len(more)
      /\ \A i \in 1 .. Len(out) + Len(more) :
           (out \o more)[i] = IF i <= Len(out) THEN out[i] ELSE more[i - Len(out)]
  BY LenProperties, ConcatProperties
<1>2. ASSUME NEW i \in 1 .. Len(out) + Len(more)
      PROVE  ReplyOK(app, (out \o more)[i])
  <2>1. CASE i <= Len(out)
    <3>1. i \in 1 .. Len(out)
      BY <1>1, <2>1
    <3> QED
      BY <1>1, <2>1, <3>1 DEF RepliesOK
  <2>2. CASE ~(i <= Len(out))
    <3>1. i - Len(out) \in 1 .. Len(more)
      BY <1>1, <2>2
    <3> QED
      BY <1>1, <2>2, <3>1 DEF RepliesOK
  <2> QED
    BY <2>1, <2>2
<1> QED
  BY <1>1, <1>2 DEF RepliesOK

\* tcp.c:346, 728, 738: what the session acknowledges lies in what was sent.
LEMMA WriteOK ==
  ASSUME NEW x \in Session, NEW h \in History, SessionOK(app, x, h),
         x.state # "NONE", NEW flags \in SUBSET Flags, "SYN" \notin flags,
         NEW len \in Nat
  PROVE  ReplyOK(app, write_tcp(x, flags, len))
<1>1. CountOK(app, x, Offset(app, x.remote_seq), h.next)
  BY DEF SessionOK
<1>2. Offset(app, x.remote_seq) <= app.nxt
  BY <1>1 DEF CountOK
<1> QED
  BY <1>2 DEF ReplyOK, write_tcp

\* The number of remote_seq and the numbers after it, as offsets.
LEMMA OffsetOfSession ==
  ASSUME StreamFits, NEW a \in AppEnd, AppOK(a), NEW x \in Session,
         NEW h \in History, SessionOK(a, x, h), x.state # "NONE"
  PROVE  /\ Offset(a, x.remote_seq) \in 0 .. AppBytes + 2
         /\ Offset(a, x.remote_seq) < AppBytes + 2
              => Offset(a, SeqAdd(x.remote_seq, 1)) = Offset(a, x.remote_seq) + 1
<1>1. CountOK(a, x, Offset(a, x.remote_seq), h.next)
  BY DEF SessionOK
<1>2. x.remote_seq \in SeqNums /\ a.nxt \in Nat /\ AppBytes \in Nat /\ Mod \in Nat
  BY TcpAssumption, HalfAssumption DEF Session, AppEnd, Mod
<1>3. Offset(a, x.remote_seq) \in Nat
  BY <1>2, OffsetType, SeqNumsAreNat
<1>4. Offset(a, x.remote_seq) <= a.nxt /\ a.nxt <= AppBytes + 2
  BY <1>1 DEF CountOK, AppOK
<1>5. AppBytes + 2 < Mod
  BY DEF StreamFits
<1>6. Offset(a, x.remote_seq) < AppBytes + 2 => Offset(a, x.remote_seq) + 1 < Mod
  BY <1>2, <1>3, <1>5
<1>7. 1 \in Nat
  OBVIOUS
<1>8. Offset(a, x.remote_seq) + 1 < Mod
        => Offset(a, SeqAdd(x.remote_seq, 1)) = Offset(a, x.remote_seq) + 1
  BY <1>2, <1>7, OffsetAdd
<1> QED
  BY <1>2, <1>3, <1>4, <1>6, <1>8

\* The SYN is counted once, whether the connect or a reset answers it.
LEMMA SynCounted ==
  ASSUME StreamFits, NEW a \in AppEnd, AppOK(a), NEW x \in Session,
         NEW h \in History, SessionOK(a, x, h), x.state = "LISTEN",
         NEW y \in Session, y.remote_start = x.remote_start,
         y.remote_seq = SeqAdd(x.remote_seq, 1), y.forward = x.forward,
         y.state \in {"SYN_RECV", "CLOSING"}
  PROVE  SessionOK(a, y, h) /\ Offset(a, y.remote_seq) = 1 /\ a.nxt >= 1
<1>1. CountOK(a, x, Offset(a, x.remote_seq), h.next)
  BY DEF SessionOK
<1>2. h.next \in Nat /\ a.nxt \in Nat /\ AppBytes \in Nat
  BY TcpAssumption DEF History, AppEnd
<1>3. h.next = 1 /\ Offset(a, x.remote_seq) = 0 /\ a.nxt >= 1
  BY <1>1, <1>2 DEF CountOK
<1>4. Offset(a, y.remote_seq) = 1
  BY <1>2, <1>3, OffsetOfSession
<1>5. CountOK(a, y, 1, h.next)
  BY <1>2, <1>3 DEF CountOK
<1>6. CountOK(a, y, Offset(a, y.remote_seq), h.next)
  BY <1>4, <1>5, Zenon
<1>7. a.st # "closed" /\ y.remote_start = a.iss /\ h.inOrder
  BY DEF SessionOK
<1>8. QueueOK(a, y.forward, Counted(a, y, h))
  <2>1. \A i \in 1 .. Len(x.forward) : SegmentOK(a, x.forward[i], Counted(a, x, h))
    BY DEF SessionOK, QueueOK
  <2>2. \A i \in 1 .. Len(x.forward) : x.forward[i].sent = 0
    BY <1>1, <1>2, <1>3 DEF CountOK
  <2>3. \A i \in 1 .. Len(x.forward) : SegmentOK(a, x.forward[i], Counted(a, y, h))
    BY <2>1, <2>2 DEF SegmentOK
  <2> QED
    BY <2>3 DEF QueueOK
<1> QED
  BY <1>3, <1>4, <1>6, <1>7, <1>8 DEF SessionOK

\* tcp.c:941-984: a reset counts the SYN if nothing had, and leaves the rest.
LEMMA WriteRstOK ==
  ASSUME StreamFits, NEW a \in AppEnd, AppOK(a), NEW x \in Session,
         NEW h \in History, SessionOK(a, x, h), x.state # "NONE"
  PROVE  SessionOK(a, write_rst(x), h)
<1> DEFINE y == write_rst(x)
<1>1. /\ y \in Session /\ y.remote_start = x.remote_start /\ y.forward = x.forward
      /\ y.state \in {"CLOSING", "CLOSE"} /\ (x.state = "LISTEN" => y.state = "CLOSING")
      /\ y.remote_seq = IF x.state = "LISTEN" THEN SeqAdd(x.remote_seq, 1)
                                              ELSE x.remote_seq
  BY WriteRstType DEF write_rst, Session
<1> HIDE DEF y
<1>2. CASE x.state # "LISTEN"
  BY <1>1, <1>2, SessionSame DEF y
<1>3. CASE x.state = "LISTEN"
  BY <1>1, <1>3, SynCounted DEF y
<1> QED
  BY <1>2, <1>3

LEMMA RstPacketOK ==
  ASSUME StreamFits, app \in AppEnd, AppOK(app), NEW x \in Session,
         NEW h \in History, SessionOK(app, x, h), x.state # "NONE"
  PROVE  ReplyOK(app, RstPacket(x))
<1>1. RstPacket(x).flags = IF x.state = "LISTEN" THEN {"RST", "ACK"} ELSE {"RST"}
  BY DEF RstPacket, write_tcp
<1>2. CASE x.state # "LISTEN"
  BY <1>1, <1>2 DEF ReplyOK
<1>3. CASE x.state = "LISTEN"
  <2>1. RstPacket(x).ack_seq = SeqAdd(x.remote_seq, 1)
    <3>1. [x EXCEPT !.remote_seq = SeqAdd(@, 1)].remote_seq = SeqAdd(x.remote_seq, 1)
      BY DEF Session
    <3>2. "ACK" \in {"RST", "ACK"}
      OBVIOUS
    <3> QED
      BY <1>3, <3>1, <3>2 DEF RstPacket, write_tcp
  <2>2. SessionOK(app, write_rst(x), h) /\ write_rst(x).state # "NONE"
    BY WriteRstOK DEF write_rst, Session
  <2>3. write_rst(x).remote_seq = SeqAdd(x.remote_seq, 1)
    BY <1>3 DEF write_rst, Session
  <2>4. CountOK(app, write_rst(x), Offset(app, SeqAdd(x.remote_seq, 1)), h.next)
    BY <2>2, <2>3, Zenon DEF SessionOK
  <2>5. Offset(app, SeqAdd(x.remote_seq, 1)) <= app.nxt
    BY <2>4 DEF CountOK
  <2> QED
    BY <1>1, <1>3, <2>1, <2>5 DEF ReplyOK
<1> QED
  BY <1>2, <1>3

-----------------------------------------------------------------------------
(* handle_tcp                                                              *)

\* tcp.c:823-887: whatever is queued, dropped or replaced, the queue holds
\* pieces of the app's stream.
LEMMA QueueStaysOK ==
  ASSUME NEW a \in AppEnd, NEW x \in Session, NEW p \in Packet,
         NEW c \in BOOLEAN, QueueOK(a, x.forward, c), PacketOK(a, p), p.len > 0
  PROVE  QueueOK(a, queue_tcp(x, p), c)
<1> DEFINE q    == x.forward
           ends == {i \in 0 .. Len(q) : i = Len(q) \/ Compare(q[i + 1].seq, p.seq) >= 0}
           k    == CHOOSE i \in ends : \A j \in ends : i <= j
           new  == [seq |-> p.seq, len |-> p.len, sent |-> 0, data |-> p.data]
           put  == SubSeq(q, 1, k) \o <<new>> \o SubSeq(q, k + 1, Len(q))
           over == [q EXCEPT ![k + 1].data = p.data]
<1>1. q \in Seq(Segment) /\ Len(q) \in Nat
  BY LenProperties DEF Session
<1>2. new \in Segment /\ SegmentOK(a, new, c)
  <2>1. p.len \in Nat /\ p.data \in Nat /\ p.seq \in SeqNums
    BY DEF Packet
  <2>2. new \in Segment
    BY <2>1 DEF Segment
  <2>3. PieceOK(a, p.seq, p.data, p.len)
    BY DEF PacketOK
  <2> QED
    BY <2>1, <2>2, <2>3 DEF SegmentOK
<1>3. k \in 0 .. Len(q)
  <2>1. ends \subseteq Nat /\ Len(q) \in ends
    BY <1>1
  <2>2. \E i \in ends : \A j \in ends : i <= j
    BY <2>1, LeastNat
  <2>3. k \in ends
    BY <2>2
  <2> QED
    BY <2>3
<1>4. \A i \in 1 .. Len(q) : q[i] \in Segment /\ SegmentOK(a, q[i], c)
  BY <1>1, ElementOfSeq DEF QueueOK
<1> HIDE DEF q, k, new
<1>5. QueueOK(a, put, c)
  <2>1. k \in Nat /\ k <= Len(q) /\ k \in Int /\ k + 1 \in Int /\ Len(q) \in Int
    BY <1>1, <1>3
  <2>2. /\ SubSeq(q, 1, k) \in Seq(Segment) /\ Len(SubSeq(q, 1, k)) = k
        /\ \A i \in 1 .. k : SubSeq(q, 1, k)[i] = q[i]
    <3>1. \A i \in 1 .. k : q[i] \in Segment
      BY <1>1, <1>4, <2>1
    <3>2. 1 \in Int
      OBVIOUS
    <3>3. /\ SubSeq(q, 1, k) \in Seq(Segment)
          /\ Len(SubSeq(q, 1, k)) = IF 1 <= k THEN k - 1 + 1 ELSE 0
          /\ \A i \in 1 .. k - 1 + 1 : SubSeq(q, 1, k)[i] = q[1 + i - 1]
      BY <1>1, <2>1, <3>1, <3>2, SubSeqProperties
    <3>4. \A i \in 1 .. k : i \in 1 .. k - 1 + 1 /\ 1 + i - 1 = i
      BY <2>1
    <3>5. (IF 1 <= k THEN k - 1 + 1 ELSE 0) = k
      BY <2>1
    <3> QED
      BY <3>3, <3>4, <3>5
  <2>3. /\ SubSeq(q, k + 1, Len(q)) \in Seq(Segment)
        /\ Len(SubSeq(q, k + 1, Len(q))) = Len(q) - k
        /\ \A i \in 1 .. Len(q) - k : SubSeq(q, k + 1, Len(q))[i] = q[k + i]
    <3>1. \A i \in k + 1 .. Len(q) : q[i] \in Segment
      BY <1>1, <1>4, <2>1
    <3>3. /\ SubSeq(q, k + 1, Len(q)) \in Seq(Segment)
          /\ Len(SubSeq(q, k + 1, Len(q)))
               = IF k + 1 <= Len(q) THEN Len(q) - (k + 1) + 1 ELSE 0
          /\ \A i \in 1 .. Len(q) - (k + 1) + 1 :
               SubSeq(q, k + 1, Len(q))[i] = q[(k + 1) + i - 1]
      BY <1>1, <2>1, <3>1, SubSeqProperties
    <3>4. \A i \in 1 .. Len(q) - k : i \in 1 .. Len(q) - (k + 1) + 1 /\ (k + 1) + i - 1 = k + i
      BY <1>1, <2>1
    <3>5. (IF k + 1 <= Len(q) THEN Len(q) - (k + 1) + 1 ELSE 0) = Len(q) - k
      BY <1>1, <2>1
    <3> QED
      BY <3>3, <3>4, <3>5
  <2>4. <<new>> \in Seq(Segment) /\ Len(<<new>>) = 1 /\ <<new>>[1] = new
    BY <1>2
  <2> DEFINE front == SubSeq(q, 1, k) \o <<new>>
             back  == SubSeq(q, k + 1, Len(q))
  <2>5. /\ front \in Seq(Segment) /\ Len(front) = k + 1
        /\ \A i \in 1 .. k + 1 : SegmentOK(a, front[i], c)
    <3>1. /\ front \in Seq(Segment) /\ Len(front) = k + 1
          /\ \A i \in 1 .. k + 1 :
               front[i] = IF i <= k THEN SubSeq(q, 1, k)[i] ELSE <<new>>[i - k]
      <4> DEFINE left == SubSeq(q, 1, k)
                 one  == <<new>>
      <4>1. /\ left \in Seq(Segment) /\ Len(left) = k
            /\ one \in Seq(Segment) /\ Len(one) = 1
        BY <2>2, <2>4
      <4> HIDE DEF left, one
      <4>2. /\ left \o one \in Seq(Segment)
            /\ Len(left \o one) = Len(left) + Len(one)
            /\ \A i \in 1 .. Len(left) + Len(one) :
                 (left \o one)[i] = IF i <= Len(left) THEN left[i] ELSE one[i - Len(left)]
        BY <4>1, ConcatProperties
      <4>3. /\ left \o one \in Seq(Segment) /\ Len(left \o one) = k + 1
            /\ \A i \in 1 .. k + 1 :
                 (left \o one)[i] = IF i <= k THEN left[i] ELSE one[i - k]
        BY <4>1, <4>2
      <4> QED
        BY <4>3 DEF left, one
    <3>2. ASSUME NEW i \in 1 .. k + 1 PROVE SegmentOK(a, front[i], c)
      <4>1. CASE i <= k
        <5>1. i \in 1 .. k /\ i \in 1 .. Len(q)
          BY <1>1, <2>1, <4>1
        <5>2. front[i] = q[i]
          BY <2>2, <3>1, <4>1, <5>1
        <5> QED
          BY <1>4, <5>1, <5>2
      <4>2. CASE ~(i <= k)
        <5>1. i - k = 1
          BY <2>1, <4>2
        <5>2. front[i] = new
          BY <2>4, <3>1, <4>2, <5>1
        <5> QED
          BY <1>2, <5>2
      <4> QED
        BY <4>1, <4>2
    <3> QED
      BY <3>1, <3>2
  <2>6. \A i \in 1 .. Len(q) - k : SegmentOK(a, back[i], c)
    <3>1. \A i \in 1 .. Len(q) - k : k + i \in 1 .. Len(q)
      BY <1>1, <2>1
    <3> QED
      BY <1>4, <2>3, <3>1
  <2>7. back \in Seq(Segment) /\ Len(back) = Len(q) - k
    BY <2>3
  <2> HIDE DEF front, back
  <2>8. /\ Len(front \o back) = Len(front) + Len(back)
        /\ \A i \in 1 .. Len(front) + Len(back) :
             (front \o back)[i] = IF i <= Len(front) THEN front[i] ELSE back[i - Len(front)]
    BY <2>5, <2>7, ConcatProperties
  <2>9. ASSUME NEW i \in 1 .. Len(front \o back)
        PROVE  SegmentOK(a, (front \o back)[i], c)
    <3>1. CASE i <= Len(front)
      <4>1. i \in 1 .. k + 1 /\ i \in 1 .. Len(front) + Len(back)
        BY <1>1, <2>1, <2>5, <2>7, <2>8, <3>1
      <4> QED
        BY <2>5, <2>8, <3>1, <4>1
    <3>2. CASE ~(i <= Len(front))
      <4>1. i - Len(front) \in 1 .. Len(q) - k /\ i \in 1 .. Len(front) + Len(back)
        BY <1>1, <2>1, <2>5, <2>7, <2>8, <3>2
      <4> QED
        BY <2>6, <2>8, <3>2, <4>1
    <3> QED
      BY <3>1, <3>2
  <2> QED
    BY <2>9 DEF QueueOK, front, back
<1>6. ASSUME k < Len(q), q[k + 1].seq = p.seq, q[k + 1].len < p.len
      PROVE  QueueOK(a, over, c)
  <2> DEFINE g == [q[k + 1] EXCEPT !.data = p.data]
  <2>1. k + 1 \in 1 .. Len(q)
    BY <1>1, <1>3, <1>6
  <2>2. q[k + 1] \in Segment /\ SegmentOK(a, q[k + 1], c)
    BY <1>4, <2>1
  <2>3. SegmentOK(a, g, c)
    <3>1. /\ g.seq = p.seq /\ g.data = p.data
          /\ g.len = q[k + 1].len /\ g.sent = q[k + 1].sent
      BY <1>6, <2>2 DEF Segment
    <3>2. PieceOK(a, p.seq, p.data, p.len)
      BY DEF PacketOK
    <3>3. p.len \in Nat /\ p.data \in Nat /\ a.nxt \in Nat /\ AppBytes \in Nat
      BY TcpAssumption DEF Packet, AppEnd
    <3>4. q[k + 1].len \in Nat /\ q[k + 1].sent < q[k + 1].len
      BY <2>2 DEF Segment, SegmentOK
    <3> HIDE DEF g
    <3>5. PieceOK(a, p.seq, p.data, g.len)
      BY <1>6, <3>1, <3>2, <3>3, <3>4 DEF PieceOK
    <3>6. c /\ g.seq = a.iss => g.sent = 0
      BY <1>6, <2>2, <3>1 DEF SegmentOK
    <3> QED
      BY <3>1, <3>4, <3>5, <3>6 DEF SegmentOK
  <2>4. Len(over) = Len(q) /\ \A i \in 1 .. Len(q) :
                                over[i] = IF i = k + 1 THEN g ELSE q[i]
    BY <1>1, <2>1
  <2> HIDE DEF g, over
  <2> QED
    BY <1>4, <2>3, <2>4 DEF QueueOK
<1>7. QueueOK(a, q, c)
  BY DEF q
<1>8. queue_tcp(x, p) \in {q, put, over}
      /\ (queue_tcp(x, p) = over =>
            \/ queue_tcp(x, p) \in {q, put}
            \/ k < Len(q) /\ q[k + 1].seq = p.seq /\ q[k + 1].len < p.len)
  <2> HIDE DEF put, over
  <2> QED
    BY DEF queue_tcp, q, k, new, put, over
<1> HIDE DEF put, over
<1> QED
  BY <1>5, <1>6, <1>7, <1>8

\* Before the SYN is counted the queue holds its segment, or nothing.
LEMMA QueueOfSyn ==
  ASSUME NEW a \in AppEnd, NEW x \in Session, NEW p \in Packet,
         x.remote_seq = a.iss, p.seq = a.iss,
         \A i \in 1 .. Len(x.forward) :
           i = 1 /\ x.forward[i].seq = a.iss /\ x.forward[i].sent = 0
  PROVE  \A i \in 1 .. Len(queue_tcp(x, p)) :
           i = 1 /\ queue_tcp(x, p)[i].seq = a.iss /\ queue_tcp(x, p)[i].sent = 0
<1> DEFINE q    == x.forward
           ends == {i \in 0 .. Len(q) : i = Len(q) \/ Compare(q[i + 1].seq, p.seq) >= 0}
           k    == CHOOSE i \in ends : \A j \in ends : i <= j
           new  == [seq |-> p.seq, len |-> p.len, sent |-> 0, data |-> p.data]
           put  == SubSeq(q, 1, k) \o <<new>> \o SubSeq(q, k + 1, Len(q))
           over == [q EXCEPT ![k + 1].data = p.data]
<1>1. q \in Seq(Segment) /\ Len(q) \in Nat
  BY LenProperties DEF Session
<1>2. Len(q) \in {0, 1}
  <2>1. Len(q) # 0 => Len(q) \in 1 .. Len(q)
    BY <1>1
  <2>2. Len(q) \in 1 .. Len(q) => Len(q) = 1
    OBVIOUS
  <2> QED
    BY <2>1, <2>2
<1>3. Compare(p.seq, x.remote_seq) = 0
  BY DEF Compare, compare_u32
<1>4. k = 0
  <2>1. 0 \in ends
    <3>1. CASE Len(q) = 0
      BY <3>1
    <3>2. CASE Len(q) = 1
      <4>1. q[1].seq = p.seq
        BY <3>2
      <4>2. Compare(q[1].seq, p.seq) = 0
        BY <4>1 DEF Compare, compare_u32
      <4> QED
        BY <3>2, <4>2
    <3> QED
      BY <1>2, <3>1, <3>2
  <2>2. \A j \in ends : 0 <= j
    BY <1>1
  <2>3. \A i \in ends : (\A j \in ends : i <= j) => i = 0
    BY <1>1, <2>1, <2>2
  <2> HIDE DEF ends
  <2> QED
    BY <2>1, <2>2, <2>3
<1>5. queue_tcp(x, p) \in {q, put, over}
      /\ (k # Len(q) => queue_tcp(x, p) \in {q, over} \/ Compare(q[k + 1].seq, p.seq) > 0)
  <2> HIDE DEF put, over
  <2> QED
    BY <1>3 DEF queue_tcp, q, ends, k, new, put, over
<1> HIDE DEF k, ends
<1>6. CASE Len(q) = 0
  <2>1. q = <<>>
    BY <1>1, <1>6, EmptySeq
  <2>2. SubSeq(q, 1, k) = <<>> /\ SubSeq(q, k + 1, Len(q)) = <<>>
    BY <1>4, <2>1
  <2>3. put = (<<>> \o <<new>>) \o <<>>
    BY <2>2, Zenon
  <2>4. over = <<>>
    BY <2>1
  <2>5. new.seq = a.iss /\ new.sent = 0
    OBVIOUS
  <2> HIDE DEF q, put, over, new
  <2>6. (<<>> \o <<new>>) \o <<>> = <<new>>
    OBVIOUS
  <2>7. Len(put) = 1 /\ put[1] = new /\ Len(over) = 0
    BY <2>3, <2>4, <2>6
  <2>8. \A z \in {q, put, over} :
          \A i \in 1 .. Len(z) : i = 1 /\ z[i].seq = a.iss /\ z[i].sent = 0
    <3>1. \A i \in 1 .. Len(q) : FALSE
      BY <1>6
    <3>2. \A i \in 1 .. Len(over) : FALSE
      BY <2>7
    <3>3. \A i \in 1 .. Len(put) : i = 1 /\ put[i].seq = a.iss /\ put[i].sent = 0
      BY <2>5, <2>7
    <3> QED
      BY <3>1, <3>2, <3>3
  <2> QED
    BY <1>5, <2>8, Zenon
<1>7. CASE Len(q) = 1
  <2>1. q[1] \in Segment /\ q[1].seq = a.iss /\ q[1].sent = 0
    BY <1>1, <1>7, ElementOfSeq
  <2>2. Compare(q[k + 1].seq, p.seq) = 0
    BY <1>4, <2>1 DEF Compare, compare_u32
  <2>3. queue_tcp(x, p) \in {q, over}
    BY <1>4, <1>5, <1>7, <2>2
  <2>4. Len(over) = 1 /\ over[1].seq = q[1].seq /\ over[1].sent = q[1].sent
    BY <1>1, <1>4, <1>7, <2>1 DEF Segment
  <2> HIDE DEF q, over, put, new
  <2>5. \A z \in {q, over} :
          \A i \in 1 .. Len(z) : i = 1 /\ z[i].seq = a.iss /\ z[i].sent = 0
    <3>1. \A i \in 1 .. Len(q) : i = 1 /\ q[i].seq = a.iss /\ q[i].sent = 0
      BY <1>7, <2>1
    <3>2. \A i \in 1 .. Len(over) : i = 1 /\ over[i].seq = a.iss /\ over[i].sent = 0
      BY <2>1, <2>4
    <3> QED
      BY <3>1, <3>2
  <2> QED
    BY <2>3, <2>5, Zenon
<1> QED
  BY <1>2, <1>6, <1>7

\* What the thread leaves after a packet, given the session and the packets out.
LEMMA HandlesOK ==
  ASSUME TypeOK, UpInv, tun # <<>>, NEW x \in Session, NEW out \in Seq(Reply),
         Handles(x, out), RepliesOK(out), taken' \in History,
         SessionOK(app, x, taken')
  PROVE  UpInv'
<1>1. /\ app \in AppEnd /\ AppOK(app) /\ tun \in Seq(Packet)
      /\ s' = x /\ Deliver(out) /\ tun' = Tail(tun)
  BY DEF TypeOK, UpInv, Handles
<1>2. /\ AppOK(app') /\ app' \in AppEnd /\ Extends(app, app')
      /\ app'.st = "closed" <=> app.st = "closed"
  BY <1>1, DeliverOK
<1>3. app'.st # "closed"
  BY <1>2 DEF UpInv
<1>4. ASSUME NEW i \in 1 .. Len(tun') PROVE PacketOK(app', tun'[i])
  <2>1. /\ Len(tun) \in Nat /\ Len(tun') = Len(tun) - 1
        /\ \A j \in 1 .. Len(tun) - 1 : tun'[j] = tun[j + 1]
    BY <1>1, HeadTailProperties, LenProperties
  <2>2. i + 1 \in 1 .. Len(tun) /\ i \in 1 .. Len(tun) - 1
    BY <2>1
  <2>3. tun[i + 1] \in Packet /\ PacketOK(app, tun[i + 1])
    BY <1>1, <2>2, ElementOfSeq DEF UpInv
  <2> QED
    BY <1>1, <1>2, <2>1, <2>2, <2>3, PacketCarried
<1>5. SessionOK(app', s', taken')
  BY <1>1, <1>2, SessionCarried
<1> QED
  BY <1>2, <1>3, <1>4, <1>5 DEF UpInv

\* The next packet of the app.
LEMMA HeadOK ==
  ASSUME TypeOK, UpInv, tun # <<>>
  PROVE  Head(tun) \in Packet /\ PacketOK(app, Head(tun))
<1>1. tun \in Seq(Packet) /\ Len(tun) \in Nat /\ Len(tun) # 0
  BY LenProperties, EmptySeq DEF TypeOK
<1>2. Head(tun) \in Packet /\ Head(tun) = tun[1] /\ 1 \in 1 .. Len(tun)
  BY <1>1, HeadTailProperties
<1> QED
  BY <1>2 DEF UpInv

\* tcp.c:468-560: a packet that is taken in changes the queue only, and only
\* where the session still waits for data.
LEMMA AbsorbedShape ==
  ASSUME s \in Session, NEW p \in Packet
  PROVE  /\ Absorbed(p) \in Session /\ Absorbed(p).state = s.state
         /\ Absorbed(p).remote_start = s.remote_start
         /\ Absorbed(p).remote_seq = s.remote_seq
         /\ Absorbed(p).forward = IF p.len = 0 THEN s.forward ELSE queue_tcp(s, p)
<1>1. Heard(p) \in Session /\ Absorbed(p) \in Session
  BY AbsorbedType
<1>2. /\ Heard(p).state = s.state /\ Heard(p).remote_start = s.remote_start
      /\ Heard(p).remote_seq = s.remote_seq /\ Heard(p).forward = s.forward
  BY DEF Heard, Session
<1>3. \A q : \A x \in Session :
        LET y == [x EXCEPT !.forward = q]
        IN  /\ y.state = x.state /\ y.remote_start = x.remote_start
            /\ y.remote_seq = x.remote_seq /\ y.forward = q
  BY DEF Session
<1> QED
  BY <1>1, <1>2, <1>3 DEF Absorbed

LEMMA HeardOK ==
  ASSUME NEW a \in AppEnd, s \in Session, taken \in History, NEW p \in Packet,
         SessionOK(a, s, taken), s.state # "NONE"
  PROVE  Heard(p) \in Session /\ Heard(p).state = s.state /\ SessionOK(a, Heard(p), taken)
<1>1. /\ Heard(p) \in Session /\ Heard(p).state = s.state
      /\ Heard(p).remote_start = s.remote_start
      /\ Heard(p).remote_seq = s.remote_seq /\ Heard(p).forward = s.forward
  BY AbsorbedType DEF Heard, Session
<1> QED
  BY <1>1, SessionSame

LEMMA AbsorbedOK ==
  ASSUME NEW a \in AppEnd, s \in Session, taken \in History, NEW p \in Packet,
         SessionOK(a, s, taken), PacketOK(a, p), SocketMatchesState, Takes(p),
         Opened(a) => s.state # "LISTEN"
  PROVE  SessionOK(a, Absorbed(p), taken)
<1> DEFINE y == Absorbed(p)
<1>1. s.state # "NONE"
  BY DEF Takes, Live
<1>2. /\ y \in Session /\ y.state = s.state
      /\ y.remote_start = s.remote_start /\ y.remote_seq = s.remote_seq
      /\ y.forward = IF p.len = 0 THEN s.forward ELSE queue_tcp(s, p)
  BY AbsorbedShape
<1> HIDE DEF y
<1>3. CASE p.len = 0
  BY <1>1, <1>2, <1>3, SessionSame DEF y
<1>4. CASE p.len # 0
  <2>1. s.state \in {"LISTEN", "SYN_RECV", "ESTABLISHED"}
    BY <1>4 DEF Takes, Live, SocketMatchesState, Session, States
  <2>2. p.len > 0
    BY <1>4 DEF Packet
  <2>3. QueueOK(a, s.forward, Counted(a, s, taken)) /\ Counted(a, s, taken) \in BOOLEAN
    BY <1>1 DEF SessionOK, Counted
  <2>4. QueueOK(a, y.forward, Counted(a, y, taken))
    <3>1. QueueOK(a, y.forward, Counted(a, s, taken))
      BY <1>2, <1>4, <2>2, <2>3, QueueStaysOK
    <3>2. Counted(a, y, taken) = Counted(a, s, taken)
      BY <1>2, Zenon DEF Counted
    <3> QED
      BY <3>1, <3>2, Zenon
  <2>5. CountOK(a, s, Offset(a, s.remote_seq), taken.next)
    BY <1>1 DEF SessionOK
  <2>6. Offset(a, s.remote_seq) # taken.next + 1
    <3>1. taken.next \in Nat
      BY DEF History
    <3> QED
      BY <2>1, <2>5, <3>1 DEF CountOK
  <2> DEFINE k == Offset(a, s.remote_seq)
  <2>10. k = taken.next - 1 =>
           \A i \in 1 .. Len(y.forward) :
             i = 1 /\ y.forward[i].seq = a.iss /\ y.forward[i].sent = k
    <3> SUFFICES ASSUME k = taken.next - 1
                 PROVE  \A i \in 1 .. Len(y.forward) :
                          i = 1 /\ y.forward[i].seq = a.iss /\ y.forward[i].sent = k
      OBVIOUS
    <3>1. taken.next \in Nat /\ taken.next # taken.next - 1
      BY DEF History
    <3>2. s.state = "LISTEN" /\ k = 0
      BY <2>1, <2>5, <3>1 DEF CountOK
    <3>3. s.remote_seq = a.iss
      BY <3>2, OffsetZero DEF Session
    <3>4. p.seq = a.iss
      BY <2>2, <3>2 DEF PacketOK
    <3>5. \A i \in 1 .. Len(s.forward) :
            i = 1 /\ s.forward[i].seq = a.iss /\ s.forward[i].sent = 0
      BY <2>5, <3>2 DEF CountOK
    <3> HIDE DEF k
    <3> QED
      BY <1>2, <1>4, <3>2, <3>3, <3>4, <3>5, QueueOfSyn
  <2>7. CountOK(a, y, k, taken.next)
    BY <1>2, <2>1, <2>5, <2>6, <2>10 DEF CountOK
  <2>8. CountOK(a, y, Offset(a, y.remote_seq), taken.next)
    BY <1>2, <2>7, Zenon
  <2>9. a.st # "closed" /\ y.remote_start = a.iss /\ taken.inOrder
    BY <1>1, <1>2 DEF SessionOK
  <2> HIDE DEF k
  <2> QED
    BY <2>4, <2>8, <2>9 DEF SessionOK, y
<1> QED
  BY <1>3, <1>4

\* tcp.c:713-745: the FIN is counted when nothing of the stream is queued.
LEMMA FinCounted ==
  ASSUME StreamFits, NEW a \in AppEnd, AppOK(a), NEW x \in Session,
         NEW h \in History, SessionOK(a, x, h), a.nxt = AppBytes + 2,
         x.state \in {"ESTABLISHED", "FIN_WAIT1"}, x.forward = <<>>,
         NEW y \in Session, y.remote_start = x.remote_start,
         y.remote_seq = SeqAdd(x.remote_seq, 1), y.forward = x.forward,
         y.state \in {"CLOSING", "CLOSE", "CLOSE_WAIT"}
  PROVE  SessionOK(a, y, h)
<1>1. CountOK(a, x, Offset(a, x.remote_seq), h.next)
  BY DEF SessionOK
<1>2. h.next \in Nat /\ a.nxt \in Nat /\ AppBytes \in Nat
  BY TcpAssumption DEF History, AppEnd
<1>3. Offset(a, x.remote_seq) = h.next /\ h.next <= AppBytes + 1
  BY <1>1 DEF CountOK
<1>4. Offset(a, y.remote_seq) = h.next + 1
  <2>1. Offset(a, x.remote_seq) < AppBytes + 2
    BY <1>2, <1>3
  <2> QED
    BY <1>3, <2>1, OffsetOfSession
<1>5. CountOK(a, y, h.next + 1, h.next)
  <2>1. h.next + 1 # h.next - 1 /\ h.next + 1 <= a.nxt
    BY <1>2, <1>3
  <2> QED
    BY <1>1, <2>1 DEF CountOK
<1>6. CountOK(a, y, Offset(a, y.remote_seq), h.next)
  BY <1>4, <1>5, Zenon
<1>7. QueueOK(a, y.forward, Counted(a, y, h))
  <2>1. Len(y.forward) = 0
    OBVIOUS
  <2> QED
    BY <2>1 DEF QueueOK
<1> QED
  BY <1>6, <1>7 DEF SessionOK

\* tcp.c:468-821: every way a packet of the app is taken.
LEMMA HandleTcpUp ==
  ASSUME StreamFits, TypeOK, SocketMatchesState, ResetInv, UpInv, handle_tcp
  PROVE  UpInv'
<1> DEFINE p == Head(tun)
<1>1. /\ tun # <<>> /\ p \in Packet /\ PacketOK(app, p)
      /\ s \in Session /\ app \in AppEnd /\ taken \in History
      /\ AppOK(app) /\ SessionOK(app, s, taken) /\ app.st # "closed"
  BY HeadOK DEF handle_tcp, TypeOK, UpInv
<1>2. <<>> \in Seq(Reply) /\ RepliesOK(<<>>)
  BY NoReply
<1>3. ASSUME s.state # "NONE"
      PROVE  \A ok \in Results : /\ Out(ok, RstPacket(s)) \in Seq(Reply)
                                 /\ RepliesOK(Out(ok, RstPacket(s)))
  <2>1. RstPacket(s) \in Reply /\ ReplyOK(app, RstPacket(s))
    BY <1>1, <1>3, RstPacketType, RstPacketOK
  <2> QED
    BY <2>1, ResultsType, OutType, OneReply
<1> HIDE DEF p
<1>4. CASE NewSession(p)
  <2>1. CASE Handles(NoSession, <<>>) /\ UNCHANGED <<remote, taken>>
    <3>1. NoSession \in Session /\ SessionOK(app, NoSession, taken')
      BY <1>1, <2>1, NoSessionType DEF SessionOK, NoSession
    <3> QED
      BY <1>1, <1>2, <2>1, <3>1, HandlesOK
  <2>2. ASSUME NEW isn \in LocalISNs, NEW window \in BOOLEAN, NEW added \in BOOLEAN,
               Handles([state |-> "LISTEN", socket |-> TRUE, watched |-> added,
                        events |-> {"OUT", "ERR"},
                        remote_seq |-> p.seq, remote_start |-> p.seq,
                        local_seq |-> isn, local_start |-> isn, acked |-> 0,
                        send_window |-> p.window, recv_window |-> window,
                        forward |-> IF p.len = 0 THEN <<>>
                                    ELSE <<[seq |-> p.seq, len |-> p.len,
                                            sent |-> 0, data |-> p.data]>>], <<>>),
               taken' = [next |-> 1, inOrder |-> TRUE, givenUp |-> FALSE],
               "SYN" \in p.flags
        PROVE  UpInv'
    <3> DEFINE first == [seq |-> p.seq, len |-> p.len, sent |-> 0, data |-> p.data]
               queue == IF p.len = 0 THEN <<>> ELSE <<first>>
               x == [state |-> "LISTEN", socket |-> TRUE, watched |-> added,
                     events |-> {"OUT", "ERR"},
                     remote_seq |-> p.seq, remote_start |-> p.seq,
                     local_seq |-> isn, local_start |-> isn, acked |-> 0,
                     send_window |-> p.window, recv_window |-> window, forward |-> queue]
    <3>1. /\ p.seq = app.iss /\ p.seq \in SeqNums /\ p.window \in Nat
          /\ p.len \in Nat /\ p.data \in Nat
          /\ p.len # 0 => PieceOK(app, p.seq, p.data, p.len)
      BY <1>1, <2>2 DEF PacketOK, Packet
    <3>2. Handles(x, <<>>)
      BY <2>2
    <3>3. /\ queue \in Seq(Segment)
          /\ \A i \in 1 .. Len(queue) : i = 1 /\ p.len # 0 /\ queue[i] = first
      <4>1. first \in Segment
        BY <3>1 DEF Segment
      <4> HIDE DEF first
      <4>2. /\ <<first>> \in Seq(Segment) /\ Len(<<first>>) = 1 /\ <<first>>[1] = first
            /\ <<>> \in Seq(Segment) /\ Len(<<>>) = 0
        BY <4>1
      <4> QED
        BY <4>2
    <3>4. \A i \in 1 .. Len(queue) : /\ queue[i].seq = app.iss /\ queue[i].sent = 0
                                     /\ SegmentOK(app, queue[i], FALSE)
      <4>1. p.len # 0 => SegmentOK(app, first, FALSE)
        BY <3>1 DEF SegmentOK
      <4>2. first.seq = app.iss /\ first.sent = 0
        BY <3>1
      <4> HIDE DEF first, queue
      <4> QED
        BY <3>3, <4>1, <4>2
    <3> HIDE DEF queue
    <3>5. x \in Session
      <4>1. isn \in SeqNums /\ 0 \in SeqNums
        BY TcpAssumption, SeqNumsAreNat
      <4> QED
        BY <3>1, <3>3, <4>1 DEF Session, States, Events
    <3>6. /\ x.state = "LISTEN" /\ x.remote_start = app.iss /\ x.remote_seq = app.iss
          /\ x.forward = queue
      BY <3>1
    <3> HIDE DEF x
    <3>7. taken' \in History /\ taken'.next = 1 /\ taken'.inOrder
      BY <2>2 DEF History
    <3>8. Offset(app, x.remote_seq) = 0
      BY <1>1, <3>1, <3>6, OffsetZero
    <3>9. CountOK(app, x, 0, 1)
      <4>1. app.nxt >= 1 /\ app.nxt \in Nat /\ AppBytes \in Nat
        BY <1>1, TcpAssumption DEF AppOK, AppEnd
      <4>2. ASSUME NEW i \in 1 .. Len(x.forward)
            PROVE  i = 1 /\ x.forward[i].seq = app.iss /\ x.forward[i].sent = 0
        BY <3>3, <3>4, <3>6
      <4> QED
        BY <3>6, <4>1, <4>2 DEF CountOK
    <3>10. QueueOK(app, x.forward, Counted(app, x, taken'))
      <4>1. Counted(app, x, taken') = FALSE
        BY <3>7, <3>8 DEF Counted
      <4> QED
        BY <3>4, <3>6, <4>1 DEF QueueOK
    <3>11. CountOK(app, x, Offset(app, x.remote_seq), taken'.next)
      BY <3>7, <3>8, <3>9, Zenon
    <3>12. SessionOK(app, x, taken')
      BY <1>1, <3>6, <3>7, <3>10, <3>11 DEF SessionOK
    <3> QED
      BY <1>1, <1>2, <3>2, <3>5, <3>7, <3>12, HandlesOK
  <2> QED
    BY <1>4, <2>1, <2>2 DEF NewSession
<1>5. CASE UnknownSession(p)
  <2> DEFINE rst == [flags |-> {"RST"}, len |-> 0, seq |-> p.ack_seq, ack_seq |-> 0]
  <2>1. PICK ok \in Results : Handles(s, Out(ok, rst))
    BY <1>5 DEF UnknownSession
  <2>2. rst \in Reply /\ ReplyOK(app, rst)
    BY <1>1, SeqNumsAreNat DEF Reply, Flags, Packet, ReplyOK
  <2> HIDE DEF rst
  <2>3. Out(ok, rst) \in Seq(Reply) /\ RepliesOK(Out(ok, rst))
    BY <2>2, ResultsType, OutType, OneReply
  <2>4. taken' = taken
    BY <1>5 DEF UnknownSession
  <2> QED
    BY <1>1, <2>1, <2>3, <2>4, HandlesOK
<1>6. CASE WasClosed(p)
  <2>1. PICK ok \in Results : Handles(write_rst(s), Out(ok, RstPacket(s)))
    BY <1>6 DEF WasClosed
  <2>2. s.state # "NONE" /\ taken' = taken
    BY <1>6 DEF WasClosed
  <2>3. write_rst(s) \in Session /\ SessionOK(app, write_rst(s), taken')
    BY <1>1, <2>2, WriteRstType, WriteRstOK
  <2> QED
    BY <1>1, <1>3, <2>1, <2>2, <2>3, HandlesOK
<1>7. CASE DataAfterClose(p)
  <2>1. PICK ok \in Results : Handles(write_rst(Heard(p)), Out(ok, RstPacket(s)))
    BY <1>7 DEF DataAfterClose
  <2>2. s.state # "NONE" /\ taken' = taken
    BY <1>7 DEF DataAfterClose, Live
  <2>3. /\ Heard(p) \in Session /\ Heard(p).state # "NONE"
        /\ SessionOK(app, Heard(p), taken')
    BY <1>1, <2>2, HeardOK
  <2>4. write_rst(Heard(p)) \in Session /\ SessionOK(app, write_rst(Heard(p)), taken')
    BY <1>1, <2>2, <2>3, WriteRstType, WriteRstOK
  <2> QED
    BY <1>1, <1>3, <2>1, <2>2, <2>4, HandlesOK
<1> DEFINE y == Absorbed(p)
<1>8. ASSUME Takes(p)
      PROVE  /\ y \in Session /\ SessionOK(app, y, taken) /\ taken' = taken
             /\ y.state = s.state /\ s.state # "NONE"
  BY <1>1, <1>8, AbsorbedShape, AbsorbedOK DEF Takes, Live, ResetInv
<1>9. CASE ReceivedReset(p)
  <2> DEFINE x == [y EXCEPT !.state = "CLOSING"]
  <2>1. Takes(p) /\ Handles(x, <<>>)
    BY <1>9 DEF ReceivedReset
  <2> HIDE DEF y
  <2>2. /\ x \in Session /\ x.remote_start = y.remote_start
        /\ x.remote_seq = y.remote_seq /\ x.forward = y.forward /\ x.state = "CLOSING"
    BY <1>8, <2>1 DEF Session, States
  <2> HIDE DEF x
  <2>3. SessionOK(app, x, taken')
    BY <1>1, <1>8, <2>1, <2>2, SessionSame
  <2> QED
    BY <1>1, <1>2, <1>8, <2>1, <2>2, <2>3, HandlesOK
<1>10. CASE RepeatedSyn(p) \/ FinIgnored(p)
  <2>1. Takes(p) /\ Handles(y, <<>>)
    BY <1>10 DEF RepeatedSyn, FinIgnored
  <2> HIDE DEF y
  <2> QED
    BY <1>1, <1>2, <1>8, <2>1, HandlesOK
<1>11. CASE FinBehindQueue(p)
  <2> DEFINE x == [y EXCEPT !.state = "CLOSE_WAIT"]
  <2>1. /\ Takes(p) /\ Handles(x, <<>>) /\ s.state = "ESTABLISHED" /\ y.forward # <<>>
        /\ "FIN" \in p.flags
    BY <1>11 DEF FinBehindQueue, IsFin
  <2> HIDE DEF y
  <2>2. /\ x \in Session /\ x.remote_start = y.remote_start
        /\ x.remote_seq = y.remote_seq /\ x.forward = y.forward /\ x.state = "CLOSE_WAIT"
    BY <1>8, <2>1 DEF Session, States
  <2> HIDE DEF x
  <2>3. CountOK(app, y, Offset(app, y.remote_seq), taken.next)
    BY <1>8, <2>1 DEF SessionOK
  <2>4. app.nxt = AppBytes + 2
    BY <1>1, <2>1 DEF PacketOK
  <2>5. CountOK(app, x, Offset(app, y.remote_seq), taken.next)
    <3>1. taken.next \in Nat /\ taken.next + 0 = taken.next
      BY <1>1 DEF History
    <3> QED
      BY <1>8, <2>1, <2>2, <2>3, <2>4, <3>1 DEF CountOK
  <2>6. CountOK(app, x, Offset(app, x.remote_seq), taken.next)
    BY <2>2, <2>5, Zenon
  <2>7. /\ app.st # "closed" /\ x.remote_start = app.iss
        /\ QueueOK(app, x.forward, Counted(app, x, taken)) /\ taken.inOrder
    <3>1. Counted(app, x, taken) = Counted(app, y, taken)
      BY <2>2, Zenon DEF Counted
    <3> QED
      BY <1>8, <2>1, <2>2, <3>1 DEF SessionOK
  <2>8. SessionOK(app, x, taken')
    BY <1>8, <2>1, <2>6, <2>7 DEF SessionOK
  <2> QED
    BY <1>1, <1>2, <1>8, <2>1, <2>2, <2>8, HandlesOK
<1>12. CASE FinConfirmed(p)
  <2> DEFINE z  == [y EXCEPT !.remote_seq = SeqAdd(@, 1)]
             st == IF s.state = "ESTABLISHED" THEN "CLOSE_WAIT" ELSE "CLOSE"
             x(ok) == [z EXCEPT !.state = IF ok THEN st ELSE "CLOSING"]
             packet == write_tcp(z, {"ACK"}, 0)
  <2>1. /\ Takes(p) /\ "FIN" \in p.flags /\ s.state \in {"ESTABLISHED", "FIN_WAIT1"}
        /\ s.state = "ESTABLISHED" => y.forward = <<>>
        /\ \E ok \in Results : Handles(x(ok), Out(ok, packet))
    BY <1>12 DEF FinConfirmed, IsFin
  <2>2. PICK ok \in Results : Handles(x(ok), Out(ok, packet))
    BY <2>1
  <2> HIDE DEF y
  <2>3. /\ z \in Session /\ z.remote_start = y.remote_start /\ z.state = y.state
        /\ z.remote_seq = SeqAdd(y.remote_seq, 1) /\ z.forward = y.forward
    BY <1>8, <2>1, NextSeqNumType DEF Session
  <2> HIDE DEF z
  <2>4. /\ x(ok) \in Session /\ x(ok).remote_start = y.remote_start
        /\ x(ok).remote_seq = SeqAdd(y.remote_seq, 1) /\ x(ok).forward = y.forward
        /\ x(ok).state \in {"CLOSING", "CLOSE", "CLOSE_WAIT"}
    BY <2>3 DEF Session, States
  <2> HIDE DEF x
  <2>5. y.forward = <<>>
    <3>1. CountOK(app, y, Offset(app, y.remote_seq), taken.next)
      BY <1>8, <2>1 DEF SessionOK
    <3> QED
      BY <1>8, <2>1, <3>1 DEF CountOK
  <2>6. app.nxt = AppBytes + 2
    BY <1>1, <2>1 DEF PacketOK
  <2>7. SessionOK(app, x(ok), taken') /\ x(ok).state # "NONE"
    BY <1>1, <1>8, <2>1, <2>4, <2>5, <2>6, FinCounted
  <2>8. packet \in Reply /\ ReplyOK(app, packet)
    <3>1. {"ACK"} \in SUBSET Flags /\ "SYN" \notin {"ACK"} /\ 0 \in Nat
      BY DEF Flags
    <3>2. packet.ack_seq = x(ok).remote_seq /\ packet.flags = {"ACK"}
      BY <2>3, <2>4 DEF write_tcp
    <3>3. packet \in Reply
      BY <2>3, <3>1, WriteType
    <3>4. ReplyOK(app, write_tcp(x(ok), {"ACK"}, 0))
      BY <1>1, <1>8, <2>1, <2>4, <2>7, <3>1, WriteOK
    <3>5. write_tcp(x(ok), {"ACK"}, 0).ack_seq = x(ok).remote_seq
          /\ write_tcp(x(ok), {"ACK"}, 0).flags = {"ACK"}
      BY DEF write_tcp
    <3> HIDE DEF packet
    <3> QED
      BY <3>2, <3>3, <3>4, <3>5 DEF ReplyOK
  <2> HIDE DEF packet
  <2>9. Out(ok, packet) \in Seq(Reply) /\ RepliesOK(Out(ok, packet))
    BY <2>8, ResultsType, OutType, OneReply
  <2> QED
    BY <1>1, <1>8, <2>1, <2>2, <2>4, <2>7, <2>9, HandlesOK
<1>13. CASE AckAll(p)
  <2> DEFINE x == [y EXCEPT !.acked = p.ack_seq,
                            !.state = CASE @ = "SYN_RECV" -> "ESTABLISHED"
                                        [] @ = "LAST_ACK" -> "CLOSING"
                                        [] OTHER -> @]
  <2>1. Takes(p) /\ Handles(x, <<>>)
    BY <1>13 DEF AckAll
  <2> HIDE DEF y
  <2>2. /\ x \in Session /\ x.remote_start = y.remote_start
        /\ x.remote_seq = y.remote_seq /\ x.forward = y.forward
        /\ \/ x.state \in {y.state, "CLOSING"}
           \/ y.state = "SYN_RECV" /\ x.state = "ESTABLISHED"
    <3>1. p.ack_seq \in SeqNums
      BY <1>1 DEF Packet
    <3> QED
      BY <1>8, <2>1, <3>1 DEF Session, States
  <2> HIDE DEF x
  <2>3. SessionOK(app, x, taken')
    <3>1. CASE x.state \in {y.state, "CLOSING"}
      BY <1>1, <1>8, <2>1, <2>2, <3>1, SessionSame
    <3>2. CASE y.state = "SYN_RECV" /\ x.state = "ESTABLISHED"
      <4>1. CountOK(app, y, Offset(app, y.remote_seq), taken.next)
        BY <1>8, <2>1 DEF SessionOK
      <4>2. CountOK(app, x, Offset(app, y.remote_seq), taken.next)
        BY <2>2, <3>2, <4>1 DEF CountOK
      <4>3. CountOK(app, x, Offset(app, x.remote_seq), taken.next)
        BY <2>2, <4>2, Zenon
      <4>4. /\ app.st # "closed" /\ x.remote_start = app.iss
            /\ QueueOK(app, x.forward, Counted(app, x, taken)) /\ taken.inOrder
        <5>1. Counted(app, x, taken) = Counted(app, y, taken)
          BY <2>2, Zenon DEF Counted
        <5> QED
          BY <1>8, <2>1, <2>2, <5>1 DEF SessionOK
      <4> QED
        BY <1>8, <2>1, <4>3, <4>4 DEF SessionOK
    <3> QED
      BY <2>2, <3>1, <3>2
  <2> QED
    BY <1>1, <1>2, <1>8, <2>1, <2>2, <2>3, HandlesOK
<1>14. CASE AckOther(p)
  <2> DEFINE x == [y EXCEPT !.acked = p.ack_seq]
  <2>1. PICK ok \in Results :
          \/ Handles(x, <<>>)
          \/ Handles(write_rst(y), Out(ok, RstPacket(s)))
          \/ Handles(y, <<>>)
    BY <1>14 DEF AckOther
  <2>2. Takes(p)
    BY <1>14 DEF AckOther
  <2> HIDE DEF y
  <2>3. /\ x \in Session /\ x.remote_start = y.remote_start /\ x.state = y.state
        /\ x.remote_seq = y.remote_seq /\ x.forward = y.forward
    <3>1. p.ack_seq \in SeqNums
      BY <1>1 DEF Packet
    <3> QED
      BY <1>8, <2>2, <3>1 DEF Session
  <2> HIDE DEF x
  <2>4. SessionOK(app, x, taken')
    BY <1>1, <1>8, <2>2, <2>3, SessionSame
  <2>5. write_rst(y) \in Session /\ SessionOK(app, write_rst(y), taken')
    BY <1>1, <1>8, <2>2, WriteRstType, WriteRstOK
  <2> QED
    BY <1>1, <1>2, <1>3, <1>8, <2>1, <2>2, <2>3, <2>4, <2>5, HandlesOK
<1> QED
  BY <1>4, <1>5, <1>6, <1>7, <1>9, <1>10, <1>11, <1>12, <1>13, <1>14
  DEF handle_tcp, p

-----------------------------------------------------------------------------
(* check_tcp_socket                                                        *)

\* Where a segment begins by its number: at its data, or one before it.
Begin(a, g) == IF g.seq = a.iss THEN 0 ELSE g.data

\* The numbers in and behind a segment, as offsets.
LEMMA OffsetsOfSegment ==
  ASSUME StreamFits, NEW a \in AppEnd, NEW g \in Segment, NEW c \in BOOLEAN,
         SegmentOK(a, g, c)
  PROVE  /\ Offset(a, NextSeq(g)) = Begin(a, g) + g.sent
         /\ Offset(a, LastSeq(g)) = Begin(a, g) + g.len
         /\ \A m \in Nat : g.sent + m <= g.len
              => Offset(a, SeqAdd(g.seq, g.sent + m)) = Begin(a, g) + g.sent + m
         /\ Begin(a, g) \in Nat
         /\ IF g.seq = a.iss THEN Begin(a, g) = 0 /\ g.data = 1 ELSE Begin(a, g) = g.data
<1> DEFINE d == Begin(a, g)
<1>1. g.data \in Nat /\ g.len \in Nat /\ g.sent \in Nat /\ g.seq \in SeqNums
  BY DEF Segment
<1>2. /\ g.sent < g.len /\ g.data + g.len <= AppBytes + 1 /\ g.data >= 1
      /\ IF g.seq = a.iss THEN g.data = 1 ELSE g.seq = SeqAdd(a.iss, g.data)
  BY DEF SegmentOK, PieceOK
<1>3. AppBytes \in Nat /\ AppBytes + 2 < Mod /\ Mod \in Nat
  BY TcpAssumption, HalfAssumption DEF StreamFits, Mod
<1>4. /\ Offset(a, g.seq) = d /\ d \in Nat /\ d <= g.data
      /\ IF g.seq = a.iss THEN d = 0 ELSE d = g.data
  <2>1. g.data < Mod
    BY <1>1, <1>2, <1>3
  <2>2. CASE g.seq = a.iss
    BY <1>1, <2>2, OffsetZero DEF Begin
  <2>3. CASE g.seq # a.iss
    BY <1>1, <1>2, <2>1, <2>3, OffsetOfNumber DEF Begin
  <2> QED
    BY <2>2, <2>3
<1> HIDE DEF d
<1>5. ASSUME NEW m \in Nat, m <= g.len
      PROVE  Offset(a, SeqAdd(g.seq, m)) = d + m
  <2>1. Offset(a, g.seq) + m < Mod
    BY <1>1, <1>2, <1>3, <1>4, <1>5
  <2>2. Offset(a, SeqAdd(g.seq, m)) = Offset(a, g.seq) + m
    BY <1>1, <2>1, OffsetAdd
  <2> QED
    BY <1>4, <2>2
<1>6. Offset(a, NextSeq(g)) = d + g.sent
  BY <1>1, <1>2, <1>5 DEF NextSeq
<1>7. Offset(a, LastSeq(g)) = d + g.len
  BY <1>1, <1>5 DEF LastSeq
<1>8. ASSUME NEW m \in Nat, g.sent + m <= g.len
      PROVE  Offset(a, SeqAdd(g.seq, g.sent + m)) = d + g.sent + m
  <2>1. g.sent + m \in Nat
    BY <1>1
  <2>2. Offset(a, SeqAdd(g.seq, g.sent + m)) = d + (g.sent + m)
    BY <1>5, <1>8, <2>1
  <2>3. d + (g.sent + m) = d + g.sent + m
    BY <1>1, <1>4
  <2> QED
    BY <2>2, <2>3
<1> QED
  BY <1>2, <1>4, <1>6, <1>7, <1>8 DEF d

\* What is left of the queue once n segments and part of the next have gone.
QueueLeft(q, n) == SubSeq(q, n + 1, Len(q))
QueueRest(q, n, part) ==
  IF part = 0 THEN QueueLeft(q, n) ELSE [QueueLeft(q, n) EXCEPT ![1].sent = @ + part]

LEMMA RestOfQueue ==
  ASSUME NEW a \in AppEnd, NEW q \in Seq(Segment), NEW c \in BOOLEAN, QueueOK(a, q, c),
         NEW n \in 0 .. Len(q), NEW part \in Nat,
         part > 0 => /\ n < Len(q) /\ part < Rest(q[n + 1])
                     /\ c => q[n + 1].seq # a.iss
  PROVE  /\ QueueOK(a, QueueRest(q, n, part), c) /\ Len(QueueLeft(q, n)) = Len(q) - n
         /\ part > 0 => /\ Len(QueueRest(q, n, part)) = Len(q) - n
                        /\ QueueRest(q, n, part)[1].seq = q[n + 1].seq
                        /\ QueueRest(q, n, part)[1].sent = q[n + 1].sent + part
         /\ n = 0 => QueueLeft(q, n) = q
<1> DEFINE left == QueueLeft(q, n)
           rest == QueueRest(q, n, part)
           g    == [left[1] EXCEPT !.sent = @ + part]
           over == [left EXCEPT ![1].sent = @ + part]
<1>1. Len(q) \in Nat /\ n \in Nat /\ n <= Len(q)
  BY LenProperties
<1>2. \A i \in 1 .. Len(q) : q[i] \in Segment /\ SegmentOK(a, q[i], c)
  BY ElementOfSeq DEF QueueOK
<1>3. /\ left \in Seq(Segment) /\ Len(left) = Len(q) - n
      /\ \A i \in 1 .. Len(q) - n : left[i] = q[n + i]
  <2>1. \A i \in n + 1 .. Len(q) : q[i] \in Segment
    BY <1>1, <1>2
  <2>2. n + 1 \in Int /\ Len(q) \in Int
    BY <1>1
  <2>3. /\ left \in Seq(Segment)
        /\ Len(left) = IF n + 1 <= Len(q) THEN Len(q) - (n + 1) + 1 ELSE 0
        /\ \A i \in 1 .. Len(q) - (n + 1) + 1 : left[i] = q[(n + 1) + i - 1]
    BY <2>1, <2>2, SubSeqProperties DEF QueueLeft
  <2>4. \A i \in 1 .. Len(q) - n : i \in 1 .. Len(q) - (n + 1) + 1 /\ (n + 1) + i - 1 = n + i
    BY <1>1
  <2>5. (IF n + 1 <= Len(q) THEN Len(q) - (n + 1) + 1 ELSE 0) = Len(q) - n
    BY <1>1
  <2> HIDE DEF left
  <2> QED
    BY <2>3, <2>4, <2>5
<1> HIDE DEF left
<1>4. \A i \in 1 .. Len(left) : left[i] \in Segment /\ SegmentOK(a, left[i], c)
  <2>1. \A i \in 1 .. Len(q) - n : n + i \in 1 .. Len(q)
    BY <1>1
  <2> QED
    BY <1>2, <1>3, <2>1
<1>5. QueueOK(a, left, c)
  BY <1>4 DEF QueueOK
<1>6. ASSUME part > 0
      PROVE  /\ QueueOK(a, over, c) /\ Len(over) = Len(q) - n
             /\ over[1].seq = q[n + 1].seq /\ over[1].sent = q[n + 1].sent + part
  <2>1. Len(left) \in Nat /\ 1 \in 1 .. Len(left) /\ left[1] = q[n + 1]
    BY <1>1, <1>3, <1>6
  <2>2. /\ left[1] \in Segment /\ SegmentOK(a, left[1], c) /\ part < Rest(left[1])
        /\ c => left[1].seq # a.iss
    BY <1>4, <1>6, <2>1
  <2>3. /\ g.seq = left[1].seq /\ g.data = left[1].data /\ g.len = left[1].len
        /\ g.sent = left[1].sent + part
    BY <2>2 DEF Segment
  <2>4. left[1].sent + part < left[1].len
    BY <2>2 DEF Segment, Rest
  <2> HIDE DEF g
  <2>5. SegmentOK(a, g, c)
    BY <2>2, <2>3, <2>4 DEF SegmentOK
  <2>6. Len(over) = Len(left) /\ \A i \in 1 .. Len(left) :
                                   over[i] = IF i = 1 THEN g ELSE left[i]
    BY <1>3 DEF g
  <2>7. over[1].seq = g.seq /\ over[1].sent = g.sent /\ Len(over) = Len(q) - n
    BY <1>3, <2>1, <2>6
  <2> HIDE DEF over
  <2>8. QueueOK(a, over, c)
    BY <1>4, <2>5, <2>6 DEF QueueOK
  <2> QED
    BY <2>1, <2>3, <2>7, <2>8
<1>7. n = 0 => left = q
  <2> SUFFICES ASSUME n = 0 PROVE left = q
    OBVIOUS
  <2>1. Len(left) = Len(q)
    BY <1>1, <1>3
  <2>2. \A i \in 1 .. Len(q) : left[i] = q[i]
    <3>1. \A i \in 1 .. Len(q) : i \in 1 .. Len(q) - n /\ n + i = i
      BY <1>1
    <3> QED
      BY <1>3, <3>1
  <2> QED
    BY <1>3, <2>1, <2>2, SeqEqual
<1> HIDE DEF over
<1>8. CASE part = 0
  <2>1. rest = left
    BY <1>8, Zenon DEF left, QueueRest
  <2>2. ~(part > 0)
    BY <1>8
  <2> HIDE DEF rest
  <2>3. /\ QueueOK(a, rest, c) /\ Len(left) = Len(q) - n
        /\ n = 0 => left = q
    BY <1>3, <1>5, <1>7, <2>1, Zenon
  <2> QED
    BY <2>2, <2>3, Zenon DEF rest, left
<1>9. CASE part > 0
  <2>1. part # 0
    BY <1>9
  <2>2. rest = over
    BY <2>1, Zenon DEF over, left, QueueRest
  <2> HIDE DEF rest, over
  <2>3. /\ QueueOK(a, rest, c) /\ Len(rest) = Len(q) - n
        /\ rest[1].seq = q[n + 1].seq /\ rest[1].sent = q[n + 1].sent + part
    BY <1>6, <1>9, <2>2, Zenon
  <2> QED
    BY <1>3, <1>7, <2>3, Zenon DEF rest, left
<1>10. part = 0 \/ part > 0
  OBVIOUS
<1> QED
  BY <1>8, <1>9, <1>10, Zenon

\* The first m segments the loop may take continue what was sent, and each
\* other.
LEMMA ForwardableOK ==
  ASSUME StreamFits, NEW a \in AppEnd, NEW x \in Session, NEW h \in History,
         SessionOK(a, x, h), x.state # "NONE",
         NEW m \in 1 .. Len(x.forward), Forwardable(x, m)
  PROVE  /\ x.forward[1].data + x.forward[1].sent = h.next
         /\ \A i \in 2 .. m :
              x.forward[i].data + x.forward[i].sent
                = x.forward[i - 1].data + x.forward[i - 1].len
         /\ IF Counted(a, x, h)
            THEN /\ Offset(a, x.remote_seq) = h.next
                 /\ \A i \in 1 .. m : x.forward[i].seq # a.iss
            ELSE Len(x.forward) = 1 /\ x.forward[1].seq = a.iss
<1> DEFINE q == x.forward
           k == Offset(a, x.remote_seq)
           c == Counted(a, x, h)
           b(i) == Begin(a, q[i])
<1>0. c \in BOOLEAN /\ (c <=> k # h.next - 1)
  BY DEF Counted
<1>1. q \in Seq(Segment) /\ Len(q) \in Nat
  BY LenProperties DEF Session
<1>2. \A i \in 1 .. Len(q) : q[i] \in Segment /\ SegmentOK(a, q[i], c)
  BY <1>1, ElementOfSeq DEF SessionOK, QueueOK
<1>3. CountOK(a, x, k, h.next)
  BY DEF SessionOK
<1> HIDE DEF q, k, c
<1>4. ASSUME NEW i \in 1 .. Len(q)
      PROVE  /\ Offset(a, NextSeq(q[i])) = b(i) + q[i].sent
             /\ Offset(a, LastSeq(q[i])) = b(i) + q[i].len
             /\ b(i) \in Nat /\ q[i].sent \in Nat /\ q[i].len \in Nat
             /\ q[i].sent < q[i].len /\ q[i].data \in Nat /\ q[i].data >= 1
             /\ IF q[i].seq = a.iss THEN b(i) = 0 /\ q[i].data = 1 /\ (c => q[i].sent = 0)
                                    ELSE b(i) = q[i].data
  <2>1. q[i] \in Segment /\ SegmentOK(a, q[i], c)
    BY <1>2
  <2>2. /\ q[i].sent \in Nat /\ q[i].len \in Nat /\ q[i].data \in Nat
        /\ q[i].sent < q[i].len /\ q[i].data >= 1
        /\ c /\ q[i].seq = a.iss => q[i].sent = 0
    BY <2>1 DEF Segment, SegmentOK, PieceOK
  <2> QED
    BY <1>0, <2>1, <2>2, OffsetsOfSegment
<1> HIDE DEF b
<1>5. /\ m \in Nat /\ 1 <= m /\ m <= Len(q) /\ 1 \in 1 .. m /\ 1 \in 1 .. Len(q)
      /\ \A i \in 2 .. m : i \in 1 .. m /\ i \in 1 .. Len(q) /\ i - 1 \in 1 .. Len(q)
                          /\ i # 1
  BY <1>1 DEF q
<1>6. b(1) + q[1].sent = k
  <2>1. NextSeq(q[1]) = x.remote_seq
    BY <1>5 DEF Forwardable, q
  <2> QED
    BY <1>4, <1>5, <2>1 DEF k
<1>7. \A i \in 2 .. m : b(i) + q[i].sent = b(i - 1) + q[i - 1].len
  <2> TAKE i \in 2 .. m
  <2>1. NextSeq(q[i]) = LastSeq(q[i - 1])
    BY <1>5 DEF Forwardable, q
  <2> QED
    BY <1>4, <1>5, <2>1
<1>8. h.next \in Nat /\ h.next >= 1 /\ k \in {h.next - 1, h.next, h.next + 1}
      /\ k # h.next + 1
  <2>1. x.forward # <<>>
    BY <1>1, <1>5, EmptySeq DEF q
  <2> QED
    BY <1>3, <2>1 DEF CountOK, History
<1>9. CASE c
  <2>1. k = h.next
    BY <1>0, <1>8, <1>9
  <2>2. q[1].seq # a.iss
    BY <1>4, <1>5, <1>6, <1>8, <1>9, <2>1
  <2>3. \A i \in 2 .. m : q[i].seq # a.iss
    <3> TAKE i \in 2 .. m
    <3>1. /\ b(i) + q[i].sent = b(i - 1) + q[i - 1].len
          /\ i \in 1 .. Len(q) /\ i - 1 \in 1 .. Len(q)
      BY <1>5, <1>7
    <3>2. b(i - 1) \in Nat /\ q[i - 1].len \in Nat /\ q[i - 1].len > 0
      <4>1. q[i - 1].sent \in Nat /\ q[i - 1].sent < q[i - 1].len
        BY <1>4, <3>1
      <4> QED
        BY <1>4, <3>1, <4>1
    <3>3. b(i - 1) + q[i - 1].len # 0
      BY <3>2
    <3> SUFFICES ASSUME q[i].seq = a.iss PROVE FALSE
      OBVIOUS
    <3>4. b(i) = 0 /\ q[i].sent = 0
      BY <1>4, <1>9, <3>1
    <3> QED
      BY <3>1, <3>3, <3>4
  <2>4. \A i \in 1 .. m : i = 1 \/ i \in 2 .. m
    BY <1>5
  <2>5. \A i \in 1 .. m : q[i].seq # a.iss /\ b(i) = q[i].data
    <3> TAKE i \in 1 .. m
    <3>1. q[i].seq # a.iss /\ i \in 1 .. Len(q)
      BY <1>5, <2>2, <2>3, <2>4
    <3> QED
      BY <1>4, <3>1
  <2>6. q[1].data + q[1].sent = h.next
    BY <1>5, <1>6, <2>1, <2>5
  <2>7. \A i \in 2 .. m : q[i].data + q[i].sent = q[i - 1].data + q[i - 1].len
    <3> TAKE i \in 2 .. m
    <3>1. i \in 1 .. m /\ i - 1 \in 1 .. m
      BY <1>5
    <3> QED
      BY <1>7, <2>5, <3>1
  <2> QED
    BY <1>9, <2>1, <2>5, <2>6, <2>7, Zenon DEF q, k, c
<1>10. CASE ~c
  <2>1. k = h.next - 1
    BY <1>0, <1>10
  <2>2. \A i \in 1 .. Len(q) : i = 1 /\ q[i].seq = a.iss
    BY <1>3, <2>1 DEF CountOK, q
  <2>3. Len(q) = 1 /\ m = 1
    <3>1. Len(q) \in 1 .. Len(q)
      BY <1>1, <1>5
    <3>2. Len(q) = 1
      BY <2>2, <3>1
    <3> QED
      BY <1>5, <3>2
  <2>4. q[1].seq = a.iss /\ b(1) = 0 /\ q[1].data = 1 /\ q[1].sent \in Nat
    BY <1>4, <1>5, <2>2
  <2>5. q[1].data + q[1].sent = h.next
    BY <1>6, <1>8, <2>1, <2>4
  <2>6. \A i \in 2 .. m : q[i].data + q[i].sent = q[i - 1].data + q[i - 1].len
    BY <2>3
  <2> QED
    BY <1>10, <2>3, <2>4, <2>5, <2>6, Zenon DEF q, k, c
<1> QED
  BY <1>9, <1>10

\* tcp.c:261-347: what the loop forwards continues the stream, and remote_seq
\* counts it; the FIN with it when the queue has run empty behind it.
LEMMA ForwardOK ==
  ASSUME StreamFits, NEW a \in AppEnd, AppOK(a), NEW x \in Session, NEW h \in History,
         SessionOK(a, x, h), x.state \notin {"NONE", "LISTEN"},
         NEW n \in 0 .. Len(x.forward), NEW part \in Nat, Forwardable(x, n),
         part > 0 => /\ n < Len(x.forward) /\ Forwardable(x, n + 1)
                     /\ part < Rest(x.forward[n + 1]),
         NEW lost \in BOOLEAN, NEW window \in BOOLEAN
  PROVE  SessionOK(a, AckForwarded(Forward(x, n, part), n > 0 \/ part > 0, window),
                   Taken(h, x, n, part, lost))
<1> DEFINE q    == x.forward
           m    == IF part = 0 THEN n ELSE n + 1
           left == SubSeq(q, n + 1, Len(q))
           rest == IF part = 0 THEN left ELSE [left EXCEPT ![1].sent = @ + part]
           f    == Forward(x, n, part)
           sent == n > 0 \/ part > 0
           y    == AckForwarded(f, sent, window)
           new  == Taken(h, x, n, part, lost)
           to   == q[m].data + (IF m <= n THEN q[m].len ELSE q[m].sent + part)
           c    == Counted(a, x, h)
<1>1. q \in Seq(Segment) /\ Len(q) \in Nat /\ n \in Nat
  BY LenProperties DEF Session
<1>2. /\ c \in BOOLEAN /\ (c <=> Offset(a, x.remote_seq) # h.next - 1)
      /\ QueueOK(a, q, c)
      /\ \A i \in 1 .. Len(q) : q[i] \in Segment /\ SegmentOK(a, q[i], c)
  BY <1>1, ElementOfSeq DEF SessionOK, QueueOK, Counted
<1> HIDE DEF c
<1>3. /\ QueueOK(a, rest, c) /\ Len(left) = Len(q) - n
      /\ part > 0 => /\ Len(rest) = Len(q) - n /\ rest[1].seq = q[n + 1].seq
                     /\ rest[1].sent = q[n + 1].sent + part
      /\ n = 0 => left = q
  <2>1. part > 0 /\ c => q[n + 1].seq # a.iss
    <3> SUFFICES ASSUME part > 0, c PROVE q[n + 1].seq # a.iss
      OBVIOUS
    <3>1. n + 1 \in 1 .. Len(x.forward) /\ Forwardable(x, n + 1) /\ n + 1 \in 1 .. n + 1
      BY <1>1 DEF q
    <3> QED
      BY <3>1, ForwardableOK DEF c, q
  <2>2. n \in 0 .. Len(q) /\ (part > 0 => n < Len(q) /\ part < Rest(q[n + 1]))
    OBVIOUS
  <2>3. part > 0 => /\ n < Len(q) /\ part < Rest(q[n + 1])
                    /\ c => q[n + 1].seq # a.iss
    BY <2>1, <2>2
  <2>4. left = QueueLeft(q, n) /\ rest = QueueRest(q, n, part)
    BY Zenon DEF left, rest, QueueLeft, QueueRest
  <2> HIDE DEF q, left, rest
  <2> QED
    BY <1>1, <1>2, <2>2, <2>3, <2>4, RestOfQueue
<1>4. /\ f \in Session /\ f.state = x.state /\ f.remote_start = x.remote_start
      /\ f.forward = rest
      /\ f.remote_seq = CASE part > 0 -> SeqAdd(q[n + 1].seq, q[n + 1].sent + part)
                           [] part = 0 /\ n > 0 -> LastSeq(q[n])
                           [] OTHER -> x.remote_seq
  <2>1. f \in Session
    BY ForwardType
  <2>2. f = [x EXCEPT !.forward = rest,
                      !.remote_seq = CASE part > 0 -> SeqAdd(q[n + 1].seq, q[n + 1].sent + part)
                                       [] part = 0 /\ n > 0 -> LastSeq(q[n])
                                       [] OTHER -> x.remote_seq]
    BY DEF Forward
  <2> HIDE DEF f, rest, q
  <2> QED
    BY <2>1, <2>2 DEF Session
<1> HIDE DEF f, rest
<1>5. /\ y \in Session /\ y.state = x.state /\ y.remote_start = x.remote_start
      /\ y.forward = rest
      /\ y.remote_seq = IF sent /\ rest = <<>> /\ x.state = "CLOSE_WAIT"
                        THEN SeqAdd(f.remote_seq, 1) ELSE f.remote_seq
  BY <1>4, NextSeqNumType DEF AckForwarded, Session
<1>6. new \in History
  BY TakenType
<1> HIDE DEF q, y, new
<1>7. CASE m = 0
  <2>1. n = 0 /\ part = 0
    BY <1>1, <1>7
  <2>2. new = h
    BY <2>1 DEF Taken, new
  <2>3. rest = x.forward /\ y.remote_seq = x.remote_seq
    BY <1>3, <1>4, <1>5, <2>1 DEF rest, q
  <2>4. SessionOK(a, y, h)
    BY <1>5, <2>3, SessionSame
  <2> QED
    BY <2>2, <2>4 DEF f, y, new
<1>8. CASE m # 0
  <2>1. /\ m \in Nat /\ m >= 1 /\ m <= Len(q) /\ m \in 1 .. Len(q)
        /\ sent /\ (part > 0 => m = n + 1) /\ (part = 0 => m = n)
        /\ Forwardable(x, m)
    BY <1>1, <1>8 DEF q
  <2>2. /\ q[1].data + q[1].sent = h.next
        /\ \A i \in 2 .. m : q[i].data + q[i].sent = q[i - 1].data + q[i - 1].len
        /\ IF c THEN Offset(a, x.remote_seq) = h.next /\ \A i \in 1 .. m : q[i].seq # a.iss
                ELSE Len(q) = 1 /\ q[1].seq = a.iss
    BY <2>1, ForwardableOK DEF q, c
  <2>3. /\ q[m] \in Segment /\ SegmentOK(a, q[m], c)
        /\ q[m].data \in Nat /\ q[m].len \in Nat /\ q[m].sent \in Nat
    BY <1>2, <2>1 DEF Segment
  <2> DEFINE ahead == IF c THEN to ELSE to - 1
  <2>b. /\ Begin(a, q[m]) \in Nat
        /\ IF c THEN Begin(a, q[m]) = q[m].data
                ELSE m = 1 /\ Begin(a, q[m]) = 0 /\ q[m].data = 1
    <3>1. /\ Begin(a, q[m]) \in Nat
          /\ IF q[m].seq = a.iss THEN Begin(a, q[m]) = 0 /\ q[m].data = 1
                                 ELSE Begin(a, q[m]) = q[m].data
      BY <1>2, <2>3, OffsetsOfSegment
    <3>2. m \in 1 .. m
      BY <2>1
    <3> QED
      BY <2>1, <2>2, <3>1, <3>2
  <2>4. part > 0 => q[m].sent + part < q[m].len
    BY <2>1, <2>3 DEF Rest, q
  <2>5. h.inOrder
    BY DEF SessionOK
  <2>6. new.next = to /\ new.inOrder
    <3> DEFINE chunk(i) == Chunk(x, i, IF i <= n THEN 0 ELSE part)
    <3>1. new = [next |-> chunk(m).to,
                 inOrder |-> /\ h.inOrder
                             /\ \A i \in 1 .. m :
                                  chunk(i).from = IF i = 1 THEN h.next ELSE chunk(i - 1).to,
                 givenUp |-> h.givenUp \/ lost]
      BY <1>8, Zenon DEF Taken, new
    <3>2. chunk(m).to = to
      BY <2>1 DEF Chunk, q
    <3>3. ASSUME NEW i \in 1 .. m
          PROVE  chunk(i).from = IF i = 1 THEN h.next ELSE chunk(i - 1).to
      <4>1. chunk(i).from = q[i].data + q[i].sent
        BY DEF Chunk, q
      <4>2. CASE i = 1
        BY <2>2, <4>1, <4>2
      <4>3. CASE i # 1
        <5>1. i \in 2 .. m /\ i - 1 <= n
          BY <1>1, <2>1, <4>3
        <5>2. chunk(i - 1).to = q[i - 1].data + q[i - 1].len
          BY <5>1 DEF Chunk, q
        <5> QED
          BY <2>2, <4>1, <4>3, <5>1, <5>2
      <4> QED
        BY <4>2, <4>3
    <3> HIDE DEF chunk
    <3> QED
      BY <2>5, <3>1, <3>2, <3>3
  <2>7. /\ to \in Nat /\ to >= 1 /\ to <= AppBytes + 1 /\ to <= a.nxt
    <3>1. /\ q[m].data >= 1 /\ q[m].data + q[m].len <= AppBytes + 1
          /\ q[m].data + q[m].len <= a.nxt
      BY <2>3 DEF SegmentOK, PieceOK
    <3>2. a.nxt \in Nat /\ AppBytes \in Nat
      BY TcpAssumption DEF AppEnd
    <3>3. (m <= n /\ part = 0) \/ (~(m <= n) /\ part > 0)
      BY <1>1, <2>1
    <3>4. CASE m <= n
      <4>1. to = q[m].data + q[m].len /\ q[m].data + q[m].len >= 1
        BY <2>3, <3>1, <3>4
      <4> QED
        BY <2>3, <3>1, <4>1
    <3>5. CASE ~(m <= n)
      <4>1. to = q[m].data + (q[m].sent + part)
        BY <3>5
      <4>2. q[m].sent + part < q[m].len
        BY <2>4, <3>3, <3>5
      <4>3. \A d, l, u, v \in Nat :
              u + v < l /\ d >= 1 /\ d + l <= AppBytes + 1 /\ d + l <= a.nxt
                => /\ d + (u + v) \in Nat /\ d + (u + v) >= 1
                   /\ d + (u + v) <= AppBytes + 1 /\ d + (u + v) <= a.nxt
        BY <3>2
      <4> HIDE DEF to
      <4> QED
        BY <2>3, <3>1, <4>1, <4>2, <4>3
    <3> QED
      BY <3>4, <3>5
  <2>8. Offset(a, f.remote_seq) = ahead
    <3>1. CASE part > 0
      <4>1. ~(m <= n) /\ m = n + 1 /\ q[m].sent + part <= q[m].len
        BY <1>1, <2>1, <2>3, <2>4, <3>1
      <4>2. f.remote_seq = SeqAdd(q[m].seq, q[m].sent + part)
        BY <1>4, <3>1, <4>1
      <4>3. Offset(a, f.remote_seq) = Begin(a, q[m]) + q[m].sent + part
        BY <1>2, <2>3, <4>1, <4>2, OffsetsOfSegment
      <4>4. q[m].data + q[m].sent + part = to
        BY <2>3, <4>1
      <4>5. Begin(a, q[m]) + q[m].sent + part = ahead
        <5>1. CASE c
          BY <2>b, <4>4, <5>1
        <5>2. CASE ~c
          <6>1. Begin(a, q[m]) = 0 /\ q[m].data = 1
            BY <2>b, <5>2
          <6> HIDE DEF to
          <6> QED
            BY <2>3, <4>4, <5>2, <6>1
        <5> QED
          BY <5>1, <5>2
      <4> QED
        BY <4>3, <4>5
    <3>2. CASE part = 0
      <4>1. m = n /\ n > 0
        BY <1>1, <2>1, <3>2
      <4>2. f.remote_seq = LastSeq(q[m])
        BY <1>4, <3>2, <4>1
      <4>3. Offset(a, f.remote_seq) = Begin(a, q[m]) + q[m].len
        BY <1>2, <2>3, <4>2, OffsetsOfSegment
      <4>4. q[m].data + q[m].len = to
        BY <1>1, <4>1
      <4>5. Begin(a, q[m]) + q[m].len = ahead
        <5>1. CASE c
          BY <2>b, <4>4, <5>1
        <5>2. CASE ~c
          <6>1. Begin(a, q[m]) = 0 /\ q[m].data = 1
            BY <2>b, <5>2
          <6> HIDE DEF to
          <6> QED
            BY <2>3, <4>4, <5>2, <6>1
        <5> QED
          BY <5>1, <5>2
      <4> QED
        BY <4>3, <4>5
    <3>3. part = 0 \/ part > 0
      OBVIOUS
    <3> QED
      BY <3>1, <3>2, <3>3
  <2> HIDE DEF to, sent
  <2>9. CountOK(a, x, Offset(a, x.remote_seq), h.next)
    BY DEF SessionOK
  <2>10. h.next \in Nat /\ a.nxt \in Nat /\ AppBytes \in Nat /\ x.forward # <<>>
    <3>1. x.forward # <<>>
      BY <1>1, <2>1, EmptySeq DEF q
    <3> QED
      BY <3>1, TcpAssumption DEF History, AppEnd
  <2>11. /\ x.state \notin {"FIN_WAIT1", "LAST_ACK"}
         /\ x.state = "CLOSE_WAIT" => a.nxt = AppBytes + 2
         /\ ~c => x.state \notin {"LISTEN", "SYN_RECV", "ESTABLISHED", "CLOSE_WAIT"}
    <3>1. /\ x.state \notin {"FIN_WAIT1", "LAST_ACK"}
          /\ x.state = "CLOSE_WAIT" => a.nxt = AppBytes + 2
      BY <2>9, <2>10 DEF CountOK
    <3>2. ASSUME ~c PROVE x.state \notin {"SYN_RECV", "ESTABLISHED", "CLOSE_WAIT"}
      <4>1. Offset(a, x.remote_seq) = h.next - 1
        BY <1>2, <3>2
      <4>2. h.next - 1 # h.next /\ h.next - 1 # h.next + 1 /\ h.next + 0 = h.next
        BY <2>10
      <4> QED
        BY <2>9, <2>10, <4>1, <4>2 DEF CountOK
    <3> QED
      BY <3>1, <3>2
  <2> DEFINE fin == rest = <<>> /\ x.state = "CLOSE_WAIT"
             k   == IF fin THEN to + 1 ELSE ahead
  <2>12. Offset(a, y.remote_seq) = k
    <3>1. CASE ~fin
      BY <1>5, <2>8, <3>1
    <3>2. CASE fin
      <4>0. c /\ ahead = to
        BY <2>11, <3>2
      <4>1. y.remote_seq = SeqAdd(f.remote_seq, 1)
        BY <1>5, <2>1, <3>2
      <4>2. f.remote_seq \in SeqNums /\ 1 \in Nat
        BY <1>4 DEF Session
      <4>3. Offset(a, f.remote_seq) + 1 < Mod
        <5>1. AppBytes + 2 < Mod /\ Mod \in Nat
          BY HalfAssumption DEF StreamFits, Mod
        <5> QED
          BY <2>7, <2>8, <2>10, <4>0, <5>1
      <4> QED
        BY <2>8, <3>2, <4>0, <4>1, <4>2, <4>3, OffsetAdd
    <3> QED
      BY <3>1, <3>2
  <2>13. CountOK(a, y, k, to) /\ (c <=> k # to - 1)
    <3>1. CASE c /\ ~fin
      <4>1. k = to /\ to # to - 1 /\ to # to + 1
        BY <2>7, <3>1
      <4> HIDE DEF k, fin, ahead
      <4> QED
        BY <1>5, <2>7, <2>10, <2>11, <3>1, <4>1 DEF CountOK, fin
    <3>2. CASE c /\ fin
      <4>1. k = to + 1 /\ to + 1 # to - 1
        BY <2>7, <3>2
      <4> HIDE DEF k, fin, ahead
      <4> QED
        BY <1>5, <2>7, <2>10, <2>11, <3>2, <4>1 DEF CountOK, fin
    <3>3. CASE ~c
      <4>1. /\ k = to - 1 /\ ~fin /\ to - 1 \in Nat /\ to - 1 <= a.nxt
            /\ x.state \notin {"LISTEN", "SYN_RECV", "ESTABLISHED", "FIN_WAIT1",
                                "CLOSE_WAIT", "LAST_ACK"}
        BY <2>7, <2>10, <2>11, <3>3
      <4>2. ASSUME NEW i \in 1 .. Len(rest)
            PROVE  i = 1 /\ rest[i].seq = a.iss /\ rest[i].sent = to - 1
        <5>1. Len(q) = 1 /\ m = 1 /\ q[1].seq = a.iss /\ q[1].data = 1
          BY <2>2, <2>b, <3>3
        <5>2. CASE part = 0
          <6>1. n = 1 /\ rest = left /\ Len(left) = 0
            BY <1>3, <2>1, <5>1, <5>2 DEF rest
          <6> QED
            BY <6>1
        <5>3. CASE part > 0
          <6>1. n = 0
            BY <1>1, <2>1, <5>1, <5>3
          <6>2. Len(rest) = 1 /\ rest[1].seq = a.iss /\ rest[1].sent = q[1].sent + part
            BY <1>3, <5>1, <5>3, <6>1
          <6>3. to = 1 + (q[1].sent + part) /\ q[1].sent \in Nat
            BY <2>3, <5>1, <6>1 DEF to
          <6>4. to - 1 = q[1].sent + part
            BY <6>3
          <6> QED
            BY <6>2, <6>4
        <5> QED
          BY <5>2, <5>3
      <4> HIDE DEF k, fin, ahead
      <4> QED
        BY <1>5, <2>7, <2>10, <3>3, <4>1, <4>2 DEF CountOK
    <3> QED
      BY <3>1, <3>2, <3>3
  <2> HIDE DEF k
  <2>14. CountOK(a, y, Offset(a, y.remote_seq), new.next)
    BY <2>6, <2>12, <2>13, Zenon
  <2>15. a.st # "closed" /\ y.remote_start = a.iss
    BY <1>5 DEF SessionOK
  <2>16. QueueOK(a, y.forward, Counted(a, y, new))
    <3>1. Counted(a, y, new) = (k # to - 1)
      BY <2>6, <2>12, Zenon DEF Counted
    <3>2. Counted(a, y, new) = c
      BY <1>2, <2>13, <3>1
    <3> QED
      BY <1>3, <1>5, <3>2, Zenon
  <2>17. SessionOK(a, y, new)
    BY <2>6, <2>14, <2>15, <2>16 DEF SessionOK
  <2> QED
    BY <2>17 DEF f, y, new, sent
<1> QED
  BY <1>7, <1>8

\* What the thread leaves after a step that reads no packet of the app.
LEMMA StepOK ==
  ASSUME TypeOK, UpInv, s' \in Session, NEW out \in Seq(Reply), Deliver(out),
         RepliesOK(out), tun' = tun, taken' \in History, SessionOK(app, s', taken')
  PROVE  UpInv'
<1>1. app \in AppEnd /\ AppOK(app) /\ tun \in Seq(Packet)
  BY DEF TypeOK, UpInv
<1>2. /\ AppOK(app') /\ app' \in AppEnd /\ Extends(app, app')
      /\ app'.st = "closed" <=> app.st = "closed"
  BY <1>1, DeliverOK
<1>3. app'.st = "closed" => tun' = <<>>
  BY <1>2 DEF UpInv
<1>4. ASSUME NEW i \in 1 .. Len(tun) PROVE PacketOK(app', tun[i])
  <2>1. tun[i] \in Packet /\ PacketOK(app, tun[i])
    BY <1>1, ElementOfSeq DEF UpInv
  <2> QED
    BY <1>1, <1>2, <2>1, PacketCarried
<1>5. SessionOK(app', s', taken')
  BY <1>1, <1>2, SessionCarried
<1> QED
  BY <1>2, <1>3, <1>4, <1>5 DEF UpInv

LEMMA SocketErrorUp ==
  ASSUME StreamFits, TypeOK, UpInv, s.state # "NONE", SocketError
  PROVE  UpInv'
<1>1. PICK ok \in Results : /\ s' = write_rst(s) /\ Deliver(Out(ok, RstPacket(s)))
                           /\ tun' = tun /\ taken' = taken
  BY DEF SocketError, OnSocketEvent
<1>2. /\ s \in Session /\ app \in AppEnd /\ taken \in History
      /\ AppOK(app) /\ SessionOK(app, s, taken)
  BY DEF TypeOK, UpInv
<1>3. RstPacket(s) \in Reply /\ ReplyOK(app, RstPacket(s))
  BY <1>2, RstPacketType, RstPacketOK
<1>4. Out(ok, RstPacket(s)) \in Seq(Reply) /\ RepliesOK(Out(ok, RstPacket(s)))
  BY <1>3, ResultsType, OutType, OneReply
<1>5. s' \in Session /\ SessionOK(app, s', taken')
  BY <1>1, <1>2, WriteRstType, WriteRstOK
<1> QED
  BY <1>1, <1>2, <1>4, <1>5, StepOK

\* tcp.c:253: the answer to the SYN acknowledges it.
LEMMA SocketConnectedUp ==
  ASSUME StreamFits, TypeOK, UpInv, SocketConnected
  PROVE  UpInv'
<1> DEFINE x == [s EXCEPT !.remote_seq = SeqAdd(@, 1)]
           z == [x EXCEPT !.local_seq = SeqAdd(@, 1), !.state = "SYN_RECV"]
           packet == write_tcp(x, {"SYN", "ACK"}, 0)
<1>1. PICK ok \in Results : /\ s' = IF ok THEN z ELSE Written(x, FALSE)
                           /\ Deliver(Out(ok, packet))
                           /\ tun' = tun /\ taken' = taken /\ s.state = "LISTEN"
  BY DEF SocketConnected, OnSocketEvent
<1>2. /\ s \in Session /\ app \in AppEnd /\ taken \in History
      /\ AppOK(app) /\ SessionOK(app, s, taken)
  BY DEF TypeOK, UpInv
<1>3. /\ x \in Session /\ x.remote_start = s.remote_start
      /\ x.remote_seq = SeqAdd(s.remote_seq, 1) /\ x.forward = s.forward
  BY <1>2, NextSeqNumType DEF Session
<1>4. packet \in Reply /\ packet.flags = {"SYN", "ACK"} /\ packet.ack_seq = x.remote_seq
  <2>1. {"SYN", "ACK"} \in SUBSET Flags /\ 0 \in Nat
    BY DEF Flags
  <2>2. packet.flags = {"SYN", "ACK"} /\ packet.ack_seq = x.remote_seq
    BY DEF write_tcp
  <2> QED
    BY <1>3, <2>1, <2>2, WriteType
<1> HIDE DEF x
<1>5. /\ s' \in Session /\ s'.remote_start = s.remote_start
      /\ s'.remote_seq = x.remote_seq /\ s'.forward = s.forward
      /\ s'.state \in {"SYN_RECV", "CLOSING"}
  <2>1. /\ z \in Session /\ z.remote_start = x.remote_start
        /\ z.remote_seq = x.remote_seq /\ z.forward = x.forward /\ z.state = "SYN_RECV"
    BY <1>3, NextSeqNumType DEF Session, States
  <2>2. LET w == Written(x, FALSE)
        IN  /\ w \in Session /\ w.remote_start = x.remote_start
            /\ w.remote_seq = x.remote_seq /\ w.forward = x.forward /\ w.state = "CLOSING"
    BY <1>3 DEF Written, Session, States
  <2> HIDE DEF z
  <2> QED
    BY <1>1, <1>3, <2>1, <2>2
<1>6. SessionOK(app, s', taken') /\ Offset(app, x.remote_seq) = 1 /\ app.nxt >= 1
  BY <1>1, <1>2, <1>3, <1>5, SynCounted
<1> HIDE DEF packet
<1>7. ReplyOK(app, packet)
  BY <1>4, <1>6 DEF ReplyOK
<1>8. Out(ok, packet) \in Seq(Reply) /\ RepliesOK(Out(ok, packet))
  BY <1>4, <1>7, ResultsType, OutType, OneReply
<1> QED
  BY <1>1, <1>2, <1>5, <1>6, <1>8, StepOK

\* tcp.c:348-421: reading, for the session and the packets so far.
LEMMA ReadsUp ==
  ASSUME StreamFits, TypeOK, UpInv, NEW x \in Session, NEW out \in Seq(Reply),
         NEW r \in RemoteEnd, RepliesOK(out), taken' \in History,
         SessionOK(app, x, taken'), x.state # "NONE",
         \/ ReadsNothing(x, out, r) \/ ReadFails(x, out, r)
         \/ ReadsEof(x, out, r) \/ ReadsData(x, out, r)
  PROVE  UpInv'
<1>1. app \in AppEnd /\ AppOK(app)
  BY DEF TypeOK, UpInv
<1>2. RstPacket(x) \in Reply /\ ReplyOK(app, RstPacket(x))
  BY <1>1, RstPacketType, RstPacketOK
<1>3. \A ok \in Results, p \in Reply : ReplyOK(app, p)
        => out \o Out(ok, p) \in Seq(Reply) /\ RepliesOK(out \o Out(ok, p))
  <2> TAKE ok \in Results, p \in Reply
  <2> HAVE ReplyOK(app, p)
  <2>1. Out(ok, p) \in Seq(Reply) /\ RepliesOK(Out(ok, p))
    BY ResultsType, OutType, OneReply
  <2> QED
    BY <2>1, OutConcat, MoreReplies
<1>4. CASE ReadsNothing(x, out, r)
  <2>1. s' = x /\ Deliver(out) /\ tun' = tun
    BY <1>4 DEF ReadsNothing, OnSocketEvent
  <2> QED
    BY <2>1, StepOK
<1>5. CASE ReadFails(x, out, r)
  <2>1. PICK ok \in Results : /\ s' = write_rst(x) /\ tun' = tun
                             /\ Deliver(out \o Out(ok, RstPacket(x)))
    BY <1>5 DEF ReadFails, OnSocketEvent
  <2>2. write_rst(x) \in Session /\ SessionOK(app, write_rst(x), taken')
    BY <1>1, WriteRstType, WriteRstOK
  <2>3. /\ out \o Out(ok, RstPacket(x)) \in Seq(Reply)
        /\ RepliesOK(out \o Out(ok, RstPacket(x)))
    BY <1>2, <1>3
  <2> QED
    BY <2>1, <2>2, <2>3, StepOK
<1>6. CASE ReadsEof(x, out, r)
  <2> DEFINE y == [x EXCEPT !.socket = FALSE]
             z == [y EXCEPT !.local_seq = SeqAdd(@, 1),
                            !.state = IF @ = "ESTABLISHED" THEN "FIN_WAIT1"
                                                           ELSE "LAST_ACK"]
             packet == write_tcp(x, {"FIN", "ACK"}, 0)
  <2>1. PICK ok \in Results :
          \/ /\ x.forward = <<>> /\ s' = (IF ok THEN z ELSE Written(y, FALSE))
             /\ Deliver(out \o Out(ok, packet)) /\ tun' = tun
          \/ s' = write_rst(y) /\ Deliver(out \o Out(ok, RstPacket(x))) /\ tun' = tun
    BY <1>6 DEF ReadsEof, OnSocketEvent
  <2>2. x.state \in {"ESTABLISHED", "CLOSE_WAIT"}
    BY <1>6 DEF ReadsEof, MayRead, Transferring
  <2>3. /\ y \in Session /\ y.state = x.state /\ y.remote_start = x.remote_start
        /\ y.remote_seq = x.remote_seq /\ y.forward = x.forward
    BY DEF Session
  <2> HIDE DEF y
  <2>4. /\ z \in Session /\ z.remote_start = y.remote_start
        /\ z.remote_seq = y.remote_seq /\ z.forward = y.forward
        /\ z.state = IF y.state = "ESTABLISHED" THEN "FIN_WAIT1" ELSE "LAST_ACK"
    BY <2>3, NextSeqNumType DEF Session, States
  <2>5. LET w == Written(y, FALSE)
        IN  /\ w \in Session /\ w.remote_start = y.remote_start
            /\ w.remote_seq = y.remote_seq /\ w.forward = y.forward /\ w.state = "CLOSING"
    BY <2>3 DEF Written, Session, States
  <2> HIDE DEF z
  <2>6. SessionOK(app, y, taken')
    BY <1>1, <2>3, SessionSame
  <2>7. SessionOK(app, Written(y, FALSE), taken') /\ Written(y, FALSE) \in Session
    BY <1>1, <2>2, <2>3, <2>5, <2>6, SessionSame
  <2>8. SessionOK(app, write_rst(y), taken') /\ write_rst(y) \in Session
    BY <1>1, <2>2, <2>3, <2>6, WriteRstType, WriteRstOK
  <2>9. ASSUME x.forward = <<>> PROVE SessionOK(app, z, taken')
    <3>1. CountOK(app, x, Offset(app, x.remote_seq), taken'.next)
      BY DEF SessionOK
    <3>2. taken'.next \in Nat
      BY DEF History
    <3>3. CountOK(app, z, Offset(app, x.remote_seq), taken'.next)
      BY <2>2, <2>3, <2>4, <2>9, <3>1, <3>2 DEF CountOK
    <3>4. CountOK(app, z, Offset(app, z.remote_seq), taken'.next)
      BY <2>3, <2>4, <3>3, Zenon
    <3>5. /\ app.st # "closed" /\ z.remote_start = app.iss
          /\ QueueOK(app, z.forward, Counted(app, z, taken')) /\ taken'.inOrder
      <4>1. Counted(app, z, taken') = Counted(app, x, taken')
        BY <2>3, <2>4, Zenon DEF Counted
      <4> QED
        BY <2>3, <2>4, <4>1 DEF SessionOK
    <3> QED
      BY <3>4, <3>5 DEF SessionOK
  <2>10. packet \in Reply /\ ReplyOK(app, packet)
    <3>1. {"FIN", "ACK"} \in SUBSET Flags /\ "SYN" \notin {"FIN", "ACK"} /\ 0 \in Nat
      BY DEF Flags
    <3> QED
      BY <3>1, WriteType, WriteOK
  <2> HIDE DEF packet
  <2>11. /\ out \o Out(ok, packet) \in Seq(Reply) /\ RepliesOK(out \o Out(ok, packet))
         /\ out \o Out(ok, RstPacket(x)) \in Seq(Reply)
         /\ RepliesOK(out \o Out(ok, RstPacket(x)))
    BY <1>2, <1>3, <2>10
  <2>12. CASE s' = write_rst(y) /\ Deliver(out \o Out(ok, RstPacket(x))) /\ tun' = tun
    BY <2>8, <2>11, <2>12, StepOK
  <2>13. CASE /\ x.forward = <<>> /\ s' = (IF ok THEN z ELSE Written(y, FALSE))
              /\ Deliver(out \o Out(ok, packet)) /\ tun' = tun
    <3>1. s' \in Session /\ SessionOK(app, s', taken')
      BY <2>4, <2>7, <2>9, <2>13
    <3> QED
      BY <2>11, <2>13, <3>1, StepOK
  <2> QED
    BY <2>1, <2>12, <2>13
<1>7. CASE ReadsData(x, out, r)
  <2>1. PICK n \in 1 .. Min2(SendWindow(x), r.inbox), ok \in Results :
          /\ s' = IF ok THEN [x EXCEPT !.local_seq = SeqAdd(@, n)] ELSE Written(x, FALSE)
          /\ Deliver(out \o Out(ok, write_tcp(x, {"ACK"}, n))) /\ tun' = tun
    BY <1>7 DEF ReadsData, OnSocketEvent
  <2>2. n \in Nat
    BY SendWindowType DEF RemoteEnd, Min2
  <2>3. SeqAdd(x.local_seq, n) \in SeqNums
    <3>1. x.local_seq \in Int
      BY SeqNumsAreNat DEF Session
    <3> QED
      BY <2>2, <3>1, SeqAddType
  <2>4. /\ s' \in Session /\ s'.remote_start = x.remote_start
        /\ s'.remote_seq = x.remote_seq /\ s'.forward = x.forward
        /\ s'.state \in {x.state, "CLOSING"}
    BY <2>1, <2>3 DEF Written, Session, States
  <2>5. SessionOK(app, s', taken')
    BY <1>1, <2>4, SessionSame
  <2>6. write_tcp(x, {"ACK"}, n) \in Reply /\ ReplyOK(app, write_tcp(x, {"ACK"}, n))
    <3>1. {"ACK"} \in SUBSET Flags /\ "SYN" \notin {"ACK"}
      BY DEF Flags
    <3> QED
      BY <2>2, <3>1, WriteType, WriteOK
  <2>7. /\ out \o Out(ok, write_tcp(x, {"ACK"}, n)) \in Seq(Reply)
        /\ RepliesOK(out \o Out(ok, write_tcp(x, {"ACK"}, n)))
    BY <1>3, <2>6
  <2> QED
    BY <2>1, <2>4, <2>5, <2>7, StepOK
<1> QED
  BY <1>4, <1>5, <1>6, <1>7

\* tcp.c:196-421: forward, acknowledge, read.
LEMMA TransfersUp ==
  ASSUME StreamFits, TypeOK, UpInv, s.state # "NONE", SocketTransfers
  PROVE  UpInv'
<1> DEFINE sent(c)    == c.n > 0 \/ c.part > 0
           acks(c, w) == sent(c) \/ (~s.recv_window /\ w)
           fwd(c, w)  == AckForwarded(Forward(s, c.n, c.part), sent(c), w)
           done(c, w, ok) == IF acks(c, w) THEN Written(fwd(c, w), ok) ELSE fwd(c, w)
           out(c, w, ok)  == IF acks(c, w) THEN Out(ok, write_tcp(fwd(c, w), {"ACK"}, 0))
                             ELSE <<>>
<1>1. PICK c \in ForwardChoices, w \in BOOLEAN, ok \in Results :
        /\ taken' = Taken(taken, s, c.n, c.part, c.lost /\ remote.st = "up")
        /\ \/ ReadsNothing(done(c, w, ok), out(c, w, ok), AfterSends(c.lost))
           \/ ReadFails(done(c, w, ok), out(c, w, ok), AfterSends(c.lost))
           \/ ReadsEof(done(c, w, ok), out(c, w, ok), AfterSends(c.lost))
           \/ ReadsData(done(c, w, ok), out(c, w, ok), AfterSends(c.lost))
  BY DEF SocketTransfers
<1>2. /\ s \in Session /\ remote \in RemoteEnd /\ taken \in History
      /\ app \in AppEnd /\ AppOK(app) /\ SessionOK(app, s, taken)
      /\ Len(s.forward) \in Nat /\ s.state \notin {"NONE", "LISTEN"}
  BY LenProperties DEF TypeOK, UpInv, Session, SocketTransfers
<1>3. /\ c.n \in 0 .. Len(s.forward) /\ c.part \in Nat /\ c.lost \in BOOLEAN
      /\ Forwardable(s, c.n)
      /\ c.part > 0 => /\ c.n < Len(s.forward) /\ Forwardable(s, c.n + 1)
                       /\ c.part < Rest(s.forward[c.n + 1])
  <2>1. /\ c \in [n : 0 .. Len(s.forward), part : 0 .. AppBytes, lost : BOOLEAN]
        /\ Forwardable(s, c.n)
        /\ c.part > 0 => /\ Forwardable(s, c.n + 1)
                         /\ c.part < Rest(s.forward[c.n + 1])
    BY DEF ForwardChoices
  <2>2. c.n \in 0 .. Len(s.forward) /\ c.part \in Nat /\ c.lost \in BOOLEAN
    BY <2>1, TcpAssumption
  <2>3. c.part > 0 => c.n + 1 <= Len(s.forward)
    BY <2>1 DEF Forwardable
  <2>4. c.part > 0 => c.n < Len(s.forward)
    BY <1>2, <2>2, <2>3
  <2> QED
    BY <2>1, <2>2, <2>4
<1>4. (c.lost /\ remote.st = "up") \in BOOLEAN
  BY <1>3
<1>5. taken' \in History
  BY <1>1, <1>2, <1>3, <1>4, TakenType
<1>6. SessionOK(app, fwd(c, w), taken')
  BY <1>1, <1>2, <1>3, <1>4, ForwardOK
<1>7. fwd(c, w) \in Session /\ fwd(c, w).state = s.state
  <2>1. Forward(s, c.n, c.part) \in Session
    BY <1>2, <1>3, ForwardType
  <2>2. Forward(s, c.n, c.part).state = s.state
    BY <1>2 DEF Forward, Session
  <2>3. \A x \in Session, b \in BOOLEAN :
          AckForwarded(x, b, w) \in Session /\ AckForwarded(x, b, w).state = x.state
    BY NextSeqNumType DEF AckForwarded, Session
  <2>4. sent(c) \in BOOLEAN
    BY <1>3
  <2> HIDE DEF sent
  <2> QED
    BY <2>1, <2>2, <2>3, <2>4
<1> HIDE DEF fwd, acks
<1>8. LET x == Written(fwd(c, w), ok)
      IN  /\ x \in Session /\ x.state # "NONE" /\ SessionOK(app, x, taken')
  <2>1. LET x == Written(fwd(c, w), ok)
        IN  /\ x \in Session /\ x.remote_start = fwd(c, w).remote_start
            /\ x.remote_seq = fwd(c, w).remote_seq /\ x.forward = fwd(c, w).forward
            /\ x.state \in {fwd(c, w).state, "CLOSING"}
    BY <1>7, ResultsType DEF Written, Session, States
  <2> QED
    BY <1>2, <1>5, <1>6, <1>7, <2>1, SessionSame
<1>9. /\ done(c, w, ok) \in Session /\ done(c, w, ok).state # "NONE"
      /\ SessionOK(app, done(c, w, ok), taken')
  BY <1>2, <1>6, <1>7, <1>8
<1>10. out(c, w, ok) \in Seq(Reply) /\ RepliesOK(out(c, w, ok))
  <2>1. {"ACK"} \in SUBSET Flags /\ "SYN" \notin {"ACK"} /\ 0 \in Nat /\ <<>> \in Seq(Reply)
    BY DEF Flags
  <2> DEFINE packet == write_tcp(fwd(c, w), {"ACK"}, 0)
  <2>2. packet \in Reply /\ ReplyOK(app, packet)
    BY <1>2, <1>5, <1>6, <1>7, <2>1, WriteType, WriteOK
  <2> HIDE DEF packet
  <2>3. Out(ok, packet) \in Seq(Reply) /\ RepliesOK(Out(ok, packet))
    BY <2>2, ResultsType, OutType, OneReply
  <2> QED
    BY <2>1, <2>3, NoReply DEF packet
<1>11. AfterSends(c.lost) \in RemoteEnd
  BY <1>2 DEF AfterSends, RemoteEnd
<1> HIDE DEF done, out
<1> QED
  BY <1>1, <1>5, <1>9, <1>10, <1>11, ReadsUp

-----------------------------------------------------------------------------
(* The rest of the loop, and the environment                               *)

\* The number before remote_seq, which a keep-alive ACK carries.
LEMMA DistanceBack ==
  ASSUME NEW i \in SeqNums, NEW r \in SeqNums, (r - i) % Mod >= 1
  PROVE  (SeqAdd(r, Mod - 1) - i) % Mod = ((r - i) % Mod) - 1
BY ModWithin, ModAbove, ModBelow, HalfAssumption DEF SeqAdd, SeqNums, Mod

LEMMA MonitorUp ==
  ASSUME StreamFits, TypeOK, UpInv, SocketMatchesState, monitor_tcp_session
  PROVE  UpInv'
<1> DEFINE old == [s EXCEPT !.remote_seq = SeqAdd(@, Mod - 1)]
           packet == write_tcp(old, {"ACK"}, 0)
<1>1. /\ s \in Session /\ app \in AppEnd /\ taken \in History
      /\ AppOK(app) /\ SessionOK(app, s, taken) /\ tun' = tun /\ taken' = taken
  BY DEF TypeOK, UpInv, monitor_tcp_session
<1>2. CASE ~s.socket /\ Deliver(<<>>) /\ s' = s
  <2>1. <<>> \in Seq(Reply)
    OBVIOUS
  <2> QED
    BY <1>1, <1>2, <2>1, NoReply, StepOK
<1>3. ASSUME NEW room \in BOOLEAN, NEW set \in BOOLEAN, NEW probe \in BOOLEAN,
             NEW ok \in Results, s.socket,
             probe => Transferring(s),
             s' = [(IF probe THEN Written(s, ok) ELSE s)
                     EXCEPT !.events = Wanted(s, room),
                            !.state = IF Wanted(s, room) # s.events /\ ~set
                                      THEN "CLOSING" ELSE @],
             Deliver(IF probe THEN Out(ok, packet) ELSE <<>>)
      PROVE  UpInv'
  <2>1. s.state # "NONE"
    BY <1>3 DEF SocketMatchesState
  <2>2. /\ s' \in Session /\ s'.remote_start = s.remote_start
        /\ s'.remote_seq = s.remote_seq /\ s'.forward = s.forward
        /\ s'.state \in {s.state, "CLOSING"}
    <3> DEFINE x == IF probe THEN Written(s, ok) ELSE s
    <3>1. /\ x \in Session /\ x.remote_start = s.remote_start
          /\ x.remote_seq = s.remote_seq /\ x.forward = s.forward
          /\ x.state \in {s.state, "CLOSING"}
      BY <1>1 DEF Written, Session, States
    <3>2. s' = [x EXCEPT !.events = Wanted(s, room),
                         !.state = IF Wanted(s, room) # s.events /\ ~set
                                   THEN "CLOSING" ELSE @]
      BY <1>3
    <3>3. Wanted(s, room) \in SUBSET Events
      BY DEF Wanted, Events
    <3> HIDE DEF x
    <3> QED
      BY <3>1, <3>2, <3>3 DEF Session, States
  <2>3. SessionOK(app, s', taken')
    BY <1>1, <2>1, <2>2, SessionSame
  <2>4. ASSUME Transferring(s)
        PROVE  packet \in Reply /\ ReplyOK(app, packet)
    <3>1. CountOK(app, s, Offset(app, s.remote_seq), taken.next)
      BY <1>1, <2>1 DEF SessionOK
    <3>2. taken.next \in Nat /\ s.remote_seq \in SeqNums /\ app.iss \in SeqNums
          /\ app.nxt \in Nat
      BY <1>1 DEF History, Session, AppEnd
    <3>3. Offset(app, s.remote_seq) >= 1 /\ Offset(app, s.remote_seq) <= app.nxt
          /\ Offset(app, s.remote_seq) \in Nat
      <4>1. Offset(app, s.remote_seq) \in Nat
        BY <1>1, <3>2, OffsetType, SeqNumsAreNat
      <4>2. Offset(app, s.remote_seq) \in {taken.next, taken.next + 1}
        BY <2>4, <3>1, <3>2 DEF CountOK, Transferring
      <4> QED
        BY <3>1, <3>2, <4>1, <4>2 DEF CountOK
    <3>4. SeqAdd(s.remote_seq, Mod - 1) \in SeqNums
      <4>1. s.remote_seq \in Int /\ Mod - 1 \in Int
        BY <3>2, SeqNumsAreNat, HalfAssumption DEF Mod
      <4> QED
        BY <4>1, SeqAddType
    <3>5. old \in Session /\ old.remote_seq = SeqAdd(s.remote_seq, Mod - 1)
      BY <1>1, <3>4 DEF Session
    <3>6. Offset(app, old.remote_seq) = Offset(app, s.remote_seq) - 1
      BY <3>2, <3>3, <3>5, DistanceBack DEF Offset
    <3> HIDE DEF old
    <3>7. packet.flags = {"ACK"} /\ packet.ack_seq = old.remote_seq
      BY DEF write_tcp
    <3>8. packet \in Reply
      <4>1. {"ACK"} \in SUBSET Flags /\ 0 \in Nat
        BY DEF Flags
      <4> QED
        BY <3>5, <4>1, WriteType
    <3> HIDE DEF packet
    <3>9. Offset(app, packet.ack_seq) <= app.nxt
      BY <3>2, <3>3, <3>6, <3>7
    <3> QED
      BY <3>7, <3>8, <3>9 DEF ReplyOK
  <2> HIDE DEF packet
  <2> DEFINE out == IF probe THEN Out(ok, packet) ELSE <<>>
  <2>5. out \in Seq(Reply) /\ RepliesOK(out)
    <3>1. <<>> \in Seq(Reply)
      OBVIOUS
    <3>2. probe => Out(ok, packet) \in Seq(Reply) /\ RepliesOK(Out(ok, packet))
      BY <1>3, <2>4, ResultsType, OutType, OneReply
    <3> QED
      BY <3>1, <3>2, NoReply
  <2>6. Deliver(out)
    BY <1>3
  <2> HIDE DEF out
  <2> QED
    BY <1>1, <2>2, <2>3, <2>5, <2>6, StepOK
<1> QED
  BY <1>2, <1>3 DEF monitor_tcp_session

LEMMA CheckUp ==
  ASSUME StreamFits, TypeOK, UpInv, NEW expired \in BOOLEAN, check_tcp_session(expired)
  PROVE  UpInv'
<1> DEFINE x == TimedOut(s, expired)
           y == SocketClosed(x)
<1>1. /\ s \in Session /\ app \in AppEnd /\ taken \in History
      /\ AppOK(app) /\ SessionOK(app, s, taken) /\ s.state # "NONE"
      /\ tun' = tun /\ taken' = taken /\ (s' = NoSession \/ s' = y)
  BY DEF TypeOK, UpInv, check_tcp_session
<1>2. x \in Session /\ SessionOK(app, x, taken) /\ x.state # "NONE"
  <2>1. write_rst(s) \in Session /\ SessionOK(app, write_rst(s), taken)
    BY <1>1, WriteRstType, WriteRstOK
  <2>2. write_rst(s).state # "NONE"
    BY <1>1 DEF write_rst, Session
  <2>3. LET w == [s EXCEPT !.state = "CLOSING"]
        IN  /\ w \in Session /\ w.remote_start = s.remote_start
            /\ w.remote_seq = s.remote_seq /\ w.forward = s.forward /\ w.state = "CLOSING"
    BY <1>1 DEF Session, States
  <2>4. SessionOK(app, [s EXCEPT !.state = "CLOSING"], taken)
    BY <1>1, <2>3, SessionSame
  <2> QED
    BY <1>1, <2>1, <2>2, <2>3, <2>4 DEF TimedOut
<1> HIDE DEF x
<1>3. y \in Session /\ SessionOK(app, y, taken)
  <2>1. /\ y \in Session /\ y.remote_start = x.remote_start
        /\ y.remote_seq = x.remote_seq /\ y.forward = x.forward
        /\ y.state \in {x.state, "CLOSE"}
    BY <1>2 DEF SocketClosed, Session, States
  <2> HIDE DEF y
  <2> QED
    BY <1>1, <1>2, <2>1, SessionSame
<1>4. NoSession \in Session /\ SessionOK(app, NoSession, taken)
  <2>1. NoSession.state = "NONE" /\ taken.inOrder
    BY <1>1 DEF NoSession, SessionOK
  <2> QED
    BY <2>1, NoSessionType DEF SessionOK
<1> HIDE DEF y
<1>5. s' \in Session /\ SessionOK(app, s', taken')
  BY <1>1, <1>3, <1>4
<1>6. PICK ok \in Results :
        Deliver(IF expired /\ Live(s) /\ s.state # "LISTEN"
                THEN Out(ok, RstPacket(s)) ELSE <<>>)
  BY DEF check_tcp_session
<1>7. /\ Out(ok, RstPacket(s)) \in Seq(Reply) /\ RepliesOK(Out(ok, RstPacket(s)))
      /\ <<>> \in Seq(Reply) /\ RepliesOK(<<>>)
  <2>1. RstPacket(s) \in Reply /\ ReplyOK(app, RstPacket(s))
    BY <1>1, RstPacketType, RstPacketOK
  <2>2. <<>> \in Seq(Reply)
    OBVIOUS
  <2> QED
    BY <2>1, <2>2, ResultsType, OutType, OneReply, NoReply
<1> QED
  BY <1>1, <1>5, <1>6, <1>7, StepOK

\* The app hands over a packet of its stream, or one that is dropped.
LEMMA PostOK ==
  ASSUME TypeOK, UpInv, app' \in AppEnd, AppOK(app'), Extends(app, app'),
         app'.st # "closed", NEW p \in Packet, PacketOK(app', p), Post(p)
  PROVE  UpInv'
<1>1. /\ app \in AppEnd /\ tun \in Seq(Packet) /\ Len(tun) \in Nat
      /\ s \in Session /\ taken \in History /\ SessionOK(app, s, taken)
      /\ s' = s /\ taken' = taken
  BY LenProperties DEF TypeOK, UpInv, Post
<1>2. \A i \in 1 .. Len(tun) : PacketOK(app', tun[i])
  <2> TAKE i \in 1 .. Len(tun)
  <2>1. tun[i] \in Packet /\ PacketOK(app, tun[i])
    BY <1>1, ElementOfSeq DEF UpInv
  <2> QED
    BY <1>1, <2>1, PacketCarried
<1>3. \A i \in 1 .. Len(tun') : PacketOK(app', tun'[i])
  <2>1. CASE tun' = tun
    BY <1>2, <2>1
  <2>2. CASE tun' = Append(tun, p)
    <3>1. /\ Len(tun') = Len(tun) + 1 /\ tun'[Len(tun) + 1] = p
          /\ \A i \in 1 .. Len(tun) : tun'[i] = tun[i]
      BY <1>1, <2>2, AppendProperties
    <3>2. \A i \in 1 .. Len(tun) + 1 : i \in 1 .. Len(tun) \/ i = Len(tun) + 1
      BY <1>1
    <3> QED
      BY <1>2, <3>1, <3>2
  <2> QED
    BY <2>1, <2>2 DEF Post
<1>4. SessionOK(app', s', taken')
  BY <1>1, SessionCarried
<1> QED
  BY <1>3, <1>4 DEF UpInv

LEMMA AppConnectsUp ==
  ASSUME StreamFits, TypeOK, UpInv, AppConnects
  PROVE  UpInv'
<1>1. PICK iss \in AppISNs, w \in Windows, n \in 0 .. (IF SynData THEN AppBytes ELSE 0) :
        LET a == IF app.st = "closed"
                 THEN [app EXCEPT !.st = "syn_sent", !.iss = iss, !.nxt = n + 1]
                 ELSE app
        IN  /\ app.st \in {"closed", "syn_sent"} /\ app' = a /\ a.nxt = n + 1 /\ a.iss = iss
            /\ Post(PacketOf(a, {"SYN"}, 0, n, w))
  BY DEF AppConnects
<1>2. /\ n \in Nat /\ n <= AppBytes /\ app \in AppEnd /\ AppOK(app)
      /\ iss \in SeqNums /\ w \in Nat /\ AppBytes \in Nat
  BY TcpAssumption DEF StreamFits, TypeOK, UpInv
<1>3. /\ app' \in AppEnd /\ app'.st = "syn_sent" /\ app'.iss = iss /\ app'.nxt = n + 1
      /\ app'.una = app.una /\ app'.faults = app.faults /\ app'.rcv = app.rcv
      /\ app.st = "closed" \/ app' = app
  <2> DEFINE a == [app EXCEPT !.st = "syn_sent", !.iss = iss, !.nxt = n + 1]
  <2>1. /\ a \in AppEnd /\ a.st = "syn_sent" /\ a.iss = iss /\ a.nxt = n + 1
        /\ a.una = app.una /\ a.faults = app.faults /\ a.rcv = app.rcv
    <3>1. app \in AppEnd /\ iss \in SeqNums /\ n + 1 \in Nat
      BY <1>2
    <3> QED
      BY <3>1 DEF AppEnd
  <2>2. /\ app' = IF app.st = "closed" THEN a ELSE app
        /\ app.st \in {"closed", "syn_sent"} /\ app'.nxt = n + 1 /\ app'.iss = iss
    BY <1>1
  <2> HIDE DEF a
  <2> QED
    BY <1>2, <2>1, <2>2
<1>4. PICK p \in Packet : /\ Post(p) /\ p.flags = {"SYN"} /\ p.len = n /\ p.data = 1
                         /\ p.seq = SeqAdd(app'.iss, 0)
  <2>1. {"SYN"} \in SUBSET Flags /\ 0 \in Nat
    BY DEF Flags
  <2>2. PacketOf(app', {"SYN"}, 0, n, w) \in Packet
    BY <1>2, <1>3, <2>1, PacketOfType
  <2>3. Post(PacketOf(app', {"SYN"}, 0, n, w))
    BY <1>1
  <2>4. LET p == PacketOf(app', {"SYN"}, 0, n, w)
        IN  p.flags = {"SYN"} /\ p.len = n /\ p.data = 1 /\ p.seq = SeqAdd(app'.iss, 0)
    BY DEF PacketOf
  <2> QED
    BY <1>2, <2>2, <2>3, <2>4
<1>5. SeqAdd(app'.iss, 0) = app'.iss
  BY <1>2, <1>3, ModWithin DEF SeqAdd, SeqNums
<1>6. PacketOK(app', p)
  <2>1. 1 + n <= AppBytes + 1 /\ 1 + n <= app'.nxt
    BY <1>2, <1>3
  <2> QED
    BY <1>4, <1>5, <2>1 DEF PacketOK, PieceOK
<1>7. CASE app' = app
  <2>1. Extends(app, app')
    BY <1>2, <1>7 DEF Extends, AppEnd, AppOK
  <2> QED
    BY <1>2, <1>3, <1>4, <1>6, <1>7, <2>1, PostOK
<1>8. CASE app.st = "closed"
  <2>1. tun = <<>> /\ s.state = "NONE" /\ taken.inOrder /\ app.una <= app.nxt /\ app.nxt = 0
    BY <1>8 DEF UpInv, SessionOK, AppOK
  <2>2. AppOK(app')
    <3>1. app'.una \in Nat /\ app'.una <= app'.nxt /\ app'.nxt >= 1 /\ app'.nxt <= AppBytes + 2
      BY <1>2, <1>3, <2>1 DEF AppEnd
    <3> QED
      BY <1>2, <1>3, <3>1 DEF AppOK
  <2>3. s' = s /\ taken' = taken /\ (tun' = <<>> \/ tun' = <<p>>)
    BY <1>4, <2>1 DEF Post
  <2>4. \A i \in 1 .. Len(tun') : PacketOK(app', tun'[i])
    <3>1. Len(<<>>) = 0 /\ Len(<<p>>) = 1 /\ <<p>>[1] = p
      OBVIOUS
    <3> QED
      BY <1>6, <2>3, <3>1
  <2>5. SessionOK(app', s', taken')
    BY <2>1, <2>3 DEF SessionOK
  <2> QED
    BY <1>3, <2>2, <2>4, <2>5 DEF UpInv
<1> QED
  BY <1>3, <1>7, <1>8

LEMMA AppSendsUp ==
  ASSUME StreamFits, TypeOK, UpInv, AppSends
  PROVE  UpInv'
<1>1. PICK from \in {app.una, app.nxt}, to \in 1 .. AppBytes + 2, fin \in BOOLEAN,
           w \in Windows :
        LET len == to - from
            end == IF fin THEN to + 1 ELSE to
        IN  /\ from <= to
            /\ len > 0 => to <= AppBytes + 1
            /\ from < app.nxt => end <= app.nxt
            /\ fin => to = AppBytes + 1
            /\ len = 0 /\ ~fin => from = app.nxt
            /\ Post(PacketOf(app, IF fin THEN {"ACK", "FIN"} ELSE {"ACK"}, from, len, w))
            /\ app' = [app EXCEPT !.nxt = IF end > @ THEN end ELSE @,
                                  !.edge = IF app.rcv + w > @ THEN app.rcv + w ELSE @]
  BY DEF AppSends
<1> DEFINE end == IF fin THEN to + 1 ELSE to
           flags == IF fin THEN {"ACK", "FIN"} ELSE {"ACK"}
           p == PacketOf(app, flags, from, to - from, w)
<1>2. /\ app \in AppEnd /\ AppOK(app) /\ app.st = "open" /\ w \in Nat /\ to \in Nat
      /\ to <= AppBytes + 2 /\ AppBytes \in Nat /\ app.nxt \in Nat /\ app.una \in Nat
  BY TcpAssumption DEF TypeOK, UpInv, AppSends, AppEnd
<1>3. from \in Nat /\ from >= 1 /\ to - from \in Nat /\ from <= app.nxt
  BY <1>1, <1>2 DEF AppOK
<1>4. end \in Nat /\ to <= end /\ end <= AppBytes + 2 /\ (fin => end = AppBytes + 2)
  BY <1>1, <1>2
<1> HIDE DEF end
<1>5. /\ app' \in AppEnd /\ app'.st = app.st /\ app'.iss = app.iss /\ app'.una = app.una
      /\ app'.faults = app.faults /\ app'.rcv = app.rcv
      /\ app'.nxt = (IF end > app.nxt THEN end ELSE app.nxt)
  <2> DEFINE nxt == IF end > app.nxt THEN end ELSE app.nxt
             edge == IF app.rcv + w > app.edge THEN app.rcv + w ELSE app.edge
  <2>1. nxt \in Nat /\ edge \in Nat
    BY <1>2, <1>4 DEF AppEnd
  <2>2. app' = [app EXCEPT !.nxt = nxt, !.edge = edge]
    BY <1>1 DEF end
  <2> HIDE DEF nxt, edge
  <2>3. /\ app' \in AppEnd /\ app'.st = app.st /\ app'.iss = app.iss
        /\ app'.una = app.una /\ app'.faults = app.faults /\ app'.nxt = nxt
        /\ app'.rcv = app.rcv
    BY <1>2, <2>1, <2>2 DEF AppEnd
  <2> QED
    BY <2>3 DEF nxt
<1>6. app'.nxt \in Nat /\ app'.nxt >= end /\ app'.nxt >= app.nxt /\ app'.nxt <= AppBytes + 2
  BY <1>2, <1>4, <1>5 DEF AppOK
<1>7. AppOK(app') /\ Extends(app, app')
  <2>1. /\ app.una >= 1 /\ app.una <= app.nxt /\ "unsent" \notin app.faults
        /\ Opened(app) /\ Opened(app')
    BY <1>2, <1>5 DEF AppOK, Opened
  <2>2. app'.una <= app'.nxt /\ app'.nxt >= 1
    BY <1>2, <1>5, <1>6, <2>1
  <2> QED
    BY <1>2, <1>5, <1>6, <2>1, <2>2 DEF AppOK, Extends
<1>8. p \in Packet
  <2>1. {"ACK", "FIN"} \in SUBSET Flags /\ {"ACK"} \in SUBSET Flags
    BY DEF Flags
  <2>2. flags \in SUBSET Flags
    BY <2>1
  <2> HIDE DEF flags
  <2> QED
    BY <1>2, <1>3, <2>2, PacketOfType
<1>9. /\ p.flags = flags /\ p.seq = SeqAdd(app'.iss, from) /\ p.len = to - from
      /\ p.data = from
  BY <1>3, <1>5 DEF PacketOf
<1>10. Post(p)
  BY <1>1
<1> HIDE DEF p
<1>11. PacketOK(app', p)
  <2>1. "SYN" \notin p.flags /\ ("FIN" \in p.flags => fin)
    BY <1>9
  <2>2. p.data + p.len = to /\ p.data >= 1
    BY <1>2, <1>3, <1>9
  <2>3. p.len > 0 => to <= AppBytes + 1
    BY <1>1, <1>9
  <2>4. to <= app'.nxt
    BY <1>2, <1>4, <1>6
  <2>5. fin => app'.nxt = AppBytes + 2
    BY <1>2, <1>4, <1>6
  <2>6. p.seq # app'.iss
    <3>1. from < Mod
      BY <1>2, <1>3, HalfAssumption DEF StreamFits, AppOK, Mod
    <3> QED
      BY <1>3, <1>5, <1>9, <3>1, LaterNumber
  <2>7. Opened(app')
    BY <1>2, <1>5 DEF AppOK, Opened
  <2> QED
    BY <1>9, <2>1, <2>2, <2>3, <2>4, <2>5, <2>6, <2>7 DEF PacketOK, PieceOK
<1> QED
  BY <1>2, <1>5, <1>7, <1>8, <1>10, <1>11, PostOK

LEMMA AppAbortsUp ==
  ASSUME TypeOK, UpInv, AppAborts
  PROVE  UpInv'
<1> DEFINE p == PacketOf(app, {"RST"}, app.nxt, 0, 0)
<1>1. /\ app \in AppEnd /\ AppOK(app) /\ app.st # "closed" /\ app.nxt \in Nat
      /\ Post(p) /\ app' = [app EXCEPT !.st = "aborted"]
  BY DEF TypeOK, UpInv, AppAborts, AppEnd
<1>2. p \in Packet /\ p.flags = {"RST"} /\ p.len = 0
  <2>1. {"RST"} \in SUBSET Flags /\ 0 \in Nat
    BY DEF Flags
  <2>2. p.flags = {"RST"} /\ p.len = 0
    BY DEF PacketOf
  <2> QED
    BY <1>1, <2>1, <2>2, PacketOfType
<1> HIDE DEF p
<1>3. /\ app' \in AppEnd /\ app'.st = "aborted" /\ app'.iss = app.iss
      /\ app'.nxt = app.nxt /\ app'.una = app.una /\ app'.faults = app.faults
      /\ app'.rcv = app.rcv
  BY <1>1 DEF AppEnd
<1>4. AppOK(app') /\ Extends(app, app')
  BY <1>1, <1>3 DEF AppOK, Extends, Opened
<1>5. PacketOK(app', p)
  BY <1>2 DEF PacketOK
<1> QED
  BY <1>2, <1>1, <1>3, <1>4, <1>5, PostOK

-----------------------------------------------------------------------------

\* The inductive invariant (tcp.c: queue_tcp, the loop at 266, the SYN and FIN at
\* 253 and 727): what is queued, sent and counted of the app's stream, and what the
\* app is told of it, agree.
THEOREM UpInvInductive == ASSUME StreamFits PROVE Spec => []UpInv
<1>1. Init => UpInv
  <2> SUFFICES ASSUME Init PROVE UpInv
    OBVIOUS
  <2>1. /\ app.st = "closed" /\ app.nxt = 0 /\ app.una = 0 /\ app.faults = {}
        /\ tun = <<>> /\ s.state = "NONE" /\ taken.inOrder
    BY DEF Init, NoSession
  <2>2. AppOK(app)
    BY <2>1, TcpAssumption DEF AppOK
  <2>3. Len(tun) = 0
    BY <2>1
  <2> QED
    BY <2>1, <2>2, <2>3 DEF UpInv, SessionOK
<1>2. TypeOK /\ SocketInv /\ ResetInv /\ UpInv /\ [Next]_vars => UpInv'
  <2> SUFFICES ASSUME TypeOK, SocketInv, ResetInv, UpInv, [Next]_vars
               PROVE  UpInv'
    OBVIOUS
  <2>1. SocketMatchesState
    BY DEF SocketInv
  <2>2. CASE s' = s /\ tun' = tun /\ app' = app /\ taken' = taken
    BY <2>2 DEF UpInv
  <2>3. CASE monitor_tcp_session
    BY <2>1, <2>3, MonitorUp
  <2>4. ASSUME NEW expired \in BOOLEAN, check_tcp_session(expired)
        PROVE  UpInv'
    BY <2>4, CheckUp
  <2>5. CASE handle_tcp
    BY <2>1, <2>5, HandleTcpUp
  <2>6. CASE check_tcp_socket
    <3>1. batch \in Batches /\ batch # <<>> /\ Head(batch) = "sock"
      BY <2>6, EventIsHandled DEF TypeOK
    <3>2. s.state # "NONE"
      BY <3>1, PendingTail DEF SocketInv
    <3> QED
      BY <2>6, <3>2, SocketErrorUp, SocketConnectedUp, TransfersUp DEF check_tcp_socket
  <2>7. CASE AppConnects \/ AppSends \/ AppAborts
    BY <2>7, AppConnectsUp, AppSendsUp, AppAbortsUp
  <2>8. SkipCheck \/ epoll_wait \/ TunDrained
          => s' = s /\ tun' = tun /\ app' = app /\ taken' = taken
    BY DEF SkipCheck, epoll_wait, TunDrained
  <2>9. ServerAccepts \/ ServerFails \/ ServerSends \/ ServerCloses
          => s' = s /\ tun' = tun /\ app' = app /\ taken' = taken
    BY DEF ServerAccepts, ServerFails, ServerSends, ServerCloses, Server
  <2> QED
    BY <2>2, <2>3, <2>4, <2>5, <2>6, <2>7, <2>8, <2>9
    DEF Next, handle_events, Environment, vars
<1> QED
  BY <1>1, <1>2, TypeCorrect, SocketInvInductive, ResetInvInductive, PTL DEF Spec

\* tcp.c:266-318: whatever is lost, sent again, queued and forwarded in part,
\* send() is given a prefix of the app's stream.
THEOREM StreamInOrder == ASSUME StreamFits PROVE Spec => []ForwardedInOrder
<1>1. UpInv => ForwardedInOrder
  BY DEF UpInv, SessionOK, ForwardedInOrder
<1> QED
  BY <1>1, UpInvInductive, PTL

\* tcp.c:346, 728, 738: no packet to the app acknowledges what it has not sent.
THEOREM AcksAreOfSent == ASSUME StreamFits PROVE Spec => []NoAckOfUnsent
<1>1. UpInv => NoAckOfUnsent
  BY DEF UpInv, AppOK, NoAckOfUnsent
<1> QED
  BY <1>1, UpInvInductive, PTL

\* How far a number is ahead of an offset, when it is two at most.
LEMMA DistanceLess ==
  ASSUME NEW i \in SeqNums, NEW r \in SeqNums, NEW n \in Nat, n < Mod,
         (r - i) % Mod >= n
  PROVE  (r - i - n) % Mod = ((r - i) % Mod) - n
BY ModWithin, ModAbove, ModBelow, HalfAssumption DEF SeqNums, Mod

\* tcp.c:253, 344, 727, 737: remote_seq is where the app's stream has been sent
\* to, with the SYN and the FIN counted once each.
THEOREM CountedOnce == ASSUME StreamFits PROVE Spec => []SynAndFinCountedOnce
<1>1. TypeOK /\ UpInv => SynAndFinCountedOnce
  <2> SUFFICES ASSUME TypeOK, UpInv, s.state # "NONE"
               PROVE  SynAndFinCountedOnce
    BY DEF SynAndFinCountedOnce
  <2> DEFINE k == Offset(app, s.remote_seq)
             next == taken.next
  <2>1. CountOK(app, s, k, next) /\ s.remote_start = app.iss
    BY DEF UpInv, SessionOK
  <2>2. /\ s.remote_seq \in SeqNums /\ app.iss \in SeqNums /\ app \in AppEnd
        /\ next \in Nat /\ AppBytes \in Nat /\ Mod \in Nat
    BY TcpAssumption, HalfAssumption DEF TypeOK, Session, AppEnd, History, Mod
  <2>3. k \in Nat
    BY <2>2, OffsetType, SeqNumsAreNat
  <2>4. next >= 1 /\ next - 1 \in Nat /\ next - 1 < Mod /\ k >= next - 1
    <3>1. next >= 1 /\ next <= AppBytes + 1 /\ k \in {next - 1, next, next + 1}
      BY <2>1 DEF CountOK
    <3>2. AppBytes + 2 < Mod
      BY DEF StreamFits
    <3> QED
      BY <2>2, <2>3, <3>1, <3>2
  <2>5. Confirmed = k - (next - 1)
    BY <2>1, <2>2, <2>4, DistanceLess DEF Confirmed, Offset
  <2> HIDE DEF k, next
  <2> QED
    BY <2>1, <2>2, <2>3, <2>4, <2>5 DEF CountOK, SynAndFinCountedOnce
<1> QED
  BY <1>1, TypeCorrect, UpInvInductive, PTL

-----------------------------------------------------------------------------
(* The session does what TcpLifecycle promises, step by step               *)

\* What TcpLifecycle says without its fairness.
LifecycleSafety == Lifecycle!Init /\ [][Lifecycle!Next]_(Lifecycle!vars)

\* Before the app's ACK nothing is forwarded: no OUT was asked for, or the
\* event it was reported with is handled.
HandshakeInv ==
  s.state = "SYN_RECV" => /\ pc \in {"check", "wait"} => "OUT" \notin s.events
                          /\ Pending(batch) => "OUT" \notin mask

\* tcp.c:99-143: monitoring asks a session in SYN_RECV for nothing but errors.
LEMMA MonitorHandshake ==
  ASSUME TypeOK, SocketMatchesState, monitor_tcp_session, s'.state = "SYN_RECV"
  PROVE  "OUT" \notin s'.events
<1>1. s \in Session
  BY DEF TypeOK
<1>2. CASE ~s.socket
  BY <1>2 DEF monitor_tcp_session, SocketMatchesState
<1>3. CASE s.socket
  <2>1. PICK room \in BOOLEAN, set \in BOOLEAN, probe \in BOOLEAN, ok \in Results :
          s' = [(IF probe THEN Written(s, ok) ELSE s)
                  EXCEPT !.events = Wanted(s, room),
                         !.state = IF Wanted(s, room) # s.events /\ ~set
                                   THEN "CLOSING" ELSE @]
    BY <1>3 DEF monitor_tcp_session
  <2> DEFINE x == IF probe THEN Written(s, ok) ELSE s
  <2>2. x \in Session /\ x.state \in {s.state, "CLOSING"}
    BY <1>1 DEF Written, Session, States
  <2>3. s' = [x EXCEPT !.events = Wanted(s, room),
                       !.state = IF Wanted(s, room) # s.events /\ ~set
                                 THEN "CLOSING" ELSE @]
    BY <2>1
  <2> HIDE DEF x
  <2>4. s'.events = Wanted(s, room) /\ s'.state \in {x.state, "CLOSING"}
    BY <2>2, <2>3 DEF Session
  <2>5. s.state = "SYN_RECV"
    BY <2>2, <2>4
  <2>6. Wanted(s, room) = {"ERR"}
    BY <2>5 DEF Wanted, Transferring
  <2> QED
    BY <2>4, <2>6
<1> QED
  BY <1>2, <1>3

\* tcp.c:37-97: a check frees the session, closes it, or leaves it alone.
LEMMA CheckShape ==
  ASSUME TypeOK, SocketMatchesState, NEW expired \in BOOLEAN, check_tcp_session(expired)
  PROVE  /\ taken' = taken
         /\ \/ s' = s
            \/ s.state = "CLOSE" /\ s'.state = "NONE" /\ s'.socket = s.socket
            \/ /\ s.state \notin {"NONE", "CLOSE"}
               /\ s'.state = "CLOSE" /\ s'.socket = FALSE
<1> DEFINE x == TimedOut(s, expired)
<1>1. s \in Session /\ s.state # "NONE" /\ taken' = taken
  BY DEF TypeOK, check_tcp_session
<1>2. \/ s.state = "CLOSE" /\ s' = NoSession
      \/ s' = SocketClosed(x)
  BY DEF check_tcp_session
<1>3. CASE s.state = "CLOSE" /\ s' = NoSession
  BY <1>1, <1>3 DEF NoSession, SocketMatchesState, Session
<1>4. CASE s' = SocketClosed(x) /\ x = s
  <2>1. CASE s.state = "CLOSING"
    <3>1. s'.state = "CLOSE" /\ s'.socket = FALSE
      BY <1>1, <1>4, <2>1 DEF SocketClosed, Session
    <3> QED
      BY <1>1, <2>1, <3>1
  <2>2. CASE s.state # "CLOSING"
    BY <1>1, <1>4, <2>2 DEF SocketClosed
  <2> QED
    BY <2>1, <2>2
<1>5. CASE s' = SocketClosed(x) /\ x # s
  <2>1. Live(s) /\ x \in {[s EXCEPT !.state = "CLOSING"], write_rst(s)}
    BY <1>5 DEF TimedOut
  <2>2. [s EXCEPT !.state = "CLOSING"] \in Session /\ write_rst(s) \in Session
    BY <1>1, WriteRstType DEF Session, States
  <2>3. /\ [s EXCEPT !.state = "CLOSING"].state = "CLOSING"
        /\ write_rst(s).state = "CLOSING"
    BY <1>1, <2>1 DEF write_rst, Session, Live
  <2>4. x \in Session /\ x.state = "CLOSING"
    BY <2>1, <2>2, <2>3
  <2> HIDE DEF x
  <2>5. s'.state = "CLOSE" /\ s'.socket = FALSE
    BY <1>5, <2>4 DEF SocketClosed, Session
  <2> QED
    BY <1>1, <2>1, <2>5 DEF Live
<1> QED
  BY <1>1, <1>2, <1>3, <1>4, <1>5

\* Bytes forwarded move the end of what was sent on.
LEMMA TakenGrows ==
  ASSUME StreamFits, NEW a \in AppEnd, NEW x \in Session, NEW h \in History,
         SessionOK(a, x, h), x.state # "NONE",
         NEW n \in 0 .. Len(x.forward), NEW part \in Nat, Forwardable(x, n),
         part > 0 => n < Len(x.forward) /\ Forwardable(x, n + 1),
         NEW lost \in BOOLEAN
  PROVE  Taken(h, x, n, part, lost).next >= h.next
<1> DEFINE q == x.forward
           m == IF part = 0 THEN n ELSE n + 1
<1>1. q \in Seq(Segment) /\ Len(q) \in Nat /\ n \in Nat /\ m \in Nat /\ m <= Len(q)
  BY LenProperties DEF Session
<1>2. CASE m = 0
  BY <1>2 DEF Taken, History
<1>3. CASE m # 0
  <2>1. m \in 1 .. Len(q) /\ Forwardable(x, m)
    BY <1>1, <1>3
  <2>2. \A i \in 1 .. m : /\ q[i].data \in Nat /\ q[i].sent \in Nat /\ q[i].len \in Nat
                          /\ q[i].sent < q[i].len
    <3> SUFFICES ASSUME NEW i \in 1 .. m
                 PROVE  /\ q[i].data \in Nat /\ q[i].sent \in Nat /\ q[i].len \in Nat
                        /\ q[i].sent < q[i].len
      OBVIOUS
    <3>1. i \in 1 .. Len(q)
      BY <1>1
    <3>2. q[i] \in Segment /\ SegmentOK(a, q[i], Counted(a, x, h))
      BY <1>1, <3>1, ElementOfSeq DEF SessionOK, QueueOK
    <3> QED
      BY <3>2 DEF Segment, SegmentOK
  <2>3. /\ q[1].data + q[1].sent = h.next
        /\ \A i \in 2 .. m : q[i].data + q[i].sent = q[i - 1].data + q[i - 1].len
    BY <2>1, ForwardableOK
  <2>4. h.next \in Nat
    BY DEF History
  <2> HIDE DEF q, m
  <2>5. \A i \in 1 .. m : q[i].data + q[i].sent >= h.next
    <3> DEFINE T == {i \in 1 .. m : q[i].data + q[i].sent < h.next}
    <3>1. SUFFICES ASSUME T # {} PROVE FALSE
      BY <2>2, <2>4
    <3>2. T \subseteq Nat
      BY <1>1
    <3>3. PICK i \in T : \A j \in T : i <= j
      BY <3>1, <3>2, LeastNat
    <3>4. i \in 1 .. m /\ q[i].data + q[i].sent < h.next
      OBVIOUS
    <3>5. i # 1
      BY <2>3, <2>4, <3>4
    <3>6. i \in 2 .. m /\ i - 1 \in 1 .. m
      BY <1>1, <3>4, <3>5
    <3>7. q[i - 1].data + q[i - 1].len < h.next
      BY <2>3, <3>4, <3>6
    <3>8. q[i - 1].data + q[i - 1].sent < h.next
      <4>1. /\ q[i - 1].data \in Nat /\ q[i - 1].sent \in Nat /\ q[i - 1].len \in Nat
            /\ q[i - 1].sent < q[i - 1].len
        BY <2>2, <3>6
      <4> QED
        BY <2>4, <3>7, <4>1
    <3>9. i - 1 \in T
      BY <3>6, <3>8
    <3>10. i <= i - 1
      BY <3>3, <3>9
    <3> QED
      BY <3>6, <3>10
  <2>6. m \in 1 .. m
    BY <2>1, <1>1
  <2>7. /\ q[m].data + q[m].len >= h.next
        /\ q[m].data + (q[m].sent + part) >= h.next
    BY <2>2, <2>4, <2>5, <2>6
  <2>8. Taken(h, x, n, part, lost).next
          = q[m].data + (IF m <= n THEN q[m].len ELSE q[m].sent + part)
    BY <1>1, <1>3 DEF Taken, Chunk, q, m
  <2> QED
    BY <2>7, <2>8
<1> QED
  BY <1>2, <1>3

\* tcp.c:196-421: what an event of the socket does to its session, whichever way
\* it ends.
LEMMA TransfersEnds ==
  ASSUME TypeOK, SocketTransfers
  PROVE  \/ s'.socket = s.socket /\ s'.state \in {s.state, "CLOSING"}
         \/ /\ s'.socket = FALSE /\ s'.state \in {"FIN_WAIT1", "LAST_ACK", "CLOSING"}
            /\ s.state \in {"ESTABLISHED", "CLOSE_WAIT"}
<1>1. \A x \in Session :
        /\ write_rst(x).socket = x.socket
        /\ write_rst(x).state = IF x.state = "CLOSE" THEN "CLOSE" ELSE "CLOSING"
        /\ Written(x, FALSE).socket = x.socket
        /\ Written(x, FALSE).state = "CLOSING"
  BY DEF write_rst, Written, Session
<1>2. PICK x \in Session, out \in Seq(Reply), r \in RemoteEnd :
        /\ x.state \in {s.state, "CLOSING"} /\ x.socket = s.socket
        /\ \/ ReadsNothing(x, out, r) \/ ReadFails(x, out, r)
           \/ ReadsEof(x, out, r) \/ ReadsData(x, out, r)
  BY TransfersShape
<1>3. CASE ReadsNothing(x, out, r)
  BY <1>2, <1>3 DEF ReadsNothing, OnSocketEvent
<1>4. CASE ReadFails(x, out, r)
  <2>1. s' = write_rst(x) /\ x.state # "CLOSE"
    BY <1>4 DEF ReadFails, OnSocketEvent, MayRead, Transferring
  <2> QED
    BY <1>1, <1>2, <2>1
<1>5. CASE ReadsEof(x, out, r)
  <2> DEFINE y == [x EXCEPT !.socket = FALSE]
             z == [y EXCEPT !.local_seq = SeqAdd(@, 1),
                            !.state = IF @ = "ESTABLISHED" THEN "FIN_WAIT1"
                                                           ELSE "LAST_ACK"]
  <2>1. y \in Session /\ y.socket = FALSE /\ y.state = x.state
    BY DEF Session
  <2>2. s' \in {z, Written(y, FALSE), write_rst(y)}
    BY <1>5 DEF ReadsEof, OnSocketEvent
  <2>3. z.socket = FALSE /\ z.state \in {"FIN_WAIT1", "LAST_ACK"}
    <3> HIDE DEF y
    <3> QED
      BY <2>1 DEF Session
  <2>4. x.state \in {"ESTABLISHED", "CLOSE_WAIT"}
    BY <1>5 DEF ReadsEof, MayRead, Transferring
  <2> HIDE DEF y, z
  <2>5. /\ write_rst(y).socket = FALSE /\ write_rst(y).state = "CLOSING"
        /\ Written(y, FALSE).socket = FALSE /\ Written(y, FALSE).state = "CLOSING"
    BY <1>1, <2>1, <2>4
  <2>6. s'.socket = FALSE /\ s'.state \in {"FIN_WAIT1", "LAST_ACK", "CLOSING"}
    BY <2>2, <2>3, <2>5
  <2> QED
    BY <1>2, <2>4, <2>6
<1>6. CASE ReadsData(x, out, r)
  <2>1. s'.socket = x.socket /\ s'.state \in {x.state, "CLOSING"}
    BY <1>6 DEF ReadsData, OnSocketEvent, Written, Session
  <2> QED
    BY <1>2, <2>1
<1> QED
  BY <1>2, <1>3, <1>4, <1>5, <1>6

\* tcp.c:261-347: forwarding gives send() more of the stream, at most all of it,
\* and nothing before the handshake is complete.
LEMMA TransfersRelay ==
  ASSUME StreamFits, TypeOK, HandshakeInv, UpInv, UpInv', Pending(batch),
         s.state # "NONE", s'.state # "NONE", SocketTransfers
  PROVE  /\ taken'.next \in Nat /\ taken.next \in Nat
         /\ taken'.next >= taken.next /\ taken'.next <= AppBytes + 1
         /\ s.state = "SYN_RECV" => taken' = taken
<1>1. PICK c \in ForwardChoices :
        taken' = Taken(taken, s, c.n, c.part, c.lost /\ remote.st = "up")
  BY DEF SocketTransfers
<1>2. /\ s \in Session /\ taken \in History /\ app \in AppEnd
      /\ SessionOK(app, s, taken) /\ Len(s.forward) \in Nat
  BY LenProperties DEF TypeOK, UpInv, Session
<1>3. /\ c \in [n : 0 .. Len(s.forward), part : 0 .. AppBytes, lost : BOOLEAN]
      /\ Forwardable(s, c.n)
      /\ c.part > 0 => Forwardable(s, c.n + 1)
      /\ c.n > 0 \/ c.part > 0 => "OUT" \in mask
  BY DEF ForwardChoices
<1>4. c.n \in 0 .. Len(s.forward) /\ c.part \in Nat /\ c.lost \in BOOLEAN
  BY <1>3, TcpAssumption
<1>5. c.part > 0 => c.n < Len(s.forward) /\ Forwardable(s, c.n + 1)
  BY <1>2, <1>3, <1>4 DEF Forwardable
<1>6. (c.lost /\ remote.st = "up") \in BOOLEAN
  BY <1>4
<1>7. taken'.next >= taken.next
  BY <1>1, <1>2, <1>3, <1>4, <1>5, <1>6, TakenGrows
<1>8. taken' \in History
  BY TransfersShape
<1>9. taken'.next <= AppBytes + 1
  BY DEF UpInv, SessionOK, CountOK
<1>10. s.state = "SYN_RECV" => taken' = taken
  <2> SUFFICES ASSUME s.state = "SYN_RECV" PROVE taken' = taken
    OBVIOUS
  <2>1. "OUT" \notin mask
    BY DEF HandshakeInv
  <2>2. c.n = 0 /\ c.part = 0
    BY <1>2, <1>3, <1>4, <2>1
  <2> QED
    BY <1>1, <2>2 DEF Taken
<1> QED
  BY <1>2, <1>7, <1>8, <1>9, <1>10 DEF History

\* tcp.c:99-143, 237-265: no step lets a session that waits for the app's ACK
\* hear that its socket takes data.
LEMMA HandshakeStep ==
  ASSUME TypeOK, SocketInv, HandshakeInv, [Next]_vars
  PROVE  HandshakeInv'
<1>1. SocketMatchesState /\ s \in Session /\ batch \in Batches
  BY DEF SocketInv, TypeOK
<1> SUFFICES ASSUME s'.state = "SYN_RECV"
             PROVE  /\ pc' \in {"check", "wait"} => "OUT" \notin s'.events
                    /\ Pending(batch)' => "OUT" \notin mask'
  BY DEF HandshakeInv
<1>2. CASE s' = s /\ pc' = pc /\ batch' = batch /\ mask' = mask
  BY <1>2 DEF HandshakeInv, Pending
<1>3. CASE monitor_tcp_session
  <2>1. "OUT" \notin s'.events
    BY <1>1, <1>3, MonitorHandshake
  <2>2. ~Pending(batch)'
    <3>1. batch' = <<>>
      BY <1>3 DEF monitor_tcp_session, SocketInv
    <3>2. Len(<<>>) = 0
      OBVIOUS
    <3> QED
      BY <3>1, <3>2 DEF Pending
  <2> QED
    BY <2>1, <2>2
<1>4. ASSUME NEW expired \in BOOLEAN, check_tcp_session(expired)
      PROVE  /\ pc' \in {"check", "wait"} => "OUT" \notin s'.events
             /\ Pending(batch)' => "OUT" \notin mask'
  <2>1. s' = s
    BY <1>1, <1>4, CheckShape
  <2>2. pc = "check" /\ batch' = batch /\ mask' = mask
    BY <1>4 DEF check_tcp_session
  <2> QED
    BY <2>1, <2>2 DEF HandshakeInv, Pending
<1>5. CASE handle_tcp
  <2>1. s.state = "SYN_RECV"
    BY <1>5, HandleTcpShape
  <2>2. pc' = "batch" /\ batch' = batch /\ mask' = mask
    BY <1>5 DEF handle_tcp, NewSession, UnknownSession, WasClosed, DataAfterClose,
       ReceivedReset, RepeatedSyn, FinBehindQueue, FinConfirmed, FinIgnored, AckAll,
       AckOther, Handles
  <2> QED
    BY <2>1, <2>2 DEF HandshakeInv, Pending
<1>6. CASE check_tcp_socket
  <2>1. batch # <<>> /\ Head(batch) = "sock" /\ NextEvent
    BY <1>6, EventIsHandled
  <2>2. ~Pending(batch)' /\ pc' \notin {"check", "wait"}
    BY <2>1, NextEventSocket DEF NextEvent
  <2> QED
    BY <2>2
<1>7. CASE SkipCheck
  BY <1>7 DEF SkipCheck, HandshakeInv, Pending
<1>8. CASE epoll_wait
  <2>1. s' = s /\ pc = "wait"
    BY <1>8 DEF epoll_wait
  <2>2. "OUT" \notin s.events
    BY <2>1 DEF HandshakeInv
  <2>3. pc' \notin {"check", "wait"}
    BY <1>8 DEF epoll_wait
  <2>4. CASE batch' = batch
    <3>1. batch = <<>>
      BY <2>1 DEF SocketInv
    <3>2. Len(<<>>) = 0
      OBVIOUS
    <3> QED
      BY <2>3, <2>4, <3>1, <3>2 DEF Pending
  <2>5. CASE batch' # batch
    <3>1. PICK writable \in BOOLEAN : mask' \in {{}, Reported(writable)}
      BY <1>8, <2>5 DEF epoll_wait
    <3>2. "OUT" \notin mask'
      BY <2>2, <3>1 DEF Reported
    <3> QED
      BY <2>3, <3>2
  <2> QED
    BY <2>4, <2>5
<1>9. CASE TunDrained
  <2>1. s' = s /\ mask' = mask /\ batch # <<>> /\ Head(batch) = "tun" /\ NextEvent
    BY <1>9 DEF TunDrained
  <2>2. (Pending(batch)' => Pending(batch)) /\ pc' \notin {"check", "wait"}
    BY <2>1, NextEventSocket DEF NextEvent
  <2> QED
    BY <2>1, <2>2 DEF HandshakeInv
<1>10. Environment => s' = s /\ pc' = pc /\ batch' = batch /\ mask' = mask
  BY DEF Environment, AppConnects, AppSends, AppAborts, ServerAccepts, ServerFails,
     ServerSends, ServerCloses, Server, Post
<1> QED
  BY <1>2, <1>3, <1>4, <1>5, <1>6, <1>7, <1>8, <1>9, <1>10
  DEF Next, handle_events, vars

\* Every step is one of TcpLifecycle's, or changes none of its variables.
LEMMA LifecycleStep ==
  ASSUME StreamFits, TypeOK, SocketInv, HandshakeInv, UpInv, UpInv', Next
  PROVE  Lifecycle!Next \/ UNCHANGED <<Phase, s.socket, taken.next>>
<1>1. /\ SocketMatchesState /\ s \in Session /\ s.state \in States
      /\ s.socket \in BOOLEAN /\ batch \in Batches
  BY DEF SocketInv, TypeOK, Session
<1>2. CASE s' = s /\ taken' = taken
  BY <1>2 DEF Phase
\* A session that fails, or is reset.
<1>3. ASSUME s'.socket = s.socket, taken' = taken, s'.state = "CLOSING",
             s.state \notin {"NONE", "CLOSE"}
      PROVE  Lifecycle!Next \/ UNCHANGED <<Phase, s.socket, taken.next>>
  <2>1. Phase' = "ending" /\ Phase \in {"opening", "open", "halfclosed", "ending"}
    BY <1>1, <1>3 DEF Phase, States
  <2>2. taken.next \in Nat
    BY DEF TypeOK, History
  <2>3. Phase # "ending" => Lifecycle!End
    <3>1. taken'.next \in taken.next .. (IF s.socket THEN AppBytes + 1 ELSE taken.next)
      <4>1. s.state \notin {"NONE"}
        BY <1>3
      <4>2. taken.next <= AppBytes + 1
        BY <4>1 DEF UpInv, SessionOK, CountOK
      <4> QED
        BY <1>3, <2>2, <4>2, TcpAssumption
    <3> QED
      BY <1>3, <2>1, <3>1 DEF Lifecycle!End, Lifecycle!Live
  <2> QED
    BY <1>3, <2>1, <2>3 DEF Lifecycle!Next
<1>4. CASE monitor_tcp_session
  <2>1. taken' = taken /\ (s' = s \/ (s.socket /\ s'.socket = s.socket
                                        /\ s'.state \in {s.state, "CLOSING"}))
    BY <1>4, MonitorShape DEF monitor_tcp_session
  <2>2. CASE s'.socket = s.socket /\ s'.state = s.state
    BY <2>1, <2>2 DEF Phase
  <2>3. CASE s.socket /\ s'.socket = s.socket /\ s'.state = "CLOSING"
    <3>1. s.state \notin {"NONE", "CLOSE"}
      BY <1>1, <2>3 DEF SocketMatchesState
    <3> QED
      BY <1>3, <2>1, <2>3, <3>1
  <2> QED
    BY <2>1, <2>2, <2>3
<1>5. ASSUME NEW expired \in BOOLEAN, check_tcp_session(expired)
      PROVE  Lifecycle!Next \/ UNCHANGED <<Phase, s.socket, taken.next>>
  <2>1. /\ taken' = taken
        /\ \/ s' = s
           \/ s.state = "CLOSE" /\ s'.state = "NONE" /\ s'.socket = s.socket
           \/ /\ s.state \notin {"NONE", "CLOSE"}
              /\ s'.state = "CLOSE" /\ s'.socket = FALSE
    BY <1>1, <1>5, CheckShape
  <2>2. CASE s.state = "CLOSE" /\ s'.state = "NONE" /\ s'.socket = s.socket
    <3>1. Phase = "lingering" /\ Phase' = "free"
      BY <2>2 DEF Phase
    <3> QED
      BY <2>1, <2>2, <3>1 DEF Lifecycle!Next, Lifecycle!Free
  <2>3. CASE /\ s.state \notin {"NONE", "CLOSE"}
             /\ s'.state = "CLOSE" /\ s'.socket = FALSE
    <3>1. Phase' = "lingering" /\ Phase \in {"opening", "open", "halfclosed", "ending"}
      BY <1>1, <2>3 DEF Phase, States
    <3> QED
      BY <2>1, <2>3, <3>1 DEF Lifecycle!Next, Lifecycle!Close, Lifecycle!Live
  <2> QED
    BY <1>2, <2>1, <2>2, <2>3
<1>6. CASE handle_tcp
  <2>1. CASE /\ s.state = "NONE" /\ s'.state = "NONE" /\ taken' = taken
             /\ s'.socket \in {FALSE, s.socket}
    BY <1>1, <2>1 DEF Phase, SocketMatchesState
  <2>2. CASE s.state = "NONE" /\ s'.state = "LISTEN" /\ s'.socket /\ taken'.next = 1
    <3>1. Phase = "free" /\ Phase' = "opening"
      BY <2>2 DEF Phase
    <3>2. s'.socket = TRUE
      <4>1. s' \in Session
        BY <1>6, HandleTcpType DEF TypeOK
      <4> QED
        BY <2>2, <4>1 DEF Session
    <3> QED
      BY <2>2, <3>1, <3>2 DEF Lifecycle!Next, Lifecycle!Open
  <2>3. CASE /\ s.state # "NONE" /\ s'.socket = s.socket /\ taken' = taken
             /\ s'.state = s.state
    BY <2>3 DEF Phase
  <2>4. CASE /\ s.state # "NONE" /\ s'.socket = s.socket /\ taken' = taken
             /\ s.state # "CLOSE" /\ s'.state = "CLOSING"
    BY <1>3, <2>4
  <2>5. CASE /\ s'.socket = s.socket /\ taken' = taken
             /\ s.state = "ESTABLISHED" /\ s'.state = "CLOSE_WAIT"
    BY <2>5 DEF Phase
  <2>6. CASE /\ s'.socket = s.socket /\ taken' = taken
             /\ s.state = "FIN_WAIT1" /\ s'.state = "CLOSE"
    <3>1. Phase = "halfclosed" /\ Phase' = "lingering" /\ s.socket = FALSE
      BY <1>1, <2>6 DEF Phase, SocketMatchesState
    <3> QED
      BY <2>6, <3>1 DEF Lifecycle!Next, Lifecycle!Close, Lifecycle!Live
  <2>7. CASE /\ s'.socket = s.socket /\ taken' = taken
             /\ s.state = "SYN_RECV" /\ s'.state = "ESTABLISHED"
    <3>1. Phase = "opening" /\ Phase' = "open"
      BY <2>7 DEF Phase
    <3> QED
      BY <2>7, <3>1 DEF Lifecycle!Next, Lifecycle!Establish
  <2> QED
    BY <1>6, <2>1, <2>2, <2>3, <2>4, <2>5, <2>6, <2>7, HandleTcpShape
<1>7. CASE check_tcp_socket
  <2>1. /\ batch # <<>> /\ Head(batch) = "sock" /\ Pending(batch)
        /\ s.state # "NONE" /\ s.socket
    BY <1>1, <1>7, EventIsHandled, PendingTail DEF SocketInv
  <2>2. s.state \notin {"NONE", "FIN_WAIT1", "LAST_ACK", "CLOSE"}
    BY <1>1, <2>1 DEF SocketMatchesState
  <2>3. CASE SocketError
    <3>1. s' = write_rst(s) /\ taken' = taken
      BY <2>3 DEF SocketError, OnSocketEvent
    <3>2. s'.state = "CLOSING" /\ s'.socket = s.socket
      BY <1>1, <2>2, <3>1 DEF write_rst, Session
    <3> QED
      BY <1>3, <2>2, <3>1, <3>2
  <2>4. CASE SocketConnected
    <3>1. [s EXCEPT !.remote_seq = SeqAdd(@, 1)] \in Session
      BY <1>1, NextSeqNumType DEF Session
    <3>2. s'.socket = s.socket /\ s'.state \in {"SYN_RECV", "CLOSING"}
      BY <1>1, <2>4, <3>1 DEF SocketConnected, OnSocketEvent, Written, Session
    <3>3. s.state = "LISTEN" /\ taken' = taken
      BY <2>4 DEF SocketConnected
    <3>4. CASE s'.state = "SYN_RECV"
      BY <3>2, <3>3, <3>4 DEF Phase
    <3> QED
      BY <1>3, <2>2, <3>2, <3>3, <3>4
  <2>5. CASE SocketTransfers
    <3>1. s.state \in {"SYN_RECV", "ESTABLISHED", "CLOSE_WAIT", "CLOSING"}
      BY <1>1, <2>2, <2>5 DEF SocketTransfers, States
    <3>2. \/ s'.socket = s.socket /\ s'.state \in {s.state, "CLOSING"}
          \/ /\ s'.socket = FALSE /\ s'.state \in {"FIN_WAIT1", "LAST_ACK", "CLOSING"}
             /\ s.state \in {"ESTABLISHED", "CLOSE_WAIT"}
      BY <2>5, TransfersEnds
    <3>3. /\ taken'.next \in Nat /\ taken.next \in Nat /\ AppBytes \in Nat
          /\ taken'.next >= taken.next /\ taken'.next <= AppBytes + 1
          /\ s.state = "SYN_RECV" => taken' = taken
      BY <2>1, <2>5, <3>1, <3>2, TransfersRelay, TcpAssumption
    <3>4. s.socket = TRUE
      BY <1>1, <2>1
    <3>5. CASE s'.socket = s.socket /\ s'.state = s.state
      <4>1. Phase' = Phase
        BY <3>5 DEF Phase
      <4>2. CASE taken'.next = taken.next
        BY <3>5, <4>1, <4>2
      <4>3. CASE taken'.next # taken.next
        <5>1. s.state # "SYN_RECV"
          BY <3>3, <4>3
        <5>2. Phase \in {"open", "ending"}
          BY <3>1, <5>1 DEF Phase
        <5>3. taken'.next \in taken.next + 1 .. AppBytes + 1
          BY <3>3, <4>3
        <5> QED
          BY <3>4, <3>5, <4>1, <5>2, <5>3 DEF Lifecycle!Next, Lifecycle!Relay
      <4> QED
        BY <4>2, <4>3
    <3>6. CASE s'.state = "CLOSING" /\ s.state # "CLOSING"
      <4>1. Phase' = "ending" /\ Phase \in {"opening", "open"}
        BY <3>1, <3>6 DEF Phase
      <4>2. s'.socket \in {s.socket, FALSE}
        BY <3>2
      <4>3. taken'.next \in taken.next .. AppBytes + 1
        BY <3>3
      <4> QED
        BY <3>4, <4>1, <4>2, <4>3 DEF Lifecycle!Next, Lifecycle!End, Lifecycle!Live
    <3>7. CASE s'.socket = FALSE /\ s'.state \in {"FIN_WAIT1", "LAST_ACK"}
               /\ s.state \in {"ESTABLISHED", "CLOSE_WAIT"}
      <4>1. Phase = "open" /\ Phase' = "halfclosed"
        BY <3>7 DEF Phase
      <4>2. taken'.next \in taken.next .. AppBytes + 1
        BY <3>3
      <4> QED
        BY <3>4, <3>7, <4>1, <4>2 DEF Lifecycle!Next, Lifecycle!EndOfServer
    <3> QED
      BY <3>2, <3>5, <3>6, <3>7
  <2> QED
    BY <1>7, <2>3, <2>4, <2>5 DEF check_tcp_socket
<1>8. SkipCheck \/ epoll_wait \/ TunDrained \/ Environment => s' = s /\ taken' = taken
  BY DEF SkipCheck, epoll_wait, TunDrained, Environment, AppConnects, AppSends,
       AppAborts, ServerAccepts, ServerFails, ServerSends, ServerCloses, Server, Post
<1> QED
  BY <1>2, <1>4, <1>5, <1>6, <1>7, <1>8 DEF Next, handle_events

\* tcp.c, session.c: whatever packets are lost, events reported and writes
\* refused, the session takes only the steps TcpLifecycle allows: one socket,
\* given back once, bytes passed on only with it and never beyond the end of
\* its stream, and an end that is never undone.
THEOREM LifecycleImplemented == ASSUME StreamFits PROVE Spec => LifecycleSafety
<1>1. Init => Lifecycle!Init
  BY DEF Init, NoSession, Lifecycle!Init, Phase
<1>2. Init => HandshakeInv
  BY DEF Init, NoSession, HandshakeInv
<1>3. TypeOK /\ SocketInv /\ HandshakeInv /\ [Next]_vars => HandshakeInv'
  BY HandshakeStep
<1>4. TypeOK /\ SocketInv /\ HandshakeInv /\ UpInv /\ UpInv' /\ [Next]_vars
        => [Lifecycle!Next]_(Lifecycle!vars)
  <2> SUFFICES ASSUME TypeOK, SocketInv, HandshakeInv, UpInv, UpInv', [Next]_vars
               PROVE  Lifecycle!Next \/ UNCHANGED <<Phase, s.socket, taken.next>>
    BY DEF Lifecycle!vars
  <2>1. CASE UNCHANGED vars
    BY <2>1 DEF vars, Phase
  <2> QED
    BY <2>1, LifecycleStep
<1> QED
  BY <1>1, <1>2, <1>3, <1>4, TypeCorrect, SocketInvInductive, UpInvInductive, PTL
  DEF Spec, LifecycleSafety
=============================================================================
