-------------------------- MODULE TcpSessionProofs --------------------------
(***************************************************************************)
(* Type correctness of TcpSession, and on top of it the two facts about    *)
(* the session's socket, for every number space, every stream length and   *)
(* every set of windows.                                                   *)
(***************************************************************************)
EXTENDS TcpSession, SequenceTheorems, WellFoundedInduction, TLAPS

\* A packet of the VPN as write_tcp builds it.
Reply == [flags : SUBSET Flags, len : Nat, seq : SeqNums, ack_seq : SeqNums]

-----------------------------------------------------------------------------
(* Operators *)

\* A uint32_t sum is a sequence number.
LEMMA SeqAddType ==
  ASSUME NEW a \in Int, NEW n \in Int
  PROVE  SeqAdd(a, n) \in SeqNums
BY HalfAssumption DEF SeqAdd, SeqNums, Mod

LEMMA SeqNumsAreNat ==
  0 \in SeqNums /\ \A n \in SeqNums : n \in Nat /\ n \in Int
BY HalfAssumption DEF SeqNums, Mod

\* The remainder of a number in the space, just above it and just below it.
LEMMA ModWithin == \A n \in 0 .. Mod - 1 : n % Mod = n
BY HalfAssumption DEF Mod

LEMMA ModAbove == \A n \in Mod .. 2 * Mod - 1 : n % Mod = n - Mod
BY HalfAssumption DEF Mod

LEMMA ModBelow == \A n \in -Mod .. -1 : n % Mod = n + Mod
BY HalfAssumption DEF Mod

\* The distance from i grows with the number until the number space is used up.
LEMMA DistanceAdd ==
  ASSUME NEW i \in SeqNums, NEW r \in SeqNums, NEW n \in Nat,
         ((r - i) % Mod) + n < Mod
  PROVE  (SeqAdd(r, n) - i) % Mod = ((r - i) % Mod) + n
BY ModWithin, ModAbove, ModBelow, HalfAssumption DEF SeqAdd, SeqNums, Mod

\* compare_u32 of two sequence numbers is an integer.
LEMMA CompareType ==
  ASSUME NEW a \in SeqNums, NEW b \in SeqNums
  PROVE  Compare(a, b) \in Int
BY DEF Compare, compare_u32

\* The send window is a number.
LEMMA SendWindowType ==
  ASSUME NEW x \in Session
  PROVE  SendWindow(x) \in Nat
<1> DEFINE behind == IF compare_u32(Wraps, x.acked, x.local_seq) <= 0
                     THEN (x.local_seq - x.acked) % Mod ELSE x.acked
<1>1. /\ x.acked \in SeqNums /\ x.local_seq \in SeqNums /\ x.send_window \in Nat
  BY DEF Session
<1>2. behind \in Nat
  BY <1>1, HalfAssumption DEF SeqNums, Mod
<1>3. SendWindow(x) = IF behind < x.send_window THEN x.send_window - behind ELSE 0
  BY DEF SendWindow, get_send_window
<1> HIDE DEF behind
<1> QED
  BY <1>1, <1>2, <1>3

\* A non-empty set of naturals has a least member.
LEMMA LeastNat ==
  ASSUME NEW T, T \subseteq Nat, T # {}
  PROVE  \E i \in T : \A j \in T : i <= j
<1>1. PICK i \in T : \A j \in T : ~(<<j, i>> \in OpToRel(<, Nat))
  BY NatLessThanWellFounded, WFMin
<1>2. ASSUME NEW j \in T PROVE i <= j
  <2>1. i \in Nat /\ j \in Nat
    OBVIOUS
  <2>2. ~(<<j, i>> \in OpToRel(<, Nat))
    BY <1>1
  <2>3. ~(j < i)
    BY <2>1, <2>2 DEF OpToRel
  <2> QED
    BY <2>1, <2>3
<1> QED
  BY <1>2

\* tcp.c:823-887: whatever is queued, the queue stays one of segments.
LEMMA QueueType ==
  ASSUME NEW x \in Session, NEW p \in Packet
  PROVE  queue_tcp(x, p) \in Seq(Segment)
<1> DEFINE q    == x.forward
           ends == {i \in 0 .. Len(q) : i = Len(q) \/ Compare(q[i + 1].seq, p.seq) >= 0}
           k    == CHOOSE i \in ends : \A j \in ends : i <= j
           new  == [seq |-> p.seq, len |-> p.len, sent |-> 0, data |-> p.data]
<1>1. q \in Seq(Segment) /\ Len(q) \in Nat
  BY LenProperties DEF Session
<1>2. new \in Segment
  BY DEF Packet, Segment
<1>3. ends \subseteq Nat /\ Len(q) \in ends
  BY <1>1
<1>4. k \in 0 .. Len(q)
  <2>1. \E i \in ends : \A j \in ends : i <= j
    BY <1>3, LeastNat
  <2>2. k \in ends
    BY <2>1
  <2> QED
    BY <2>2
<1>5. SubSeq(q, 1, k) \o <<new>> \o SubSeq(q, k + 1, Len(q)) \in Seq(Segment)
  <2> HIDE DEF q, k, new
  <2>1. SubSeq(q, 1, k) \in Seq(Segment) /\ SubSeq(q, k + 1, Len(q)) \in Seq(Segment)
    <3>1. \A i \in 1 .. k : q[i] \in Segment
      BY <1>1, <1>4, ElementOfSeq
    <3>2. \A i \in k + 1 .. Len(q) : q[i] \in Segment
      BY <1>1, <1>4, ElementOfSeq
    <3>3. 1 \in Int /\ k \in Int /\ k + 1 \in Int /\ Len(q) \in Int
      BY <1>1, <1>4
    <3> QED
      BY <3>1, <3>2, <3>3, SubSeqProperties
  <2>2. <<new>> \in Seq(Segment)
    BY <1>2
  <2> QED
    BY <2>1, <2>2, ConcatProperties
<1>6. ASSUME k < Len(q) PROVE [q EXCEPT ![k + 1].data = p.data] \in Seq(Segment)
  <2> HIDE DEF q, k
  <2>1. k + 1 \in 1 .. Len(q)
    BY <1>1, <1>4, <1>6
  <2>2. [q[k + 1] EXCEPT !.data = p.data] \in Segment
    <3>1. q[k + 1] \in Segment /\ p.data \in Nat
      BY <1>1, <2>1, ElementOfSeq DEF Packet
    <3>2. \A g \in Segment : [g EXCEPT !.data = p.data] \in Segment
      BY <3>1 DEF Segment
    <3> QED
      BY <3>1, <3>2
  <2>3. [q EXCEPT ![k + 1] = [q[k + 1] EXCEPT !.data = p.data]] \in Seq(Segment)
    BY <1>1, <2>1, <2>2, ExceptSeq
  <2> QED
    BY <2>3
<1> QED
  BY <1>1, <1>5, <1>6, Zenon DEF queue_tcp

\* The number after remote_seq and after local_seq.
LEMMA NextSeqNumType ==
  ASSUME NEW x \in Session
  PROVE  /\ SeqAdd(x.remote_seq, 1) \in SeqNums
         /\ SeqAdd(x.local_seq, 1) \in SeqNums
<1>1. x.remote_seq \in SeqNums /\ x.local_seq \in SeqNums
  BY DEF Session
<1>2. x.remote_seq \in Int /\ x.local_seq \in Int
  BY <1>1, SeqNumsAreNat
<1> QED
  BY <1>2, SeqAddType

\* tcp.c:986-1132: what is written is a packet with the session's numbers.
LEMMA WriteType ==
  ASSUME NEW x \in Session, NEW flags \in SUBSET Flags, NEW len \in Nat
  PROVE  write_tcp(x, flags, len) \in Reply
<1>1. x.local_seq \in SeqNums /\ x.remote_seq \in SeqNums /\ 0 \in SeqNums
  BY SeqNumsAreNat DEF Session
<1> QED
  BY <1>1 DEF write_tcp, Reply

LEMMA RstPacketType ==
  ASSUME NEW x \in Session
  PROVE  RstPacket(x) \in Reply
<1>2. [x EXCEPT !.remote_seq = SeqAdd(@, 1)] \in Session
  BY NextSeqNumType DEF Session
<1>3. {"RST", "ACK"} \in SUBSET Flags /\ {"RST"} \in SUBSET Flags
  BY DEF Flags
<1>4. \A flags \in SUBSET Flags :
        write_tcp([x EXCEPT !.remote_seq = SeqAdd(@, 1)], flags, 0) \in Reply
  BY <1>2, WriteType
<1> QED
  BY <1>3, <1>4 DEF RstPacket

LEMMA OutType ==
  ASSUME NEW ok \in BOOLEAN, NEW p \in Reply
  PROVE  Out(ok, p) \in Seq(Reply)
<1>1. <<p>> \in Seq(Reply) /\ <<>> \in Seq(Reply)
  OBVIOUS
<1> QED
  BY <1>1 DEF Out

\* tcp.c:941-984: a write leaves a session.
LEMMA WrittenType ==
  ASSUME NEW x \in Session, NEW ok \in BOOLEAN
  PROVE  Written(x, ok) \in Session
BY DEF Written, Session, States

LEMMA WriteRstType ==
  ASSUME NEW x \in Session
  PROVE  write_rst(x) \in Session
<1> QED
  BY NextSeqNumType DEF write_rst, Session, States

\* The app's end stays one whatever packet reaches it.
LEMMA AppReceiveType ==
  ASSUME NEW a \in AppEnd, NEW p \in Reply
  PROVE  AppReceive(a, p) \in AppEnd
<1> DEFINE irs == IF "SYN" \in p.flags THEN p.seq ELSE a.irs
           off == (p.seq - irs) % Mod
           ack == (p.ack_seq - a.iss) % Mod
           b   == [a EXCEPT !.faults = @ \cup FaultsOf(a, p, off, ack)]
           una == IF "ACK" \in p.flags /\ ack > a.una /\ ack <= a.nxt THEN ack ELSE a.una
           fin == IF "FIN" \in p.flags THEN 1 ELSE 0
<1>1. irs \in SeqNums /\ ack \in Nat /\ una \in Nat /\ fin \in Nat
  BY HalfAssumption DEF Reply, AppEnd, SeqNums, Mod
<1>2. b \in AppEnd
  <2>1. FaultsOf(a, p, off, ack) \in SUBSET Faults
    BY DEF FaultsOf
  <2> HIDE DEF off, ack
  <2> QED
    BY <2>1 DEF AppEnd
<1>3. a.rcv + p.len + fin \in Nat
  BY <1>1 DEF AppEnd, Reply
<1>4. /\ [b EXCEPT !.st = "reset"] \in AppEnd
      /\ [b EXCEPT !.st = "open", !.irs = irs, !.rcv = 1, !.una = una] \in AppEnd
      /\ [b EXCEPT !.una = una, !.rcv = @ + p.len + fin] \in AppEnd
      /\ [b EXCEPT !.una = una] \in AppEnd
  <2>1. b.rcv = a.rcv
    BY DEF AppEnd
  <2> HIDE DEF irs, una, fin, b
  <2> QED
    BY <1>1, <1>2, <1>3, <2>1 DEF AppEnd
<1> HIDE DEF off, ack
<1> QED
  BY <1>2, <1>4 DEF AppReceive, irs, off, ack, b, una, fin

\* So it does with all the packets of one step.
LEMMA DeliverType ==
  ASSUME NEW out \in Seq(Reply), app \in AppEnd, Deliver(out)
  PROVE  app' \in AppEnd
<1>1. Len(out) \in Nat /\ (Len(out) = 0 \/ Len(out) = 1 \/ Len(out) > 1)
  <2>1. Len(out) \in Nat
    BY LenProperties
  <2>2. \A n \in Nat : n = 0 \/ n = 1 \/ n > 1
    OBVIOUS
  <2> QED
    BY <2>1, <2>2
<1>2. CASE Len(out) = 0
  BY <1>2 DEF Deliver
<1>3. CASE Len(out) = 1
  <2>1. out[1] \in Reply
    BY <1>3, ElementOfSeq
  <2> QED
    BY <1>3, <2>1, AppReceiveType DEF Deliver
<1>4. CASE Len(out) > 1
  <2>1. out[1] \in Reply /\ out[2] \in Reply
    BY <1>1, <1>4, ElementOfSeq
  <2>2. AppReceive(app, out[1]) \in AppEnd
    BY <2>1, AppReceiveType
  <2>3. app' = AppReceive(AppReceive(app, out[1]), out[2])
    BY <1>1, <1>4 DEF Deliver
  <2> QED
    BY <2>1, <2>2, <2>3, AppReceiveType
<1> QED
  BY <1>1, <1>2, <1>3, <1>4

\* What is left of a batch is a batch, with the socket in it no second time.
LEMMA TailOfBatch ==
  ASSUME NEW b \in Batches, b # <<>>
  PROVE  /\ Tail(b) \in Batches
         /\ Head(b) = "sock" => Tail(b) \in {<<>>, <<"tun">>}
         /\ Head(b) = "tun" => Tail(b) \in {<<>>, <<"sock">>}
<1>1. /\ Tail(<<"tun">>) = <<>> /\ Tail(<<"sock">>) = <<>>
      /\ Tail(<<"tun", "sock">>) = <<"sock">> /\ Tail(<<"sock", "tun">>) = <<"tun">>
  OBVIOUS
<1>2. /\ Head(<<"tun">>) = "tun" /\ Head(<<"sock">>) = "sock"
      /\ Head(<<"tun", "sock">>) = "tun" /\ Head(<<"sock", "tun">>) = "sock"
  OBVIOUS
<1> QED
  BY <1>1, <1>2 DEF Batches

\* The numbers in and behind a segment.
LEMMA SegmentSeqType ==
  ASSUME NEW g \in Segment, NEW k \in Nat
  PROVE  SeqAdd(g.seq, g.sent + k) \in SeqNums /\ LastSeq(g) \in SeqNums
<1>1. g.seq \in SeqNums /\ g.sent + k \in Int /\ g.len \in Int
  BY DEF Segment
<1>2. g.seq \in Int
  BY <1>1, SeqNumsAreNat
<1> QED
  BY <1>1, <1>2, SeqAddType DEF LastSeq

\* tcp.c:262-318: what the forwarding loop leaves is a session.
LEMMA ForwardType ==
  ASSUME NEW x \in Session, NEW n \in 0 .. Len(x.forward), NEW part \in Nat,
         part > 0 => n < Len(x.forward)
  PROVE  Forward(x, n, part) \in Session
<1> DEFINE q    == x.forward
           left == SubSeq(q, n + 1, Len(q))
           rest == IF part = 0 THEN left ELSE [left EXCEPT ![1].sent = @ + part]
           seq  == CASE part > 0 -> SeqAdd(q[n + 1].seq, q[n + 1].sent + part)
                     [] part = 0 /\ n > 0 -> LastSeq(q[n])
                     [] OTHER -> x.remote_seq
<1>1. q \in Seq(Segment) /\ Len(q) \in Nat /\ n \in Nat
  BY LenProperties DEF Session
<1>2. \A i \in 1 .. Len(q) : q[i] \in Segment
  BY <1>1, ElementOfSeq
<1>3. \A g \in Segment : [g EXCEPT !.sent = @ + part] \in Segment
  BY DEF Segment
<1>4. left \in Seq(Segment) /\ (n < Len(q) => Len(left) >= 1)
  <2> HIDE DEF q
  <2>1. \A i \in n + 1 .. Len(q) : q[i] \in Segment
    BY <1>1, <1>2
  <2>2. n + 1 \in Int /\ Len(q) \in Int
    BY <1>1
  <2>3. /\ left \in Seq(Segment)
        /\ Len(left) = IF n + 1 <= Len(q) THEN Len(q) - (n + 1) + 1 ELSE 0
    BY <2>1, <2>2, SubSeqProperties
  <2> HIDE DEF left
  <2> QED
    BY <1>1, <2>3
<1>5. rest \in Seq(Segment)
  <2>1. CASE part = 0
    BY <1>4, <2>1
  <2>2. CASE part > 0
    <3> HIDE DEF left, q
    <3>0. Len(left) \in Nat
      BY <1>4, LenProperties
    <3>1. 1 \in 1 .. Len(left)
      BY <1>4, <2>2, <3>0 DEF q
    <3>2. [left[1] EXCEPT !.sent = @ + part] \in Segment
      BY <1>3, <1>4, <3>1, ElementOfSeq
    <3>3. [left EXCEPT ![1] = [left[1] EXCEPT !.sent = @ + part]] \in Seq(Segment)
      BY <1>4, <3>1, <3>2, ExceptSeq
    <3> QED
      BY <2>2, <3>3
  <2>3. part = 0 \/ part > 0
    OBVIOUS
  <2> HIDE DEF rest
  <2> QED
    BY <2>1, <2>2, <2>3
<1>6. seq \in SeqNums
  <2>1. CASE part > 0
    <3>1. n + 1 \in 1 .. Len(q)
      BY <1>1, <2>1
    <3>2. q[n + 1] \in Segment
      BY <1>2, <3>1
    <3>3. SeqAdd(q[n + 1].seq, q[n + 1].sent + part) \in SeqNums
      BY <3>2, SegmentSeqType
    <3> QED
      BY <2>1, <3>3
  <2>2. CASE part = 0 /\ n > 0
    <3>1. n \in 1 .. Len(q)
      BY <1>1, <2>2
    <3>2. q[n] \in Segment
      BY <1>2, <3>1
    <3>3. LastSeq(q[n]) \in SeqNums
      BY <3>2, SegmentSeqType
    <3> QED
      BY <2>2, <3>3
  <2>3. CASE part = 0 /\ n = 0
    BY <2>3 DEF Session
  <2> QED
    BY <1>1, <2>1, <2>2, <2>3
<1>7. Forward(x, n, part) = [x EXCEPT !.forward = rest, !.remote_seq = seq]
  BY DEF Forward
<1> HIDE DEF rest, seq
<1> QED
  BY <1>5, <1>6, <1>7 DEF Session

\* The history stays one.
LEMMA TakenType ==
  ASSUME NEW h \in History, NEW x \in Session, NEW n \in 0 .. Len(x.forward),
         NEW part \in Nat, NEW lost \in BOOLEAN, part > 0 => n < Len(x.forward)
  PROVE  Taken(h, x, n, part, lost) \in History
<1> DEFINE m    == IF part = 0 THEN n ELSE n + 1
           c(i) == Chunk(x, i, IF i <= n THEN 0 ELSE part)
<1>1. x.forward \in Seq(Segment) /\ Len(x.forward) \in Nat
  BY LenProperties DEF Session
<1>2. m = 0 \/ m \in 1 .. Len(x.forward)
  BY <1>1
<1>3. ASSUME m # 0 PROVE c(m).to \in Nat
  <2>1. x.forward[m] \in Segment
    BY <1>1, <1>2, <1>3, ElementOfSeq
  <2>2. \A k \in Nat : /\ x.forward[m].data + x.forward[m].len \in Nat
                      /\ x.forward[m].data + (x.forward[m].sent + k) \in Nat
    <3> HIDE DEF m
    <3>1. \A g \in Segment : g.data \in Nat /\ g.len \in Nat /\ g.sent \in Nat
      BY DEF Segment
    <3>2. /\ x.forward[m].data \in Nat /\ x.forward[m].len \in Nat
          /\ x.forward[m].sent \in Nat
      BY <2>1, <3>1
    <3>3. \A u, v, w \in Nat : u + v \in Nat /\ u + (v + w) \in Nat
      OBVIOUS
    <3> QED
      BY <3>2, <3>3
  <2> HIDE DEF m
  <2> QED
    BY <2>2 DEF Chunk
<1>4. CASE m = 0
  BY <1>4 DEF Taken
<1>5. CASE m # 0
  <2>1. Taken(h, x, n, part, lost) =
          [next |-> c(m).to,
           inOrder |-> /\ h.inOrder
                       /\ \A i \in 1 .. m :
                            c(i).from = IF i = 1 THEN h.next ELSE c(i - 1).to,
           givenUp |-> h.givenUp \/ lost]
    BY <1>5, Zenon DEF Taken
  <2> HIDE DEF c, m
  <2> QED
    BY <1>3, <1>5, <2>1 DEF History
<1> QED
  BY <1>4, <1>5

-----------------------------------------------------------------------------
(* handle_tcp *)

LEMMA ResultsType == \A ok \in Results : ok \in BOOLEAN
BY DEF Results

LEMMA NoSessionType == NoSession \in Session /\ NoRemote \in RemoteEnd
<1>1. <<>> \in Seq(Segment) /\ 0 \in SeqNums
  BY SeqNumsAreNat
<1> QED
  BY <1>1 DEF NoSession, NoRemote, Session, RemoteEnd, States, Events

\* What the thread leaves after a packet, given the session and the packets out.
LEMMA HandlesType ==
  ASSUME TypeOK, tun # <<>>, NEW x \in Session, NEW out \in Seq(Reply),
         Handles(x, out), remote' \in RemoteEnd, taken' \in History /\ leaked' \in BOOLEAN
  PROVE  TypeOK'
<1>1. app' \in AppEnd
  BY DeliverType DEF Handles, TypeOK
<1>2. tun' \in Seq(Packet)
  BY HeadTailProperties DEF Handles, TypeOK
<1> QED
  BY <1>1, <1>2 DEF Handles, TypeOK

\* The session with a packet taken in.
LEMMA AbsorbedType ==
  ASSUME s \in Session, NEW p \in Packet
  PROVE  Heard(p) \in Session /\ Absorbed(p) \in Session
<1>1. Heard(p) \in Session
  BY DEF Heard, Session, Packet
<1>2. queue_tcp(s, p) \in Seq(Segment)
  BY QueueType
<1>3. \A x \in Session : [x EXCEPT !.forward = queue_tcp(s, p)] \in Session
  BY <1>2 DEF Session
<1> QED
  BY <1>1, <1>3 DEF Absorbed

\* A session in another state.
LEMMA StateType ==
  ASSUME NEW x \in Session, NEW st \in States
  PROVE  [x EXCEPT !.state = st] \in Session
BY DEF Session

LEMMA HandleTcpType ==
  ASSUME TypeOK, handle_tcp
  PROVE  TypeOK'
<1> DEFINE p == Head(tun)
<1>1. /\ tun # <<>> /\ p \in Packet /\ s \in Session
      /\ remote \in RemoteEnd /\ taken \in History /\ leaked \in BOOLEAN
  BY HeadTailProperties DEF handle_tcp, TypeOK
<1>2. Heard(p) \in Session /\ Absorbed(p) \in Session
  BY <1>1, AbsorbedType
<1>3. \A ok \in Results : Out(ok, RstPacket(s)) \in Seq(Reply)
  BY <1>1, ResultsType, RstPacketType, OutType
<1>4. <<>> \in Seq(Reply)
  OBVIOUS
<1>5. /\ p.seq \in SeqNums /\ p.ack_seq \in SeqNums /\ p.len \in Nat
      /\ p.data \in Nat /\ p.window \in Nat /\ p.flags \in SUBSET Flags
  BY <1>1 DEF Packet
<1> HIDE DEF p
<1>6. CASE NewSession(p)
  <2>1. CASE /\ Handles(NoSession, <<>>)
             /\ leaked' \in {leaked, TRUE}
             /\ UNCHANGED <<remote, taken>>
    BY <1>1, <1>4, <2>1, NoSessionType, HandlesType
  <2>2. ASSUME NEW isn \in LocalISNs, NEW window \in BOOLEAN, NEW added \in BOOLEAN,
               Handles([state |-> "LISTEN", socket |-> TRUE, watched |-> added,
                        events |-> {"OUT", "ERR"},
                        remote_seq |-> p.seq, remote_start |-> p.seq,
                        local_seq |-> isn, local_start |-> isn, acked |-> 0,
                        send_window |-> p.window, recv_window |-> window,
                        forward |-> IF p.len = 0 THEN <<>>
                                    ELSE <<[seq |-> p.seq, len |-> p.len,
                                            sent |-> 0, data |-> p.data]>>], <<>>),
               remote' = [NoRemote EXCEPT !.left = RemoteBytes],
               taken' = [next |-> 1, inOrder |-> TRUE, givenUp |-> FALSE],
               leaked' = leaked
        PROVE  TypeOK'
    <3> DEFINE g == [seq |-> p.seq, len |-> p.len, sent |-> 0, data |-> p.data]
               q == IF p.len = 0 THEN <<>> ELSE <<g>>
               x == [state |-> "LISTEN", socket |-> TRUE, watched |-> added,
                     events |-> {"OUT", "ERR"},
                     remote_seq |-> p.seq, remote_start |-> p.seq,
                     local_seq |-> isn, local_start |-> isn, acked |-> 0,
                     send_window |-> p.window, recv_window |-> window, forward |-> q]
    <3>1. g \in Segment
      BY <1>5 DEF Segment
    <3>2. q \in Seq(Segment)
      <4> HIDE DEF g
      <4> QED
        BY <3>1
    <3>3. isn \in SeqNums /\ 0 \in SeqNums
      BY TcpAssumption, SeqNumsAreNat
    <3>4. x \in Session
      <4> HIDE DEF q
      <4> QED
        BY <1>5, <3>2, <3>3 DEF Session, States, Events
    <3>5. Handles(x, <<>>)
      BY <2>2
    <3>6. remote' \in RemoteEnd /\ taken' \in History /\ leaked' \in BOOLEAN
      <4>1. remote' \in RemoteEnd
        BY <2>2, TcpAssumption DEF NoRemote, RemoteEnd
      <4> QED
        BY <1>1, <2>2, <4>1 DEF History
    <3> HIDE DEF x
    <3> QED
      BY <1>1, <1>4, <3>4, <3>5, <3>6, HandlesType
  <2> QED
    BY <1>6, <2>1, <2>2 DEF NewSession
<1>7. CASE UnknownSession(p)
  <2>1. PICK ok \in Results :
          Handles(s, Out(ok, [flags |-> {"RST"}, len |-> 0, seq |-> p.ack_seq,
                              ack_seq |-> 0]))
    BY <1>7 DEF UnknownSession
  <2>2. [flags |-> {"RST"}, len |-> 0, seq |-> p.ack_seq, ack_seq |-> 0] \in Reply
    BY <1>5, SeqNumsAreNat DEF Reply, Flags
  <2>3. Out(ok, [flags |-> {"RST"}, len |-> 0, seq |-> p.ack_seq, ack_seq |-> 0])
          \in Seq(Reply)
    BY <2>2, ResultsType, OutType
  <2>4. remote' \in RemoteEnd /\ taken' \in History /\ leaked' \in BOOLEAN
    BY <1>1, <1>7 DEF UnknownSession
  <2> QED
    BY <1>1, <2>1, <2>3, <2>4, HandlesType
<1>8. CASE WasClosed(p)
  BY <1>1, <1>3, <1>8, WriteRstType, HandlesType DEF WasClosed
<1>9. CASE DataAfterClose(p)
  BY <1>1, <1>2, <1>3, <1>9, WriteRstType, HandlesType DEF DataAfterClose
<1>10. ASSUME Takes(p) PROVE remote' \in RemoteEnd /\ taken' \in History /\ leaked' \in BOOLEAN
  BY <1>1, <1>10 DEF Takes
<1>11. CASE ReceivedReset(p)
  <2>1. [Absorbed(p) EXCEPT !.state = "CLOSING"] \in Session
    BY <1>2, StateType DEF States
  <2> QED
    BY <1>1, <1>4, <1>10, <1>11, <2>1, HandlesType DEF ReceivedReset
<1>12. CASE RepeatedSyn(p) \/ FinIgnored(p)
  BY <1>1, <1>2, <1>4, <1>10, <1>12, HandlesType DEF RepeatedSyn, FinIgnored
<1>13. CASE FinBehindQueue(p)
  <2>1. [Absorbed(p) EXCEPT !.state = "CLOSE_WAIT"] \in Session
    BY <1>2, StateType DEF States
  <2> QED
    BY <1>1, <1>4, <1>10, <1>13, <2>1, HandlesType DEF FinBehindQueue
<1>14. CASE FinConfirmed(p)
  <2> DEFINE x == [Absorbed(p) EXCEPT !.remote_seq = SeqAdd(@, 1)]
             next == IF s.state = "ESTABLISHED" THEN "CLOSE_WAIT" ELSE "CLOSE"
  <2>1. PICK ok \in Results :
          Handles([x EXCEPT !.state = IF ok THEN next ELSE "CLOSING"],
                  Out(ok, write_tcp(x, {"ACK"}, 0)))
    BY <1>14 DEF FinConfirmed
  <2>2. x \in Session
    BY <1>2, NextSeqNumType DEF Session
  <2>3. [x EXCEPT !.state = IF ok THEN next ELSE "CLOSING"] \in Session
    <3> HIDE DEF x
    <3> QED
      BY <2>2, StateType DEF States
  <2>4. Out(ok, write_tcp(x, {"ACK"}, 0)) \in Seq(Reply)
    <3> HIDE DEF x
    <3>1. {"ACK"} \in SUBSET Flags
      BY DEF Flags
    <3> QED
      BY <2>2, <3>1, WriteType, OutType, ResultsType
  <2> HIDE DEF x, next
  <2> QED
    BY <1>1, <1>10, <1>14, <2>1, <2>3, <2>4, HandlesType DEF FinConfirmed
<1>15. CASE AckAll(p)
  <2> DEFINE x == [Absorbed(p) EXCEPT !.acked = p.ack_seq,
                     !.state = CASE @ = "SYN_RECV" -> "ESTABLISHED"
                                 [] @ = "LAST_ACK" -> "CLOSING"
                                 [] OTHER -> @]
  <2>1. x \in Session
    BY <1>2, <1>5 DEF Session, States
  <2>2. Handles(x, <<>>)
    BY <1>15 DEF AckAll
  <2> HIDE DEF x
  <2> QED
    BY <1>1, <1>4, <1>10, <1>15, <2>1, <2>2, HandlesType DEF AckAll
<1>16. CASE AckOther(p)
  <2>1. PICK ok \in Results :
          \/ Handles([Absorbed(p) EXCEPT !.acked = p.ack_seq], <<>>)
          \/ Handles(write_rst(Absorbed(p)), Out(ok, RstPacket(s)))
          \/ Handles(Absorbed(p), <<>>)
    BY <1>16 DEF AckOther
  <2>2. [Absorbed(p) EXCEPT !.acked = p.ack_seq] \in Session
    BY <1>2, <1>5 DEF Session
  <2>3. write_rst(Absorbed(p)) \in Session
    BY <1>2, WriteRstType
  <2>4. remote' \in RemoteEnd /\ taken' \in History /\ leaked' \in BOOLEAN
    BY <1>10, <1>16 DEF AckOther
  <2> QED
    BY <1>1, <1>2, <1>3, <1>4, <2>1, <2>2, <2>3, <2>4, HandlesType
<1> QED
  BY <1>6, <1>7, <1>8, <1>9, <1>11, <1>12, <1>13, <1>14, <1>15, <1>16
  DEF handle_tcp, p

-----------------------------------------------------------------------------
(* check_tcp_socket *)

\* What the thread leaves after an event of the socket.
LEMMA OnSocketEventType ==
  ASSUME TypeOK, NEW x \in Session, NEW out \in Seq(Reply),
         OnSocketEvent(x, out), remote' \in RemoteEnd, taken' \in History /\ leaked' \in BOOLEAN
  PROVE  TypeOK'
<1>1. app' \in AppEnd
  BY DeliverType DEF OnSocketEvent, TypeOK
<1>2. batch' \in Batches /\ pc' \in {"monitor", "check", "wait", "batch"}
  BY TailOfBatch DEF OnSocketEvent, NextEvent, TypeOK
<1> QED
  BY <1>1, <1>2 DEF OnSocketEvent, TypeOK

LEMMA SocketErrorType ==
  ASSUME TypeOK, SocketError
  PROVE  TypeOK'
<1>1. PICK ok \in Results : OnSocketEvent(write_rst(s), Out(ok, RstPacket(s)))
  BY DEF SocketError
<1>2. s \in Session /\ remote' \in RemoteEnd /\ taken' \in History /\ leaked' \in BOOLEAN
  BY DEF SocketError, TypeOK
<1>3. Out(ok, RstPacket(s)) \in Seq(Reply)
  BY <1>2, ResultsType, RstPacketType, OutType
<1> QED
  BY <1>1, <1>2, <1>3, WriteRstType, OnSocketEventType

LEMMA SocketConnectedType ==
  ASSUME TypeOK, SocketConnected
  PROVE  TypeOK'
<1> DEFINE x == [s EXCEPT !.remote_seq = SeqAdd(@, 1)]
           y == [x EXCEPT !.local_seq = SeqAdd(@, 1), !.state = "SYN_RECV"]
<1>1. PICK ok \in Results :
        OnSocketEvent(IF ok THEN y ELSE Written(x, FALSE),
                      Out(ok, write_tcp(x, {"SYN", "ACK"}, 0)))
  BY DEF SocketConnected
<1>2. s \in Session /\ remote' \in RemoteEnd /\ taken' \in History /\ leaked' \in BOOLEAN
  BY DEF SocketConnected, TypeOK
<1>3. x \in Session
  BY <1>2, NextSeqNumType DEF Session
<1>4. y \in Session
  <2> HIDE DEF x
  <2> QED
    BY <1>3, NextSeqNumType DEF Session, States
<1> HIDE DEF x, y
<1>5. (IF ok THEN y ELSE Written(x, FALSE)) \in Session
  BY <1>3, <1>4, WrittenType
<1>6. Out(ok, write_tcp(x, {"SYN", "ACK"}, 0)) \in Seq(Reply)
  <2>1. {"SYN", "ACK"} \in SUBSET Flags
    BY DEF Flags
  <2> QED
    BY <1>3, <2>1, WriteType, OutType, ResultsType
<1> QED
  BY <1>1, <1>2, <1>5, <1>6, OnSocketEventType

\* Two packets out, one after the other.
LEMMA OutConcat ==
  ASSUME NEW out \in Seq(Reply), NEW ok \in Results, NEW p \in Reply
  PROVE  out \o Out(ok, p) \in Seq(Reply)
<1>1. Out(ok, p) \in Seq(Reply)
  BY ResultsType, OutType
<1> QED
  BY <1>1, ConcatProperties

\* The end of the event: what is read, for the session and the packets so far.
LEMMA ReadsType ==
  ASSUME TypeOK, NEW x \in Session, NEW out \in Seq(Reply), NEW r \in RemoteEnd,
         taken' \in History /\ leaked' \in BOOLEAN,
         \/ ReadsNothing(x, out, r) \/ ReadFails(x, out, r)
         \/ ReadsEof(x, out, r) \/ ReadsData(x, out, r)
  PROVE  TypeOK'
<1>1. CASE ReadsNothing(x, out, r)
  BY <1>1, OnSocketEventType DEF ReadsNothing
<1>2. CASE ReadFails(x, out, r)
  <2>1. PICK ok \in Results :
          OnSocketEvent(write_rst(x), out \o Out(ok, RstPacket(x)))
    BY <1>2 DEF ReadFails
  <2>2. out \o Out(ok, RstPacket(x)) \in Seq(Reply)
    BY RstPacketType, OutConcat
  <2> QED
    BY <1>2, <2>1, <2>2, WriteRstType, OnSocketEventType DEF ReadFails
<1>3. CASE ReadsEof(x, out, r)
  <2> DEFINE y == [x EXCEPT !.socket = FALSE]
             z == [y EXCEPT !.local_seq = SeqAdd(@, 1),
                            !.state = IF @ = "ESTABLISHED" THEN "FIN_WAIT1"
                                                           ELSE "LAST_ACK"]
  <2>1. PICK ok \in Results :
          IF x.forward = <<>>
          THEN OnSocketEvent(IF ok THEN z ELSE Written(y, FALSE),
                             out \o Out(ok, write_tcp(x, {"FIN", "ACK"}, 0)))
          ELSE OnSocketEvent(write_rst(y), out \o Out(ok, RstPacket(x)))
    BY <1>3 DEF ReadsEof
  <2>2. y \in Session
    BY DEF Session
  <2>3. z \in Session
    <3> HIDE DEF y
    <3> QED
      BY <2>2, NextSeqNumType DEF Session, States
  <2>4. remote' \in RemoteEnd
    BY <1>3, NoSessionType DEF ReadsEof
  <2> HIDE DEF y, z
  <2>5. (IF ok THEN z ELSE Written(y, FALSE)) \in Session /\ write_rst(y) \in Session
    BY <2>2, <2>3, WrittenType, WriteRstType
  <2>6. write_tcp(x, {"FIN", "ACK"}, 0) \in Reply
    <3>1. {"FIN", "ACK"} \in SUBSET Flags
      BY DEF Flags
    <3> QED
      BY <3>1, WriteType
  <2>7. /\ out \o Out(ok, write_tcp(x, {"FIN", "ACK"}, 0)) \in Seq(Reply)
        /\ out \o Out(ok, RstPacket(x)) \in Seq(Reply)
    BY <2>6, RstPacketType, OutConcat
  <2> QED
    BY <2>1, <2>4, <2>5, <2>7, OnSocketEventType
<1>4. CASE ReadsData(x, out, r)
  <2>1. PICK n \in 1 .. Min2(SendWindow(x), r.inbox), ok \in Results :
          /\ OnSocketEvent(IF ok THEN [x EXCEPT !.local_seq = SeqAdd(@, n)]
                                 ELSE Written(x, FALSE),
                           out \o Out(ok, write_tcp(x, {"ACK"}, n)))
          /\ remote' = [r EXCEPT !.inbox = @ - n]
    BY <1>4 DEF ReadsData
  <2>2. SendWindow(x) \in Nat /\ r.inbox \in Nat
    BY SendWindowType DEF RemoteEnd
  <2>3. n \in Nat /\ n <= r.inbox
    BY <2>2 DEF Min2
  <2>4. SeqAdd(x.local_seq, n) \in SeqNums
    <3>1. x.local_seq \in Int
      BY SeqNumsAreNat DEF Session
    <3> QED
      BY <2>3, <3>1, SeqAddType
  <2>5. (IF ok THEN [x EXCEPT !.local_seq = SeqAdd(@, n)] ELSE Written(x, FALSE))
          \in Session
    <3>1. [x EXCEPT !.local_seq = SeqAdd(@, n)] \in Session
      BY <2>4 DEF Session
    <3> QED
      BY <3>1, WrittenType
  <2>6. remote' \in RemoteEnd
    BY <2>1, <2>2, <2>3 DEF RemoteEnd
  <2>7. out \o Out(ok, write_tcp(x, {"ACK"}, n)) \in Seq(Reply)
    <3>1. {"ACK"} \in SUBSET Flags
      BY DEF Flags
    <3> QED
      BY <2>3, <3>1, WriteType, OutConcat
  <2> QED
    BY <2>1, <2>5, <2>6, <2>7, OnSocketEventType
<1> QED
  BY <1>1, <1>2, <1>3, <1>4

\* The numbers this end sends with are the same.
SameNumbers(x, y) ==
  y.local_seq = x.local_seq /\ y.acked = x.acked /\ y.send_window = x.send_window

\* An ACK and nothing else.
PlainAck(p) == p.flags = {"ACK"} /\ p.len = 0

\* tcp.c:196-421: before it reads, the session has kept its socket, its numbers
\* and, unless a write failed, its state; at most one ACK has been written.
LEMMA TransfersShape ==
  ASSUME TypeOK, SocketTransfers
  PROVE  /\ taken' \in History /\ leaked' \in BOOLEAN
         /\ \E x \in Session, out \in Seq(Reply), r \in RemoteEnd :
              /\ x.state \in {s.state, "CLOSING"} /\ x.socket = s.socket
              /\ SameNumbers(s, x)
              /\ out = <<>> \/ \E q \in Reply : PlainAck(q) /\ out = <<q>>
              /\ r.inbox = remote.inbox /\ r.left = remote.left
              /\ \/ ReadsNothing(x, out, r) \/ ReadFails(x, out, r)
                 \/ ReadsEof(x, out, r) \/ ReadsData(x, out, r)
<1> DEFINE sent(c)    == c.n > 0 \/ c.part > 0
           acks(c, w) == sent(c) \/ (~s.recv_window /\ w)
           fwd(c, w)  == AckForwarded(Forward(s, c.n, c.part), sent(c), w)
           done(c, w, ok) == IF acks(c, w) THEN Written(fwd(c, w), ok) ELSE fwd(c, w)
           out(c, w, ok)  == IF acks(c, w) THEN Out(ok, write_tcp(fwd(c, w), {"ACK"}, 0))
                             ELSE <<>>
<1>1. PICK c \in ForwardChoices, w \in BOOLEAN, ok \in Results :
        /\ taken' = Taken(taken, s, c.n, c.part, c.lost /\ remote.st = "up")
        /\ leaked' = leaked
        /\ \/ ReadsNothing(done(c, w, ok), out(c, w, ok), AfterSends(c.lost))
           \/ ReadFails(done(c, w, ok), out(c, w, ok), AfterSends(c.lost))
           \/ ReadsEof(done(c, w, ok), out(c, w, ok), AfterSends(c.lost))
           \/ ReadsData(done(c, w, ok), out(c, w, ok), AfterSends(c.lost))
  BY DEF SocketTransfers
<1>2. /\ s \in Session /\ remote \in RemoteEnd /\ taken \in History /\ leaked \in BOOLEAN
      /\ Len(s.forward) \in Nat
  BY LenProperties DEF TypeOK, Session
<1>3. /\ c.n \in 0 .. Len(s.forward) /\ c.part \in Nat /\ c.lost \in BOOLEAN
      /\ c.part > 0 => c.n < Len(s.forward)
  <2>1. /\ c \in [n : 0 .. Len(s.forward), part : 0 .. AppBytes, lost : BOOLEAN]
        /\ c.part > 0 => Forwardable(s, c.n + 1)
    BY DEF ForwardChoices
  <2>2. c.n \in 0 .. Len(s.forward) /\ c.part \in Nat /\ c.lost \in BOOLEAN
    BY <2>1, TcpAssumption
  <2> QED
    BY <1>2, <2>1, <2>2 DEF Forwardable
<1>4. taken' \in History /\ leaked' \in BOOLEAN
  <2>1. (c.lost /\ remote.st = "up") \in BOOLEAN
    BY <1>3
  <2>2. taken' \in History
    BY <1>1, <1>2, <1>3, <2>1, TakenType
  <2> QED
    BY <1>1, <1>2, <2>2
<1>5. fwd(c, w) \in Session
  <2>1. Forward(s, c.n, c.part) \in Session
    BY <1>2, <1>3, ForwardType
  <2> QED
    BY <2>1, NextSeqNumType DEF AckForwarded, Session
<1>6. fwd(c, w).state = s.state /\ fwd(c, w).socket = s.socket
  <2>1. /\ Forward(s, c.n, c.part).state = s.state
        /\ Forward(s, c.n, c.part).socket = s.socket
    BY <1>2 DEF Forward, Session
  <2>2. Forward(s, c.n, c.part) \in Session
    BY <1>2, <1>3, ForwardType
  <2> QED
    BY <2>1, <2>2 DEF AckForwarded, Session
<1>7. done(c, w, ok).state \in {s.state, "CLOSING"} /\ done(c, w, ok).socket = s.socket
  <2> HIDE DEF fwd, acks
  <2> QED
    BY <1>5, <1>6 DEF Written, Session
<1>8. done(c, w, ok) \in Session
  <2> HIDE DEF fwd, acks
  <2> QED
    BY <1>5, ResultsType, WrittenType
<1>9. out(c, w, ok) \in Seq(Reply)
  <2> HIDE DEF fwd, acks
  <2>1. {"ACK"} \in SUBSET Flags /\ <<>> \in Seq(Reply)
    BY DEF Flags
  <2>2. Out(ok, write_tcp(fwd(c, w), {"ACK"}, 0)) \in Seq(Reply)
    BY <1>5, <2>1, ResultsType, WriteType, OutType
  <2> QED
    BY <2>1, <2>2
<1>10. /\ AfterSends(c.lost) \in RemoteEnd
       /\ AfterSends(c.lost).inbox = remote.inbox
       /\ AfterSends(c.lost).left = remote.left
  BY <1>2 DEF AfterSends, RemoteEnd
<1>11. SameNumbers(s, done(c, w, ok))
  <2>1. Forward(s, c.n, c.part) \in Session /\ SameNumbers(s, Forward(s, c.n, c.part))
    BY <1>2, <1>3, ForwardType DEF Forward, Session, SameNumbers
  <2>2. SameNumbers(s, fwd(c, w))
    BY <2>1 DEF AckForwarded, Session, SameNumbers
  <2> HIDE DEF fwd, acks
  <2> QED
    BY <1>5, <2>2 DEF Written, Session, SameNumbers
<1>12. out(c, w, ok) = <<>> \/ \E q \in Reply : PlainAck(q) /\ out(c, w, ok) = <<q>>
  <2> HIDE DEF fwd, acks
  <2>1. {"ACK"} \in SUBSET Flags
    BY DEF Flags
  <2>2. write_tcp(fwd(c, w), {"ACK"}, 0) \in Reply
    BY <1>5, <2>1, WriteType
  <2>3. PlainAck(write_tcp(fwd(c, w), {"ACK"}, 0))
    BY DEF PlainAck, write_tcp
  <2> QED
    BY <2>2, <2>3 DEF Out
<1> HIDE DEF done, out
<1> QED
  BY <1>1, <1>4, <1>8, <1>9, <1>10, <1>7, <1>11, <1>12

LEMMA SocketTransfersType ==
  ASSUME TypeOK, SocketTransfers
  PROVE  TypeOK'
BY TransfersShape, ReadsType

-----------------------------------------------------------------------------
(* The rest of the loop, and the environment *)

LEMMA MonitorType ==
  ASSUME TypeOK, monitor_tcp_session
  PROVE  TypeOK'
<1> DEFINE x(probe, ok) == IF probe THEN Written(s, ok) ELSE s
           old == [s EXCEPT !.remote_seq = SeqAdd(@, Mod - 1)]
           out(probe, ok) == IF probe THEN Out(ok, write_tcp(old, {"ACK"}, 0)) ELSE <<>>
<1>1. s \in Session /\ app \in AppEnd
  BY DEF TypeOK
<1>2. old \in Session
  <2>1. s.remote_seq \in Int /\ Mod - 1 \in Int
    BY <1>1, SeqNumsAreNat, HalfAssumption DEF Session, Mod
  <2>2. SeqAdd(s.remote_seq, Mod - 1) \in SeqNums
    BY <2>1, SeqAddType
  <2> QED
    BY <1>1, <2>2 DEF Session
<1>3. \A probe \in BOOLEAN, ok \in Results :
        x(probe, ok) \in Session /\ out(probe, ok) \in Seq(Reply)
  <2> HIDE DEF old
  <2>1. {"ACK"} \in SUBSET Flags /\ <<>> \in Seq(Reply)
    BY DEF Flags
  <2>2. \A ok \in Results : Out(ok, write_tcp(old, {"ACK"}, 0)) \in Seq(Reply)
    BY <1>2, <2>1, ResultsType, WriteType, OutType
  <2> QED
    BY <1>1, <2>1, <2>2, ResultsType, WrittenType
<1>4. s' \in Session /\ app' \in AppEnd
  <2>1. CASE ~s.socket /\ Deliver(<<>>) /\ s' = s
    <3>1. <<>> \in Seq(Reply)
      OBVIOUS
    <3> QED
      BY <1>1, <2>1, <3>1, DeliverType
  <2>2. ASSUME NEW room \in BOOLEAN, NEW set \in BOOLEAN, NEW probe \in BOOLEAN,
               NEW ok \in Results,
               s' = [x(probe, ok) EXCEPT !.events = Wanted(s, room),
                                         !.state = IF Wanted(s, room) # s.events /\ ~set
                                                   THEN "CLOSING" ELSE @],
               Deliver(out(probe, ok))
        PROVE  s' \in Session /\ app' \in AppEnd
    <3>1. Wanted(s, room) \in SUBSET Events
      BY DEF Wanted, Events
    <3>2. x(probe, ok) \in Session /\ out(probe, ok) \in Seq(Reply)
      BY <1>3
    <3> HIDE DEF x, out
    <3>3. s' \in Session
      BY <2>2, <3>1, <3>2 DEF Session, States
    <3> QED
      BY <1>1, <2>2, <3>2, <3>3, DeliverType
  <2> QED
    BY <2>1, <2>2 DEF monitor_tcp_session
<1> QED
  BY <1>4 DEF monitor_tcp_session, TypeOK

LEMMA CheckType ==
  ASSUME TypeOK, NEW expired \in BOOLEAN, check_tcp_session(expired)
  PROVE  TypeOK'
<1>1. s \in Session /\ app \in AppEnd /\ remote \in RemoteEnd
  BY DEF TypeOK
<1>2. TimedOut(s, expired) \in Session
  BY <1>1, WriteRstType, StateType DEF TimedOut, States
<1>3. SocketClosed(TimedOut(s, expired)) \in Session
  <2>1. \A x \in Session :
          [x EXCEPT !.socket = FALSE, !.state = "CLOSE"] \in Session
    BY DEF Session, States
  <2>2. \A x \in Session : SocketClosed(x) \in Session
    BY <2>1 DEF SocketClosed
  <2> QED
    BY <1>2, <2>2
<1>4. s' \in Session /\ remote' \in RemoteEnd
  BY <1>1, <1>3, NoSessionType DEF check_tcp_session
<1>5. app' \in AppEnd
  <2>1. PICK ok \in Results :
          Deliver(IF expired /\ Live(s) /\ s.state # "LISTEN"
                  THEN Out(ok, RstPacket(s)) ELSE <<>>)
    BY DEF check_tcp_session
  <2>2. Out(ok, RstPacket(s)) \in Seq(Reply) /\ <<>> \in Seq(Reply)
    BY <1>1, ResultsType, RstPacketType, OutType
  <2> QED
    BY <1>1, <2>1, <2>2, DeliverType
<1> QED
  BY <1>4, <1>5 DEF check_tcp_session, TypeOK

LEMMA EpollType ==
  ASSUME TypeOK, epoll_wait
  PROVE  TypeOK'
<1>1. \A writable \in BOOLEAN : Reported(writable) \subseteq Events
  BY DEF Reported, TypeOK, Session, Events
<1>2. pc' \in {"monitor", "batch"} /\ batch' \in Batches /\ mask' \subseteq Events
  BY <1>1 DEF epoll_wait, TypeOK
<1> QED
  BY <1>2 DEF epoll_wait, TypeOK

LEMMA TunDrainedType ==
  ASSUME TypeOK, TunDrained
  PROVE  TypeOK'
<1>1. batch' \in Batches /\ pc' \in {"monitor", "check", "wait", "batch"}
  BY TailOfBatch DEF TunDrained, NextEvent, TypeOK
<1> QED
  BY <1>1 DEF TunDrained, TypeOK

\* A packet of the app is one.
LEMMA PacketOfType ==
  ASSUME NEW a \in AppEnd, NEW flags \in SUBSET Flags, NEW from \in Nat,
         NEW len \in Nat, NEW window \in Nat
  PROVE  PacketOf(a, flags, from, len, window) \in Packet
<1>1. a.iss \in Int /\ a.irs \in Int /\ a.rcv \in Int
  BY SeqNumsAreNat DEF AppEnd
<1>2. SeqAdd(a.iss, from) \in SeqNums /\ SeqAdd(a.irs, a.rcv) \in SeqNums
  BY <1>1, SeqAddType
<1> QED
  BY <1>2, SeqNumsAreNat DEF PacketOf, Packet

\* The app's kernel hands a packet over.
LEMMA PostType ==
  ASSUME TypeOK, NEW p \in Packet, Post(p), app' \in AppEnd
  PROVE  TypeOK'
<1>1. tun' \in Seq(Packet)
  BY AppendProperties DEF Post, TypeOK
<1> QED
  BY <1>1 DEF Post, TypeOK

LEMMA AppConnectsType ==
  ASSUME TypeOK, AppConnects
  PROVE  TypeOK'
<1>1. PICK iss \in AppISNs, w \in Windows, n \in 0 .. (IF SynData THEN AppBytes ELSE 0) :
        LET a == IF app.st = "closed"
                 THEN [app EXCEPT !.st = "syn_sent", !.iss = iss, !.nxt = n + 1]
                 ELSE app
        IN  app' = a /\ Post(PacketOf(a, {"SYN"}, 0, n, w))
  BY DEF AppConnects
<1>2. app \in AppEnd /\ iss \in SeqNums /\ w \in Nat /\ n \in Nat
  BY TcpAssumption DEF TypeOK
<1>3. app' \in AppEnd
  <2>1. n + 1 \in Nat
    BY <1>2
  <2>2. \A i \in Nat : [app EXCEPT !.st = "syn_sent", !.iss = iss, !.nxt = i] \in AppEnd
    BY <1>2 DEF AppEnd
  <2> QED
    BY <1>1, <1>2, <2>1, <2>2
<1>4. {"SYN"} \in SUBSET Flags
  BY DEF Flags
<1>5. PacketOf(app', {"SYN"}, 0, n, w) \in Packet
  BY <1>2, <1>3, <1>4, PacketOfType
<1> QED
  BY <1>1, <1>3, <1>5, PostType

LEMMA AppSendsType ==
  ASSUME TypeOK, AppSends
  PROVE  TypeOK'
<1>1. PICK from \in {app.una, app.nxt}, to \in 1 .. AppBytes + 2, fin \in BOOLEAN,
           w \in Windows :
        LET len == to - from
            end == IF fin THEN to + 1 ELSE to
        IN  /\ from <= to
            /\ len > 0 => to <= AppBytes + 1
            /\ from < app.nxt => end <= app.nxt
            /\ fin => to = AppBytes + 1
            /\ len = 0 /\ ~fin => from = app.nxt
            /\ Post(PacketOf(app, IF fin THEN {"ACK", "FIN"} ELSE {"ACK"}, from, len, w))
            /\ app' = [app EXCEPT !.nxt = IF end > @ THEN end ELSE @,
                                  !.edge = IF app.rcv + w > @ THEN app.rcv + w ELSE @]
  BY DEF AppSends
<1>2. app \in AppEnd /\ w \in Nat /\ to \in Nat
  BY TcpAssumption DEF TypeOK
<1>3. from \in Nat /\ to - from \in Nat
  BY <1>1, <1>2 DEF AppEnd
<1>4. app' \in AppEnd
  <2> DEFINE end == IF fin THEN to + 1 ELSE to
             nxt == IF end > app.nxt THEN end ELSE app.nxt
             edge == IF app.rcv + w > app.edge THEN app.rcv + w ELSE app.edge
  <2>1. nxt \in Nat /\ edge \in Nat
    BY <1>2 DEF AppEnd
  <2>2. \A i, j \in Nat : [app EXCEPT !.nxt = i, !.edge = j] \in AppEnd
    BY <1>2 DEF AppEnd
  <2>3. app' = [app EXCEPT !.nxt = nxt, !.edge = edge]
    BY <1>1
  <2> HIDE DEF nxt, edge
  <2> QED
    BY <2>1, <2>2, <2>3
<1>5. {"ACK", "FIN"} \in SUBSET Flags /\ {"ACK"} \in SUBSET Flags
  BY DEF Flags
<1>6. PacketOf(app, IF fin THEN {"ACK", "FIN"} ELSE {"ACK"}, from, to - from, w) \in Packet
  BY <1>2, <1>3, <1>5, PacketOfType
<1> QED
  BY <1>1, <1>4, <1>6, PostType

LEMMA AppAbortsType ==
  ASSUME TypeOK, AppAborts
  PROVE  TypeOK'
<1>1. app \in AppEnd /\ app.nxt \in Nat /\ {"RST"} \in SUBSET Flags
  BY DEF TypeOK, AppEnd, Flags
<1>2. PacketOf(app, {"RST"}, app.nxt, 0, 0) \in Packet
  BY <1>1, PacketOfType
<1>3. app' \in AppEnd
  BY <1>1 DEF AppAborts, AppEnd
<1> QED
  BY <1>2, <1>3, PostType DEF AppAborts

LEMMA ServerType ==
  ASSUME TypeOK, ServerAccepts \/ ServerFails \/ ServerSends \/ ServerCloses
  PROVE  TypeOK'
<1>1. PICK r : Server(r) /\ r \in RemoteEnd
  <2>1. remote \in RemoteEnd
    BY DEF TypeOK
  <2>2. /\ [remote EXCEPT !.st = "up"] \in RemoteEnd
        /\ [remote EXCEPT !.st = "err"] \in RemoteEnd
        /\ [remote EXCEPT !.left = 0, !.eof = TRUE] \in RemoteEnd
    BY <2>1 DEF RemoteEnd
  <2>3. ASSUME remote.left > 0
        PROVE  [remote EXCEPT !.left = @ - 1, !.inbox = @ + 1] \in RemoteEnd
    <3>1. remote.left - 1 \in Nat /\ remote.inbox + 1 \in Nat
      BY <2>1, <2>3 DEF RemoteEnd
    <3>2. \A i, j \in Nat : [remote EXCEPT !.left = i, !.inbox = j] \in RemoteEnd
      BY <2>1 DEF RemoteEnd
    <3> QED
      BY <3>1, <3>2
  <2> QED
    BY <2>2, <2>3 DEF ServerAccepts, ServerFails, ServerSends, ServerCloses
<1> QED
  BY <1>1 DEF Server, TypeOK

-----------------------------------------------------------------------------

\* tcp.c, session.c: every variable keeps its type: sequence numbers stay in 32
\* bits across every addition, the queue holds segments, the batch is one that
\* epoll_wait may report.
THEOREM TypeCorrect == Spec => []TypeOK
<1>1. Init => TypeOK
  <2>1. <<>> \in Seq(Packet) /\ 0 \in SeqNums
    BY SeqNumsAreNat
  <2> SUFFICES ASSUME Init PROVE TypeOK
    OBVIOUS
  <2>2. taken \in History /\ leaked \in BOOLEAN
    BY DEF Init, History
  <2>3. app \in AppEnd
    BY <2>1 DEF Init, AppEnd, Faults
  <2>4. /\ pc \in {"monitor", "check", "wait", "batch"}
        /\ batch \in Batches /\ mask \subseteq Events /\ tun \in Seq(Packet)
    BY <2>1 DEF Init, Batches, Events
  <2> QED
    BY <2>2, <2>3, <2>4, NoSessionType DEF Init, TypeOK
<1>2. TypeOK /\ [Next]_vars => TypeOK'
  <2> SUFFICES ASSUME TypeOK, [Next]_vars PROVE TypeOK'
    OBVIOUS
  <2>1. CASE check_tcp_socket
    BY <2>1, SocketErrorType, SocketConnectedType, SocketTransfersType
    DEF check_tcp_socket
  <2>2. CASE handle_tcp
    BY <2>2, HandleTcpType
  <2>3. CASE monitor_tcp_session
    BY <2>3, MonitorType
  <2>4. ASSUME NEW expired \in BOOLEAN, check_tcp_session(expired) PROVE TypeOK'
    BY <2>4, CheckType
  <2>5. CASE SkipCheck
    BY <2>5 DEF SkipCheck, TypeOK
  <2>6. CASE epoll_wait
    BY <2>6, EpollType
  <2>7. CASE TunDrained
    BY <2>7, TunDrainedType
  <2>8. CASE Environment
    BY <2>8, AppConnectsType, AppSendsType, AppAbortsType, ServerType DEF Environment
  <2>9. CASE UNCHANGED vars
    BY <2>9 DEF vars, TypeOK
  <2> QED
    BY <2>1, <2>2, <2>3, <2>4, <2>5, <2>6, <2>7, <2>8, <2>9 DEF Next, handle_events
<1> QED
  BY <1>1, <1>2, PTL DEF Spec

-----------------------------------------------------------------------------
(* The socket and the events that name the session *)

\* An event of the socket is in the batch.
Pending(b) == \E i \in 1 .. Len(b) : b[i] = "sock"

\* The inductive invariant: between the batches no event waits.
SocketInv ==
  /\ SocketMatchesState
  /\ Pending(batch) => s.state # "NONE" /\ s.socket
  /\ pc # "batch" => batch = <<>>

\* The event at the head is the only one of the socket.
LEMMA PendingTail ==
  ASSUME NEW b \in Batches, b # <<>>
  PROVE  /\ Head(b) = "sock" => Pending(b) /\ ~Pending(Tail(b))
         /\ Head(b) = "tun" => (Pending(Tail(b)) => Pending(b))
<1>1. /\ ~Pending(<<>>) /\ ~Pending(<<"tun">>) /\ Pending(<<"sock">>)
      /\ Pending(<<"tun", "sock">>) /\ Pending(<<"sock", "tun">>)
  <2>1. /\ Len(<<>>) = 0 /\ Len(<<"tun">>) = 1 /\ Len(<<"sock">>) = 1
        /\ Len(<<"tun", "sock">>) = 2 /\ Len(<<"sock", "tun">>) = 2
    OBVIOUS
  <2>2. /\ <<"tun">>[1] = "tun" /\ <<"sock">>[1] = "sock"
        /\ <<"tun", "sock">>[2] = "sock" /\ <<"sock", "tun">>[1] = "sock"
    OBVIOUS
  <2>3. 1 \in 1 .. 1 /\ 1 \in 1 .. 2 /\ 2 \in 1 .. 2
    OBVIOUS
  <2>4. Pending(<<"sock">>) /\ Pending(<<"tun", "sock">>) /\ Pending(<<"sock", "tun">>)
    BY <2>1, <2>2, <2>3, Zenon DEF Pending
  <2>5. ~Pending(<<>>)
    BY <2>1 DEF Pending
  <2>6. ~Pending(<<"tun">>)
    BY <2>1, <2>2 DEF Pending
  <2> QED
    BY <2>4, <2>5, <2>6
<1>2. /\ Head(<<"tun">>) = "tun" /\ Head(<<"sock">>) = "sock"
      /\ Head(<<"tun", "sock">>) = "tun" /\ Head(<<"sock", "tun">>) = "sock"
  OBVIOUS
<1>3. /\ Tail(<<"tun">>) = <<>> /\ Tail(<<"sock">>) = <<>>
      /\ Tail(<<"tun", "sock">>) = <<"sock">> /\ Tail(<<"sock", "tun">>) = <<"tun">>
  OBVIOUS
<1>4. \/ b = <<"tun">> \/ b = <<"sock">>
      \/ b = <<"tun", "sock">> \/ b = <<"sock", "tun">>
  BY DEF Batches
<1> QED
  BY <1>1, <1>2, <1>3, <1>4

\* tcp.c:468-821: what a packet of the app does to the session: it may open one
\* where there was none, and otherwise leaves the socket alone and moves the
\* state along the lines of the TCP diagram.
LEMMA HandleTcpShape ==
  ASSUME TypeOK, handle_tcp
  PROVE  \/ /\ s.state = "NONE" /\ s'.state = "NONE" /\ taken' = taken
            /\ s'.socket \in {FALSE, s.socket}
         \/ s.state = "NONE" /\ s'.state = "LISTEN" /\ s'.socket /\ taken'.next = 1
         \/ /\ s.state # "NONE" /\ s'.socket = s.socket /\ taken' = taken
            /\ \/ s'.state = s.state
               \/ s.state # "CLOSE" /\ s'.state = "CLOSING"
               \/ s.state = "ESTABLISHED" /\ s'.state = "CLOSE_WAIT"
               \/ s.state = "FIN_WAIT1" /\ s'.state = "CLOSE"
               \/ s.state = "SYN_RECV" /\ s'.state = "ESTABLISHED"
<1> DEFINE p == Head(tun)
<1>1. s \in Session /\ p \in Packet
  BY HeadTailProperties DEF handle_tcp, TypeOK
<1>2. Heard(p) \in Session /\ Absorbed(p) \in Session
  BY <1>1, AbsorbedType
<1>3. /\ Heard(p).state = s.state /\ Heard(p).socket = s.socket
      /\ Absorbed(p).state = s.state /\ Absorbed(p).socket = s.socket
  <2>1. Heard(p).state = s.state /\ Heard(p).socket = s.socket
    BY <1>1 DEF Heard, Session
  <2>2. \A q : \A x \in Session :
          /\ [x EXCEPT !.forward = q].state = x.state
          /\ [x EXCEPT !.forward = q].socket = x.socket
    BY DEF Session
  <2> QED
    BY <1>2, <2>1, <2>2 DEF Absorbed
<1>4. \A x \in Session : /\ write_rst(x).socket = x.socket
                        /\ write_rst(x).state = IF x.state = "CLOSE" THEN "CLOSE"
                                                                   ELSE "CLOSING"
  BY DEF write_rst, Session
<1> HIDE DEF p
<1>5. CASE NewSession(p)
  <2>1. s.state = "NONE"
    BY <1>5 DEF NewSession
  <2>2. CASE Handles(NoSession, <<>>) /\ taken' = taken
    <3>1. s' = NoSession
      BY <2>2 DEF Handles
    <3> QED
      BY <2>1, <2>2, <3>1 DEF NoSession
  <2>3. CASE \E x : /\ Handles(x, <<>>) /\ x.state = "LISTEN" /\ x.socket = TRUE
                   /\ taken' = [next |-> 1, inOrder |-> TRUE, givenUp |-> FALSE]
    BY <2>1, <2>3 DEF Handles
  <2> QED
    BY <1>5, <2>2, <2>3 DEF NewSession
<1>6. CASE UnknownSession(p)
  BY <1>6 DEF UnknownSession, Handles
<1>7. CASE WasClosed(p)
  <2>1. s' = write_rst(s) /\ s.state \in {"CLOSING", "CLOSE"} /\ taken' = taken
    BY <1>7 DEF WasClosed, Handles
  <2> QED
    BY <1>1, <1>4, <2>1
<1>8. CASE DataAfterClose(p)
  <2>1. s' = write_rst(Heard(p)) /\ Live(s) /\ taken' = taken
    BY <1>8 DEF DataAfterClose, Handles
  <2> QED
    BY <1>2, <1>3, <1>4, <2>1 DEF Live
<1>9. CASE ReceivedReset(p)
  <2>1. s' = [Absorbed(p) EXCEPT !.state = "CLOSING"] /\ Live(s) /\ taken' = taken
    BY <1>9 DEF ReceivedReset, Takes, Handles
  <2>2. s'.state = "CLOSING" /\ s'.socket = s.socket
    BY <1>2, <1>3, <2>1 DEF Session
  <2> QED
    BY <2>1, <2>2 DEF Live
<1>10. CASE RepeatedSyn(p) \/ FinIgnored(p)
  <2>1. s' = Absorbed(p) /\ Live(s) /\ taken' = taken
    BY <1>10 DEF RepeatedSyn, FinIgnored, Takes, Handles
  <2> QED
    BY <1>3, <2>1 DEF Live
<1>11. CASE FinBehindQueue(p)
  <2>1. /\ s' = [Absorbed(p) EXCEPT !.state = "CLOSE_WAIT"]
        /\ s.state = "ESTABLISHED" /\ taken' = taken
    BY <1>11 DEF FinBehindQueue, Takes, Handles
  <2>2. s'.state = "CLOSE_WAIT" /\ s'.socket = s.socket
    BY <1>2, <1>3, <2>1 DEF Session
  <2> QED
    BY <2>1, <2>2
<1>12. CASE FinConfirmed(p)
  <2>1. PICK ok \in Results :
          s' = [[Absorbed(p) EXCEPT !.remote_seq = SeqAdd(@, 1)] EXCEPT
                  !.state = IF ok THEN IF s.state = "ESTABLISHED" THEN "CLOSE_WAIT"
                                                                  ELSE "CLOSE"
                                  ELSE "CLOSING"]
    BY <1>12 DEF FinConfirmed, Handles
  <2>2. s'.socket = s.socket
    BY <1>2, <1>3, <2>1 DEF Session
  <2>3. /\ s.state \in {"ESTABLISHED", "FIN_WAIT1"} /\ taken' = taken
        /\ s'.state \in {"CLOSING", IF s.state = "ESTABLISHED" THEN "CLOSE_WAIT"
                                                              ELSE "CLOSE"}
    BY <1>2, <1>12, <2>1 DEF FinConfirmed, Takes, Session
  <2> QED
    BY <2>2, <2>3
<1>13. CASE AckAll(p)
  <2>1. /\ s' = [Absorbed(p) EXCEPT !.acked = p.ack_seq,
                   !.state = CASE @ = "SYN_RECV" -> "ESTABLISHED"
                               [] @ = "LAST_ACK" -> "CLOSING"
                               [] OTHER -> @]
        /\ Live(s) /\ taken' = taken
    BY <1>13 DEF AckAll, Takes, Handles
  <2>2. /\ s'.socket = s.socket
        /\ s'.state = CASE s.state = "SYN_RECV" -> "ESTABLISHED"
                         [] s.state = "LAST_ACK" -> "CLOSING"
                         [] OTHER -> s.state
    BY <1>2, <1>3, <2>1 DEF Session
  <2> QED
    BY <2>1, <2>2 DEF Live
<1>14. CASE AckOther(p)
  <2>1. /\ Live(s) /\ taken' = taken
        /\ \/ s' = [Absorbed(p) EXCEPT !.acked = p.ack_seq]
           \/ s' = write_rst(Absorbed(p))
           \/ s' = Absorbed(p)
    BY <1>14 DEF AckOther, Takes, Handles
  <2>2. s'.socket = s.socket /\ s'.state \in {s.state, "CLOSING"}
    BY <1>2, <1>3, <1>4, <2>1 DEF Live, Session
  <2> QED
    BY <2>1, <2>2 DEF Live
<1> QED
  BY <1>5, <1>6, <1>7, <1>8, <1>9, <1>10, <1>11, <1>12, <1>13, <1>14
  DEF handle_tcp, p

\* tcp.c:468-821: a packet never takes the socket of a session, and opens one
\* only where there was no session.
LEMMA HandleTcpSocket ==
  ASSUME TypeOK, SocketMatchesState, handle_tcp
  PROVE  /\ SocketMatchesState'
         /\ s.state # "NONE" => s'.state # "NONE" /\ s'.socket = s.socket
BY HandleTcpShape DEF SocketMatchesState

\* tcp.c:196-421: an event of a session that has its socket leaves the two in
\* agreement, whichever way it ends.
LEMMA SocketEventSocket ==
  ASSUME TypeOK, SocketMatchesState, s.state # "NONE", s.socket, check_tcp_socket
  PROVE  SocketMatchesState'
<1>1. s \in Session /\ s.state \notin {"NONE", "FIN_WAIT1", "LAST_ACK", "CLOSE"}
  BY DEF TypeOK, SocketMatchesState
<1>2. \A x \in Session :
        /\ write_rst(x).socket = x.socket
        /\ write_rst(x).state = IF x.state = "CLOSE" THEN "CLOSE" ELSE "CLOSING"
  BY DEF write_rst, Session
<1>a. \A x \in Session : /\ Written(x, FALSE).socket = x.socket
                        /\ Written(x, FALSE).state = "CLOSING"
  BY DEF Written, Session
<1>3. CASE SocketError
  <2>1. s' = write_rst(s)
    BY <1>3 DEF SocketError, OnSocketEvent
  <2>2. s'.state = "CLOSING"
    BY <1>1, <1>2, <2>1
  <2> QED
    BY <2>2 DEF SocketMatchesState
<1>4. CASE SocketConnected
  <2>1. [s EXCEPT !.remote_seq = SeqAdd(@, 1)] \in Session
    BY <1>1, NextSeqNumType DEF Session
  <2>2. s'.socket = s.socket /\ s'.state \in {"SYN_RECV", "CLOSING"}
    BY <1>1, <1>4, <2>1 DEF SocketConnected, OnSocketEvent, Written, Session
  <2> QED
    BY <2>2 DEF SocketMatchesState
<1>5. CASE SocketTransfers
  <2>1. PICK x \in Session, out \in Seq(Reply), r \in RemoteEnd :
          /\ x.state \in {s.state, "CLOSING"} /\ x.socket = s.socket
          /\ \/ ReadsNothing(x, out, r) \/ ReadFails(x, out, r)
             \/ ReadsEof(x, out, r) \/ ReadsData(x, out, r)
    BY <1>5, TransfersShape
  <2>2. x.socket = TRUE /\ x.state \notin {"NONE", "FIN_WAIT1", "LAST_ACK", "CLOSE"}
    BY <1>1, <2>1 DEF Session
  <2>3. CASE ReadsNothing(x, out, r)
    BY <2>2, <2>3 DEF ReadsNothing, OnSocketEvent, SocketMatchesState
  <2>4. CASE ReadFails(x, out, r)
    <3>1. s' = write_rst(x)
      BY <2>4 DEF ReadFails, OnSocketEvent
    <3>2. s'.state = "CLOSING"
      BY <1>2, <2>2, <3>1
    <3> QED
      BY <3>2 DEF SocketMatchesState
  <2>5. CASE ReadsEof(x, out, r)
    <3> DEFINE y == [x EXCEPT !.socket = FALSE]
               z == [y EXCEPT !.local_seq = SeqAdd(@, 1),
                              !.state = IF @ = "ESTABLISHED" THEN "FIN_WAIT1"
                                                             ELSE "LAST_ACK"]
    <3>1. y \in Session /\ y.socket = FALSE /\ y.state = x.state
      BY DEF Session
    <3>2. s' \in {z, Written(y, FALSE), write_rst(y)}
      BY <2>5 DEF ReadsEof, OnSocketEvent
    <3>3. z.socket = FALSE /\ z.state \in {"FIN_WAIT1", "LAST_ACK"}
      <4> HIDE DEF y
      <4> QED
        BY <3>1 DEF Session
    <3> HIDE DEF y, z
    <3>4. write_rst(y).state = "CLOSING"
      BY <1>2, <2>2, <3>1
    <3>5. Written(y, FALSE).state = "CLOSING"
      BY <1>a, <3>1
    <3>6. s'.state = "CLOSING" \/ s' = z
      BY <3>2, <3>4, <3>5
    <3> QED
      BY <3>3, <3>6 DEF SocketMatchesState
  <2>6. CASE ReadsData(x, out, r)
    <3>1. s'.socket = x.socket /\ s'.state \in {x.state, "CLOSING"}
      BY <2>6 DEF ReadsData, OnSocketEvent, Written, Session
    <3> QED
      BY <2>2, <3>1 DEF SocketMatchesState
  <2> QED
    BY <2>1, <2>3, <2>4, <2>5, <2>6
<1> QED
  BY <1>3, <1>4, <1>5 DEF check_tcp_socket

\* tcp.c:99-143: monitoring leaves a session without a socket alone; one with
\* a socket keeps it, and goes on or ends.
LEMMA MonitorShape ==
  ASSUME TypeOK, monitor_tcp_session
  PROVE  \/ s' = s
         \/ s.socket /\ s'.socket = s.socket /\ s'.state \in {s.state, "CLOSING"}
<1>1. s \in Session
  BY DEF TypeOK
<1>2. s' = s \/ s.socket
  BY DEF monitor_tcp_session
<1>3. CASE s.socket
  <2>1. PICK room \in BOOLEAN, set \in BOOLEAN, probe \in BOOLEAN, ok \in Results :
          s' = [(IF probe THEN Written(s, ok) ELSE s)
                  EXCEPT !.events = Wanted(s, room),
                         !.state = IF Wanted(s, room) # s.events /\ ~set
                                   THEN "CLOSING" ELSE @]
    BY <1>3 DEF monitor_tcp_session
  <2> DEFINE x == IF probe THEN Written(s, ok) ELSE s
  <2>2. x \in Session /\ x.socket = s.socket /\ x.state \in {s.state, "CLOSING"}
    BY <1>1 DEF Written, Session, States
  <2>3. s' = [x EXCEPT !.events = Wanted(s, room),
                       !.state = IF Wanted(s, room) # s.events /\ ~set
                                 THEN "CLOSING" ELSE @]
    BY <2>1
  <2> HIDE DEF x
  <2>4. s'.socket = s.socket /\ s'.state \in {s.state, "CLOSING"}
    BY <2>2, <2>3 DEF Session
  <2> QED
    BY <1>3, <2>4
<1> QED
  BY <1>2, <1>3

\* tcp.c:99-143: monitoring gives no socket back and takes none.
LEMMA MonitorSocket ==
  ASSUME TypeOK, SocketMatchesState, monitor_tcp_session
  PROVE  SocketMatchesState'
BY MonitorShape DEF SocketMatchesState

\* tcp.c:37-97: a check gives the socket of every session it closes back.
LEMMA CheckSocket ==
  ASSUME TypeOK, SocketMatchesState,
         NEW expired \in BOOLEAN, check_tcp_session(expired)
  PROVE  SocketMatchesState'
<1>1. s \in Session /\ s.state # "NONE"
  BY DEF TypeOK, check_tcp_session
<1> DEFINE x == TimedOut(s, expired)
<1>2. /\ x \in Session /\ x.socket = s.socket
      /\ x.state = s.state \/ x.state = "CLOSING"
  <2>1. write_rst(s) \in Session
    BY <1>1, WriteRstType
  <2>2. write_rst(s).socket = s.socket /\ write_rst(s).state \in {"CLOSE", "CLOSING"}
    BY <1>1 DEF write_rst, Session
  <2>3. Live(s) => write_rst(s).state = "CLOSING"
    BY <1>1 DEF write_rst, Session, Live
  <2> QED
    BY <1>1, <2>1, <2>2, <2>3 DEF TimedOut, Session, States
<1> HIDE DEF x
<1>3. \/ s' = NoSession
      \/ s' = SocketClosed(x)
  BY DEF check_tcp_session, x
<1>4. CASE s' = NoSession
  BY <1>4 DEF NoSession, SocketMatchesState
<1>5. CASE s' = SocketClosed(x) /\ x.state = "CLOSING"
  <2>1. s'.socket = FALSE /\ s'.state = "CLOSE"
    BY <1>2, <1>5 DEF SocketClosed, Session
  <2> QED
    BY <2>1 DEF SocketMatchesState
<1>6. CASE s' = SocketClosed(x) /\ x.state = s.state /\ s.state # "CLOSING"
  <2>1. s' = x
    BY <1>2, <1>6 DEF SocketClosed, Session
  <2> QED
    BY <1>2, <1>6, <2>1 DEF SocketMatchesState
<1> QED
  BY <1>2, <1>3, <1>4, <1>5, <1>6

\* The event that was handled is no longer in the batch.
LEMMA NextEventSocket ==
  ASSUME TypeOK, SocketInv, batch # <<>>, NextEvent
  PROVE  /\ Head(batch) = "sock" => ~Pending(batch)'
         /\ Head(batch) = "tun" /\ Pending(batch)' => Pending(batch)
         /\ pc' # "batch" => batch' = <<>>
<1>1. batch \in Batches
  BY DEF TypeOK
<1>2. Pending(batch)' <=> Pending(Tail(batch))
  BY DEF NextEvent, Pending
<1> QED
  BY <1>1, <1>2, PendingTail DEF NextEvent

\* A socket's event is handled when it is at the head, and is then done with.
LEMMA EventIsHandled ==
  ASSUME TypeOK, check_tcp_socket
  PROVE  batch # <<>> /\ Head(batch) = "sock" /\ NextEvent
<1>1. CASE SocketError
  BY <1>1 DEF SocketError, OnSocketEvent
<1>2. CASE SocketConnected
  BY <1>2 DEF SocketConnected, OnSocketEvent
<1>3. CASE SocketTransfers
  <2>1. PICK x \in Session, out \in Seq(Reply), r \in RemoteEnd :
          \/ ReadsNothing(x, out, r) \/ ReadFails(x, out, r)
          \/ ReadsEof(x, out, r) \/ ReadsData(x, out, r)
    BY <1>3, TransfersShape
  <2>2. CASE ReadsNothing(x, out, r) \/ ReadFails(x, out, r)
    BY <2>2 DEF ReadsNothing, ReadFails, OnSocketEvent
  <2>3. CASE ReadsEof(x, out, r)
    BY <2>3 DEF ReadsEof, OnSocketEvent
  <2>4. CASE ReadsData(x, out, r)
    BY <2>4 DEF ReadsData, OnSocketEvent
  <2> QED
    BY <2>1, <2>2, <2>3, <2>4
<1> QED
  BY <1>1, <1>2, <1>3 DEF check_tcp_socket

\* The inductive invariant holds: the socket and the events of the session
\* agree with its state.
THEOREM SocketInvInductive == Spec => []SocketInv
<1>1. Init => SocketInv
  <2> SUFFICES ASSUME Init PROVE SocketInv
    OBVIOUS
  <2>1. SocketMatchesState
    BY DEF Init, NoSession, SocketMatchesState
  <2>2. ~Pending(batch)
    <3>1. Len(batch) = 0
      BY DEF Init
    <3> QED
      BY <3>1 DEF Pending
  <2> QED
    BY <2>1, <2>2 DEF Init, SocketInv
<1>2. TypeOK /\ SocketInv /\ [Next]_vars => SocketInv'
  <2> SUFFICES ASSUME TypeOK, SocketInv, [Next]_vars
               PROVE  SocketInv'
    OBVIOUS
  <2>1. SocketMatchesState
    BY DEF SocketInv
  <2>2. CASE s' = s /\ pc' = pc /\ batch' = batch
    BY <2>2 DEF SocketInv, SocketMatchesState, Pending
  <2>3. CASE monitor_tcp_session
    <3>1. pc # "batch" /\ batch' = batch
      BY <2>3 DEF monitor_tcp_session
    <3>2. batch' = <<>>
      BY <3>1 DEF SocketInv
    <3>3. ~Pending(batch)'
      <4>1. Len(batch') = 0
        BY <3>2
      <4> QED
        BY <4>1 DEF Pending
    <3> QED
      BY <2>1, <2>3, <3>2, <3>3, MonitorSocket DEF SocketInv
  <2>4. ASSUME NEW expired \in BOOLEAN, check_tcp_session(expired)
        PROVE  SocketInv'
    <3>1. pc # "batch" /\ batch' = batch
      BY <2>4 DEF check_tcp_session
    <3>2. batch' = <<>>
      BY <3>1 DEF SocketInv
    <3>3. ~Pending(batch)'
      <4>1. Len(batch') = 0
        BY <3>2
      <4> QED
        BY <4>1 DEF Pending
    <3> QED
      BY <2>1, <2>4, <3>2, <3>3, CheckSocket DEF SocketInv
  <2>5. CASE SkipCheck
    <3>1. s' = s /\ batch' = batch /\ batch = <<>>
      BY <2>5 DEF SkipCheck, SocketInv
    <3> QED
      BY <3>1 DEF SocketInv, SocketMatchesState, Pending
  <2>6. CASE epoll_wait
    <3>1. s' = s
      BY <2>6 DEF epoll_wait
    <3>2. CASE batch' = batch
      <4>1. batch' = <<>>
        BY <2>6, <3>2 DEF epoll_wait, SocketInv
      <4> QED
        BY <3>1, <3>2, <4>1 DEF SocketInv, SocketMatchesState, Pending
    <3>3. CASE /\ pc' = "batch"
               /\ \E sock \in {{}, {"sock"}} :
                    /\ sock # {} => s.socket
                    /\ {batch'[i] : i \in 1 .. Len(batch')}
                         = sock \cup (IF tun # <<>> THEN {"tun"} ELSE {})
      <4>1. Pending(batch)' => s.socket
        BY <3>3 DEF Pending
      <4>2. s.socket => s.state # "NONE"
        BY <2>1 DEF SocketMatchesState
      <4>3. SocketMatchesState'
        BY <2>1, <3>1 DEF SocketMatchesState
      <4> QED
        BY <3>1, <3>3, <4>1, <4>2, <4>3 DEF SocketInv
    <3> QED
      BY <2>6, <3>2, <3>3 DEF epoll_wait
  <2>7. CASE handle_tcp
    <3>1. pc' = pc /\ batch' = batch
      BY <2>7 DEF handle_tcp, NewSession, UnknownSession, WasClosed, DataAfterClose,
           ReceivedReset, RepeatedSyn, FinBehindQueue, FinConfirmed, FinIgnored,
           AckAll, AckOther, Handles
    <3>2. Pending(batch)' <=> Pending(batch)
      BY <3>1 DEF Pending
    <3>3. /\ SocketMatchesState'
          /\ s.state # "NONE" => s'.state # "NONE" /\ s'.socket = s.socket
      BY <2>1, <2>7, HandleTcpSocket
    <3> QED
      BY <3>1, <3>2, <3>3 DEF SocketInv
  <2>8. CASE TunDrained
    <3>1. s' = s /\ batch # <<>> /\ Head(batch) = "tun" /\ NextEvent
      BY <2>8 DEF TunDrained
    <3>2. SocketMatchesState'
      BY <2>1, <3>1 DEF SocketMatchesState
    <3> QED
      BY <3>1, <3>2, NextEventSocket DEF SocketInv
  <2>9. CASE check_tcp_socket
    <3>1. batch # <<>> /\ Head(batch) = "sock" /\ NextEvent
      BY <2>9, EventIsHandled
    <3>2. s.state # "NONE" /\ s.socket
      BY <3>1, PendingTail DEF TypeOK, SocketInv
    <3> QED
      BY <2>1, <2>9, <3>1, <3>2, SocketEventSocket, NextEventSocket DEF SocketInv
  <2>10. Environment => s' = s /\ pc' = pc /\ batch' = batch
    <3>1. AppConnects \/ AppSends \/ AppAborts => s' = s /\ pc' = pc /\ batch' = batch
      BY DEF AppConnects, AppSends, AppAborts, Post
    <3>2. ServerAccepts \/ ServerFails \/ ServerSends \/ ServerCloses
            => s' = s /\ pc' = pc /\ batch' = batch
      BY DEF ServerAccepts, ServerFails, ServerSends, ServerCloses, Server
    <3> QED
      BY <3>1, <3>2 DEF Environment
  <2> QED
    BY <2>2, <2>3, <2>4, <2>5, <2>6, <2>7, <2>8, <2>9, <2>10
    DEF Next, handle_events, vars
<1> QED
  BY <1>1, <1>2, TypeCorrect, PTL DEF Spec

\* tcp.c:73-80, 390-393: for every stream, window and choice of sequence
\* numbers a session holds the socket it was opened with exactly as long as its
\* state says. It says nothing of the descriptor that a failed open leaves
\* behind: that one never becomes a session's.
THEOREM SocketsMatchStates == Spec => []SocketMatchesState
<1>1. SocketInv => SocketMatchesState
  BY DEF SocketInv
<1> QED
  BY <1>1, SocketInvInductive, PTL

\* session.c:257: no event of the batch outlives the session it points to.
THEOREM EventsNameLive == Spec => []EventsNameLiveSessions
<1>1. SocketInv => EventsNameLiveSessions
  BY DEF SocketInv, Pending, EventsNameLiveSessions
<1> QED
  BY <1>1, SocketInvInductive, PTL
-----------------------------------------------------------------------------
(* A session that is closing never comes back                              *)

\* What a step may do to a session that is closing or closed.
StaysClosed ==
  /\ s.state = "CLOSING" => s'.state \in {"CLOSING", "CLOSE"}
  /\ s.state = "CLOSE" => s'.state \in {"CLOSE", "NONE"}

LEMMA MonitorStaysClosed ==
  ASSUME TypeOK, SocketMatchesState, monitor_tcp_session
  PROVE  StaysClosed
BY MonitorShape DEF SocketMatchesState, StaysClosed

LEMMA CheckStaysClosed ==
  ASSUME TypeOK, NEW expired \in BOOLEAN, check_tcp_session(expired)
  PROVE  StaysClosed
<1>1. s \in Session
  BY DEF TypeOK
<1>2. CASE s.state \notin {"CLOSING", "CLOSE"}
  BY <1>2 DEF StaysClosed
<1>3. CASE s.state \in {"CLOSING", "CLOSE"}
  <2>1. TimedOut(s, expired) = s
    BY <1>3 DEF TimedOut, Live
  <2>2. s' \in {NoSession, SocketClosed(s)}
    BY <2>1 DEF check_tcp_session
  <2>3. s' = NoSession => s.state = "CLOSE"
    <3>1. SocketClosed(s).state = "CLOSE" /\ NoSession.state = "NONE"
      BY <1>1, <1>3 DEF SocketClosed, Session, NoSession
    <3> QED
      BY <2>1, <3>1 DEF check_tcp_session
  <2>4. SocketClosed(s).state = "CLOSE"
    BY <1>1, <1>3 DEF SocketClosed, Session
  <2> QED
    BY <2>2, <2>3, <2>4 DEF StaysClosed, NoSession
<1> QED
  BY <1>2, <1>3

LEMMA HandleTcpStaysClosed ==
  ASSUME TypeOK, handle_tcp, s.state \in {"CLOSING", "CLOSE"}
  PROVE  s'.state = s.state
<1>1. s \in Session /\ ~Live(s) /\ s.state # "NONE"
  BY DEF TypeOK, Live
<1>2. WasClosed(Head(tun))
  BY <1>1 DEF handle_tcp, NewSession, UnknownSession, DataAfterClose, ReceivedReset,
     RepeatedSyn, FinBehindQueue, FinConfirmed, FinIgnored, AckAll, AckOther, Takes
<1>3. s' = write_rst(s)
  BY <1>2 DEF WasClosed, Handles
<1> QED
  BY <1>1, <1>3 DEF write_rst, Session

LEMMA SocketEventStaysClosed ==
  ASSUME TypeOK, check_tcp_socket, s.state = "CLOSING"
  PROVE  s'.state = "CLOSING"
<1>1. s \in Session
  BY DEF TypeOK
<1>2. CASE SocketError
  <2>1. s' = write_rst(s)
    BY <1>2 DEF SocketError, OnSocketEvent
  <2> QED
    BY <1>1, <2>1 DEF write_rst, Session
<1>3. ~SocketConnected
  BY DEF SocketConnected
<1>4. CASE SocketTransfers
  <2>1. PICK x \in Session, out \in Seq(Reply), r \in RemoteEnd :
          /\ x.state \in {s.state, "CLOSING"}
          /\ \/ ReadsNothing(x, out, r) \/ ReadFails(x, out, r)
             \/ ReadsEof(x, out, r) \/ ReadsData(x, out, r)
    BY <1>4, TransfersShape
  <2>2. x.state = "CLOSING"
    BY <2>1
  <2>3. ~MayRead(x)
    BY <2>2 DEF MayRead, Transferring
  <2>4. ReadsNothing(x, out, r)
    BY <2>1, <2>3 DEF ReadFails, ReadsEof, ReadsData
  <2> QED
    BY <2>2, <2>4 DEF ReadsNothing, OnSocketEvent
<1> QED
  BY <1>2, <1>3, <1>4 DEF check_tcp_socket

\* tcp.c:37-97, 982: whatever the app, the server and the events do, no step
\* brings a closing session back or makes a closed one linger anew.
THEOREM ClosingStays == Spec => ClosingIsFinal
<1>1. TypeOK /\ SocketInv /\ [Next]_vars => [StaysClosed]_vars
  <2> SUFFICES ASSUME TypeOK, SocketInv, Next
               PROVE  StaysClosed
    OBVIOUS
  <2>1. SocketMatchesState
    BY DEF SocketInv
  <2>2. CASE s' = s
    BY <2>2 DEF StaysClosed
  <2>3. CASE monitor_tcp_session
    BY <2>1, <2>3, MonitorStaysClosed
  <2>4. ASSUME NEW expired \in BOOLEAN, check_tcp_session(expired)
        PROVE  StaysClosed
    BY <2>4, CheckStaysClosed
  <2>5. CASE handle_tcp
    BY <2>5, HandleTcpStaysClosed DEF StaysClosed
  <2>6. CASE check_tcp_socket
    <3>1. s.state # "CLOSE"
      <4>1. batch \in Batches /\ batch # <<>> /\ Head(batch) = "sock"
        BY <2>6, EventIsHandled DEF TypeOK
      <4>2. s.socket
        BY <4>1, PendingTail DEF SocketInv
      <4> QED
        BY <2>1, <4>2 DEF SocketMatchesState
    <3> QED
      BY <2>6, <3>1, SocketEventStaysClosed DEF StaysClosed
  <2>7. SkipCheck \/ epoll_wait \/ TunDrained \/ Environment => s' = s
    BY DEF SkipCheck, epoll_wait, TunDrained, Environment, AppConnects, AppSends,
         AppAborts, ServerAccepts, ServerFails, ServerSends, ServerCloses, Server, Post
  <2> QED
    BY <2>2, <2>3, <2>4, <2>5, <2>6, <2>7 DEF Next, handle_events
<1>2. [][StaysClosed]_vars <=> ClosingIsFinal
  BY DEF StaysClosed, ClosingIsFinal
<1> QED
  BY <1>1, <1>2, TypeCorrect, SocketInvInductive, PTL DEF Spec
=============================================================================
