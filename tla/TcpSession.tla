----------------------------- MODULE TcpSession -----------------------------
(***************************************************************************)
(* One TCP session of the VPN stack (tcp.c): the app's kernel on one side  *)
(* of the tun device, the socket to the server on the other, and between   *)
(* them the single thread of handle_events (session.c), which monitors the *)
(* session, checks it, waits for events and handles a batch of them.       *)
(*                                                                         *)
(* Sequence numbers are those of SeqArith. A byte of the app is named by   *)
(* its offset from the app's initial sequence number: the SYN has offset   *)
(* 0, the bytes 1 .. AppBytes, the FIN AppBytes + 1. How much time has     *)
(* passed is left open: a timeout may or may not have expired at a check.  *)
(***************************************************************************)
EXTENDS SeqArith, Sequences

CONSTANTS
  Wraps,        \* the build wraps around when an int subtraction overflows
  AppISNs,      \* initial sequence numbers the app may choose
  LocalISNs,    \* what rand() may return for the VPN's
  AppBytes,     \* length of the app's stream
  RemoteBytes,  \* length of the server's stream
  Windows,      \* receive windows the app may advertise
  MaxTun,       \* packets the tun device queues for the VPN
  Lossy,        \* the tun device may drop a packet of the app
  TunFails,     \* a write to the tun device may fail
  SynData       \* the app may put data on its SYN

ASSUME TcpAssumption ==
  /\ Wraps \in BOOLEAN /\ Lossy \in BOOLEAN /\ TunFails \in BOOLEAN
  /\ SynData \in BOOLEAN
  /\ AppISNs \subseteq SeqNums /\ LocalISNs \subseteq SeqNums
  /\ AppBytes \in Nat /\ RemoteBytes \in Nat /\ MaxTun \in Nat
  /\ Windows \subseteq Nat

VARIABLES
  s,          \* the vpn_session of this 5-tuple
  pc,         \* where handle_events is in its loop
  batch,      \* the events of this epoll_wait not handled yet
  mask,       \* the events reported for the socket in this batch
  tun,        \* packets of the app the VPN has not read yet
  app,        \* the app's end of the connection
  remote,     \* the server's end of the socket
  taken,      \* history: what send() was given of the app's stream
  leaked      \* history: an open that failed has left its socket open

vars == <<s, pc, batch, mask, tun, app, remote, taken, leaked>>

-----------------------------------------------------------------------------
(* Types *)

States == {"NONE", "LISTEN", "SYN_RECV", "ESTABLISHED", "CLOSE_WAIT",
           "FIN_WAIT1", "LAST_ACK", "CLOSING", "CLOSE"}
Flags == {"SYN", "ACK", "FIN", "RST"}
Events == {"IN", "OUT", "ERR"}

\* struct segment: data is the offset of the first byte it holds.
Segment == [seq : SeqNums, len : Nat, sent : Nat, data : Nat]

\* struct vpn_session / tcp_session. socket is "socket >= 0"; watched, that
\* epoll knows it; recv_window is "recv_window > 0"; events is ev.events.
Session ==
  [state : States, socket : BOOLEAN, watched : BOOLEAN, events : SUBSET Events,
   remote_seq : SeqNums, remote_start : SeqNums,
   local_seq : SeqNums, local_start : SeqNums, acked : SeqNums,
   send_window : Nat, recv_window : BOOLEAN, forward : Seq(Segment)]

\* A packet of the app: data is the offset of its first byte.
Packet == [flags : SUBSET Flags, seq : SeqNums, ack_seq : SeqNums,
           len : Nat, data : Nat, window : Nat]

Faults == {"gap", "overrun", "after_reset", "unsent"}

AppEnd ==
  [st : {"closed", "syn_sent", "open", "aborted", "reset"}, iss : SeqNums,
   una : Nat, nxt : Nat, irs : SeqNums, rcv : Nat, edge : Nat,
   faults : SUBSET Faults]

\* err: the connection failed and the socket still has the error to report;
\* hup: the error was reported, to a send().
RemoteEnd == [st : {"connecting", "up", "err", "hup"}, inbox : Nat, left : Nat,
              eof : BOOLEAN]

\* The offset after the last byte given to send(), whether each byte given was
\* the one after the byte before, and whether some were given up although the
\* connection was up.
History == [next : Nat, inOrder : BOOLEAN, givenUp : BOOLEAN]

\* What epoll_wait may report, in the order the thread handles it.
Batches == {<<>>, <<"tun">>, <<"sock">>, <<"tun", "sock">>, <<"sock", "tun">>}

\* No socket to a server.
NoRemote == [st |-> "connecting", inbox |-> 0, left |-> 0, eof |-> FALSE]

\* No session: what is left of one is freed with it.
NoSession ==
  [state |-> "NONE", socket |-> FALSE, watched |-> FALSE, events |-> {},
   remote_seq |-> 0, remote_start |-> 0, local_seq |-> 0, local_start |-> 0,
   acked |-> 0, send_window |-> 0, recv_window |-> FALSE, forward |-> <<>>]

TypeOK ==
  /\ s \in Session
  /\ pc \in {"monitor", "check", "wait", "batch"}
  /\ batch \in Batches
  /\ mask \subseteq Events
  /\ tun \in Seq(Packet)
  /\ app \in AppEnd
  /\ remote \in RemoteEnd
  /\ taken \in History /\ leaked \in BOOLEAN

Live(x) == x.state \notin {"NONE", "CLOSING", "CLOSE"}
Transferring(x) == x.state \in {"ESTABLISHED", "CLOSE_WAIT"}
Compare(a, b) == compare_u32(Wraps, a, b)
SendWindow(x) == get_send_window(Wraps, x.acked, x.local_seq, x.send_window)

-----------------------------------------------------------------------------
(* The app's kernel receives what the VPN writes to the tun device *)

\* What is wrong with a packet p as the app sees it: payload or a FIN that
\* does not continue the stream, that lies beyond every window the app has
\* advertised, or that comes after a reset; an ACK of what was never sent.
FaultsOf(a, p, off, ack) ==
  LET payload == p.len > 0 \/ "FIN" \in p.flags
  IN  {f \in Faults :
         \/ f = "gap" /\ a.st = "open" /\ payload /\ off # a.rcv
         \/ f = "overrun" /\ a.st = "open" /\ p.len > 0 /\ off + p.len > a.edge
         \/ f = "after_reset" /\ a.st = "reset" /\ (payload \/ "SYN" \in p.flags)
         \/ f = "unsent" /\ a.st # "closed" /\ "ACK" \in p.flags /\ ack > a.nxt}

\* The app's kernel takes packet p: an RST ends the connection, a SYN+ACK
\* opens it, an ACK frees what it covers, payload in sequence is received.
AppReceive(a, p) ==
  LET irs == IF "SYN" \in p.flags THEN p.seq ELSE a.irs
      off == (p.seq - irs) % Mod
      ack == (p.ack_seq - a.iss) % Mod
      b   == [a EXCEPT !.faults = @ \cup FaultsOf(a, p, off, ack)]
      una == IF "ACK" \in p.flags /\ ack > a.una /\ ack <= a.nxt
             THEN ack ELSE a.una
  IN  CASE a.st \in {"closed", "aborted", "reset"} -> b
        [] a.st \in {"syn_sent", "open"} /\ "RST" \in p.flags ->
             [b EXCEPT !.st = "reset"]
        [] a.st = "syn_sent" /\ "SYN" \in p.flags ->
             [b EXCEPT !.st = "open", !.irs = irs, !.rcv = 1, !.una = una]
        [] a.st = "open" /\ p.flags \cap {"SYN", "RST"} = {} /\ off = a.rcv ->
             [b EXCEPT !.una = una,
                       !.rcv = @ + p.len + (IF "FIN" \in p.flags THEN 1 ELSE 0)]
        [] OTHER -> [b EXCEPT !.una = una]

\* The packets out, two at most, reach the app in order: write() to the tun is
\* synchronous.
Deliver(out) ==
  app' = CASE Len(out) = 0 -> app
           [] Len(out) = 1 -> AppReceive(app, out[1])
           [] OTHER        -> AppReceive(AppReceive(app, out[1]), out[2])

-----------------------------------------------------------------------------
(* write_tcp and the five operations on top of it. A write to the tun may  *)
(* fail; a session whose write failed is CLOSING.                          *)

\* The packet write_tcp builds from the session's sequence numbers.
write_tcp(x, flags, len) ==
  [flags |-> flags, len |-> len, seq |-> x.local_seq,
   ack_seq |-> IF "ACK" \in flags THEN x.remote_seq ELSE 0]

\* How a write to the tun may end.
Results == IF TunFails THEN BOOLEAN ELSE {TRUE}

\* The packets on the tun after a write that succeeds or not.
Out(ok, packet) == IF ok THEN <<packet>> ELSE <<>>

\* write_syn_ack, write_ack, write_data, write_fin_ack: the session after.
Written(x, ok) == IF ok THEN x ELSE [x EXCEPT !.state = "CLOSING"]

\* write_rst that makes a CLOSE session CLOSING again.
write_rst_reopened(x) ==
  [x EXCEPT !.remote_seq = IF x.state = "LISTEN" THEN SeqAdd(@, 1) ELSE @,
            !.state = "CLOSING"]

\* write_rst: in LISTEN the SYN is acknowledged with it; whether the packet
\* could be written makes no difference.
write_rst(x) ==
  [x EXCEPT !.remote_seq = IF x.state = "LISTEN" THEN SeqAdd(@, 1) ELSE @,
            !.state = IF @ = "CLOSE" THEN @ ELSE "CLOSING"]

RstPacket(x) ==
  write_tcp([x EXCEPT !.remote_seq = SeqAdd(@, 1)],
            IF x.state = "LISTEN" THEN {"RST", "ACK"} ELSE {"RST"}, 0)

-----------------------------------------------------------------------------
(* handle_tcp: a packet read from the tun, one action per way it is taken  *)

\* Data the app sent again is dropped if the first byte was forwarded; a new
\* segment goes where its sequence number belongs; a longer one with the same
\* number replaces the data of the queued one but not its length.
queue_tcp(x, p) ==
  LET q    == x.forward
      ends == {i \in 0 .. Len(q) : i = Len(q) \/ Compare(q[i + 1].seq, p.seq) >= 0}
      k    == CHOOSE i \in ends : \A j \in ends : i <= j
      new  == [seq |-> p.seq, len |-> p.len, sent |-> 0, data |-> p.data]
  IN  CASE Compare(p.seq, x.remote_seq) < 0 -> q
        [] Compare(p.seq, x.remote_seq) >= 0
             /\ (k = Len(q) \/ Compare(q[k + 1].seq, p.seq) > 0) ->
             SubSeq(q, 1, k) \o <<new>> \o SubSeq(q, k + 1, Len(q))
        [] Compare(p.seq, x.remote_seq) >= 0 /\ k < Len(q)
             /\ q[k + 1].seq = p.seq /\ q[k + 1].len < p.len ->
             [q EXCEPT ![k + 1].data = p.data]
        [] OTHER -> q

\* The thread reads the next packet of the app: session x and the packets
\* out are the outcome.
Handles(x, out) ==
  /\ s' = x
  /\ Deliver(out)
  /\ tun' = Tail(tun)
  /\ UNCHANGED <<pc, batch, mask>>

\* A SYN for no session: a socket is opened and added to epoll (if that fails,
\* it is only logged); data on the SYN is queued under the number of the SYN
\* itself. When socket() fails there is no session ("Remote might retry"); nor is
\* there when protect(), fcntl() or connect() fail, and then nobody closes what
\* socket() gave.
NewSession(p) ==
  /\ s.state = "NONE" /\ "SYN" \in p.flags
  /\ \/ /\ Handles(NoSession, <<>>)
        /\ leaked' \in {leaked, TRUE}
        /\ UNCHANGED <<remote, taken>>
     \/ \E isn \in LocalISNs, window, added \in BOOLEAN :
          /\ Handles([state |-> "LISTEN", socket |-> TRUE, watched |-> added,
                      events |-> {"OUT", "ERR"},
                      remote_seq |-> p.seq, remote_start |-> p.seq,
                      local_seq |-> isn, local_start |-> isn, acked |-> 0,
                      send_window |-> p.window, recv_window |-> window,
                      forward |-> IF p.len = 0 THEN <<>>
                                  ELSE <<[seq |-> p.seq, len |-> p.len,
                                          sent |-> 0, data |-> p.data]>>], <<>>)
          /\ remote' = [NoRemote EXCEPT !.left = RemoteBytes]
          /\ taken' = [next |-> 1, inOrder |-> TRUE, givenUp |-> FALSE]
          /\ UNCHANGED leaked

\* Anything else for no session is answered by an RST.
UnknownSession(p) ==
  /\ s.state = "NONE" /\ "SYN" \notin p.flags
  /\ \E ok \in Results :
       Handles(s, Out(ok, [flags |-> {"RST"}, len |-> 0, seq |-> p.ack_seq,
                           ack_seq |-> 0]))
  /\ UNCHANGED <<remote, taken, leaked>>

\* A packet for a session that was closed.
WasClosed(p) ==
  /\ s.state \in {"CLOSING", "CLOSE"}
  /\ \E ok \in Results : Handles(write_rst(s), Out(ok, RstPacket(s)))
  /\ UNCHANGED <<remote, taken, leaked>>

\* Only the window of the SYN counts.
HeardOnce(p) == s

\* Every packet of a live session updates the send window.
Heard(p) == [s EXCEPT !.send_window = p.window]

\* Data after this end closed the socket, or after the app's FIN.
DataAfterClose(p) ==
  /\ Live(s) /\ p.len > 0
  /\ ~s.socket \/ s.state = "CLOSE_WAIT"
  /\ \E ok \in Results : Handles(write_rst(Heard(p)), Out(ok, RstPacket(s)))
  /\ UNCHANGED <<remote, taken, leaked>>

\* The session with the packet's window and data taken in.
Absorbed(p) ==
  IF p.len = 0 THEN Heard(p)
  ELSE [Heard(p) EXCEPT !.forward = queue_tcp(s, p)]

Takes(p) ==
  /\ Live(s)
  /\ p.len = 0 \/ (s.socket /\ s.state # "CLOSE_WAIT")
  /\ UNCHANGED <<remote, taken, leaked>>

\* A reset that gives the socket back at once, not at the next check.
ReceivedResetClosed(p) ==
  /\ Takes(p) /\ "RST" \in p.flags
  /\ Handles([Absorbed(p) EXCEPT !.state = "CLOSE", !.socket = FALSE], <<>>)

\* "No sequence check".
ReceivedReset(p) ==
  /\ Takes(p) /\ "RST" \in p.flags
  /\ Handles([Absorbed(p) EXCEPT !.state = "CLOSING"], <<>>)

\* An ACK of everything sent, or no ACK at all.
AcksAll(p) == "ACK" \notin p.flags \/ p.ack_seq = s.local_seq

RepeatedSyn(p) ==
  /\ Takes(p) /\ "RST" \notin p.flags /\ AcksAll(p) /\ "SYN" \in p.flags
  /\ Handles(Absorbed(p), <<>>)

IsFin(p) == AcksAll(p) /\ p.flags \cap {"RST", "SYN"} = {} /\ "FIN" \in p.flags

\* The same, with the FIN counted right away.
FinBehindQueueCounted(p) ==
  /\ Takes(p) /\ IsFin(p) /\ s.state = "ESTABLISHED" /\ Absorbed(p).forward # <<>>
  /\ Handles([Absorbed(p) EXCEPT !.state = "CLOSE_WAIT",
                                 !.remote_seq = SeqAdd(@, 1)], <<>>)

\* The app's FIN with data still queued: it is confirmed once that is sent.
FinBehindQueue(p) ==
  /\ Takes(p) /\ IsFin(p) /\ s.state = "ESTABLISHED" /\ Absorbed(p).forward # <<>>
  /\ Handles([Absorbed(p) EXCEPT !.state = "CLOSE_WAIT"], <<>>)

\* The app's FIN with nothing queued, from ESTABLISHED or FIN_WAIT1.
FinConfirmed(p) ==
  /\ Takes(p) /\ IsFin(p)
  /\ s.state = "ESTABLISHED" => Absorbed(p).forward = <<>>
  /\ s.state \in {"ESTABLISHED", "FIN_WAIT1"}
  /\ \E ok \in Results :
       LET x == [Absorbed(p) EXCEPT !.remote_seq = SeqAdd(@, 1)]
           next == IF s.state = "ESTABLISHED" THEN "CLOSE_WAIT" ELSE "CLOSE"
       IN  Handles([x EXCEPT !.state = IF ok THEN next ELSE "CLOSING"],
                   Out(ok, write_tcp(x, {"ACK"}, 0)))

\* A repeated FIN that is counted and acknowledged again.
FinIgnoredCounted(p) ==
  /\ Takes(p) /\ IsFin(p) /\ s.state \notin {"ESTABLISHED", "FIN_WAIT1"}
  /\ LET x == [Absorbed(p) EXCEPT !.remote_seq = SeqAdd(@, 1)]
     IN  Handles(x, <<write_tcp(x, {"ACK"}, 0)>>)

\* "repeated FIN" and "invalid FIN".
FinIgnored(p) ==
  /\ Takes(p) /\ IsFin(p) /\ s.state \notin {"ESTABLISHED", "FIN_WAIT1"}
  /\ Handles(Absorbed(p), <<>>)

\* An ACK of everything sent completes the handshake, or the close.
AckAll(p) ==
  /\ Takes(p) /\ AcksAll(p) /\ p.flags = {"ACK"}
  /\ Handles([Absorbed(p) EXCEPT !.acked = p.ack_seq,
                              !.state = CASE @ = "SYN_RECV" -> "ESTABLISHED"
                                          [] @ = "LAST_ACK" -> "CLOSING"
                                          [] OTHER -> @], <<>>)

\* How an ACK of something else is read: "ack + 1 == local_seq" is a keep
\* alive, whatever else it may be.
AckClass(x, ack) ==
  CASE SeqAdd(ack, 1) = x.local_seq -> "keep alive"
    [] SeqAdd(ack, 1) # x.local_seq /\ Compare(ack, x.local_seq) < 0 ->
         IF Compare(ack, x.acked) <= 0 THEN "repeated" ELSE "previous"
    [] OTHER -> "future"

\* Its FIN, if it carries one, is not looked at.
AckOther(p) ==
  /\ Takes(p) /\ "RST" \notin p.flags /\ ~AcksAll(p)
  /\ \E ok \in Results :
       CASE AckClass(s, p.ack_seq) = "previous" ->
              Handles([Absorbed(p) EXCEPT !.acked = p.ack_seq], <<>>)
         [] AckClass(s, p.ack_seq) = "future" ->
              Handles(write_rst(Absorbed(p)), Out(ok, RstPacket(s)))
         [] OTHER -> Handles(Absorbed(p), <<>>)

handle_tcp ==
  /\ pc = "batch" /\ batch # <<>> /\ Head(batch) = "tun" /\ tun # <<>>
  /\ LET p == Head(tun) IN
       \/ NewSession(p)
       \/ UnknownSession(p)
       \/ WasClosed(p)
       \/ DataAfterClose(p)
       \/ ReceivedReset(p)
       \/ RepeatedSyn(p)
       \/ FinBehindQueue(p)
       \/ FinConfirmed(p)
       \/ FinIgnored(p)
       \/ AckAll(p)
       \/ AckOther(p)

-----------------------------------------------------------------------------
(* check_tcp_socket: an event of the socket, one action per outcome        *)

\* The thread has handled the event at the head of its batch.
NextEvent ==
  /\ batch' = Tail(batch)
  /\ pc' = IF Tail(batch) = <<>> THEN "monitor" ELSE "batch"

OnSocketEvent(x, out) ==
  /\ pc = "batch" /\ batch # <<>> /\ Head(batch) = "sock"
  /\ s' = x
  /\ Deliver(out)
  /\ NextEvent
  /\ UNCHANGED <<mask, tun>>

\* EPOLLERR.
SocketError ==
  /\ "ERR" \in mask
  /\ \E ok \in Results : OnSocketEvent(write_rst(s), Out(ok, RstPacket(s)))
  /\ UNCHANGED <<remote, taken, leaked>>

\* The connect has completed: the app's SYN is answered.
SocketConnected ==
  /\ "ERR" \notin mask /\ s.state = "LISTEN"
  /\ LET x == [s EXCEPT !.remote_seq = SeqAdd(@, 1)] IN
       \E ok \in Results :
         OnSocketEvent(IF ok THEN [x EXCEPT !.local_seq = SeqAdd(@, 1),
                                            !.state = "SYN_RECV"]
                             ELSE Written(x, FALSE),
                       Out(ok, write_tcp(x, {"SYN", "ACK"}, 0)))
  /\ UNCHANGED <<remote, taken, leaked>>

Rest(g) == g.len - g.sent
LastSeq(g) == SeqAdd(g.seq, g.len)
NextSeq(g) == SeqAdd(g.seq, g.sent)

\* Forwarding that looks at the number of the first segment only.
ForwardableUnchecked(x, n) ==
  /\ n <= Len(x.forward)
  /\ n > 0 => NextSeq(x.forward[1]) = x.remote_seq

\* The forwarding loop may take the first n segments of the queue: each one
\* starts where remote_seq is once the one before it is sent.
Forwardable(x, n) ==
  /\ n <= Len(x.forward)
  /\ \A i \in 1 .. n :
       NextSeq(x.forward[i]) = IF i = 1 THEN x.remote_seq
                                        ELSE LastSeq(x.forward[i - 1])

\* n segments are sent and freed, and part bytes of the one behind them.
Forward(x, n, part) ==
  LET q    == x.forward
      left == SubSeq(q, n + 1, Len(q))
  IN  [x EXCEPT
        !.forward = IF part = 0 THEN left ELSE [left EXCEPT ![1].sent = @ + part],
        !.remote_seq = CASE part > 0 -> SeqAdd(q[n + 1].seq, q[n + 1].sent + part)
                         [] part = 0 /\ n > 0 -> LastSeq(q[n])
                         [] OTHER -> @]

\* What send() is given of segment i: the bytes [from, to).
Chunk(x, i, part) ==
  LET g == x.forward[i]
  IN  [from |-> g.data + g.sent,
       to   |-> g.data + (IF part = 0 THEN g.len ELSE g.sent + part)]

\* The history after n segments and part bytes of the one behind them.
Taken(h, x, n, part, lost) ==
  LET m == IF part = 0 THEN n ELSE n + 1
      c(i) == Chunk(x, i, IF i <= n THEN 0 ELSE part)
  IN  IF m = 0 THEN h
      ELSE [next    |-> c(m).to,
            inOrder |-> /\ h.inOrder
                        /\ \A i \in 1 .. m :
                             c(i).from = IF i = 1 THEN h.next ELSE c(i - 1).to,
            givenUp |-> h.givenUp \/ lost]

\* What the loop may do: n segments are done with and of the next one part is
\* sent; it may stop anywhere for want of room. A send() that fails, with
\* EAGAIN or because the connection has failed, returns -1; "sent > len"
\* compares that as a size_t, so its segment counts as sent: lost.
ForwardChoices ==
  {c \in [n : 0 .. Len(s.forward), part : 0 .. AppBytes, lost : BOOLEAN] :
     /\ Forwardable(s, c.n)
     /\ c.part > 0 => /\ Forwardable(s, c.n + 1)
                      /\ c.part < Rest(s.forward[c.n + 1])
                      /\ remote.st = "up"
     /\ c.n > 0 \/ c.part > 0 => "OUT" \in mask
     /\ c.lost => c.n > 0
     /\ c.n > 0 /\ remote.st # "up" => c.lost}

\* The socket after the loop: the first send() to fail takes its error.
AfterSends(lost) ==
  IF lost /\ remote.st = "err" THEN [remote EXCEPT !.st = "hup", !.eof = TRUE]
                              ELSE remote

\* After the loop the window is computed anew; with something forwarded, or
\* the window reopened, an ACK is due. It confirms the app's FIN as well once
\* the queue has run empty in CLOSE_WAIT.
AckForwarded(x, sent, window) ==
  [x EXCEPT !.recv_window = window,
            !.remote_seq = IF sent /\ x.forward = <<>> /\ x.state = "CLOSE_WAIT"
                           THEN SeqAdd(@, 1) ELSE @]

\* Reading for an event reported before the session was reset.
MayReadStale(x) == "IN" \in mask /\ SendWindow(x) > 0 /\ x.socket

\* The session may be read from; its state is looked at after the ACK.
MayRead(x) == Transferring(x) /\ "IN" \in mask /\ SendWindow(x) > 0

\* Nothing to read, or not now, or the read is interrupted.
ReadsNothing(x, out, r) ==
  /\ OnSocketEvent(x, out)
  /\ remote' = r

ReadFails(x, out, r) ==
  /\ MayRead(x) /\ r.st = "err"
  /\ \E ok \in Results :
       OnSocketEvent(write_rst(x), out \o Out(ok, RstPacket(x)))
  /\ remote' = r

\* End of file without counting the FIN that was sent.
ReadsEofUncounted(x, out, r) ==
  /\ MayRead(x) /\ r.st # "err" /\ r.inbox = 0 /\ r.eof
  /\ OnSocketEvent([x EXCEPT !.socket = FALSE,
                             !.state = IF @ = "ESTABLISHED" THEN "FIN_WAIT1"
                                                            ELSE "LAST_ACK"],
                   Append(out, write_tcp(x, {"FIN", "ACK"}, 0)))
  /\ remote' = NoRemote

\* End of file: a FIN, or with data still queued an RST; the socket is closed.
ReadsEof(x, out, r) ==
  /\ MayRead(x) /\ r.st # "err" /\ r.inbox = 0 /\ r.eof
  /\ LET y == [x EXCEPT !.socket = FALSE] IN
       \E ok \in Results :
         IF x.forward = <<>>
         THEN OnSocketEvent(
                IF ok THEN [y EXCEPT !.local_seq = SeqAdd(@, 1),
                                     !.state = IF @ = "ESTABLISHED" THEN "FIN_WAIT1"
                                                                    ELSE "LAST_ACK"]
                      ELSE Written(y, FALSE),
                out \o Out(ok, write_tcp(x, {"FIN", "ACK"}, 0)))
         ELSE OnSocketEvent(write_rst(y), out \o Out(ok, RstPacket(x)))
  /\ remote' = NoRemote

\* Reading that does not look at whether the data could be written.
ReadsDataUnchecked(x, out, r) ==
  /\ MayRead(x)
  /\ \E n \in 1 .. Min2(SendWindow(x), r.inbox), ok \in Results :
       OnSocketEvent([x EXCEPT !.local_seq = SeqAdd(@, n)],
                     out \o Out(ok, write_tcp(x, {"ACK"}, n)))
       /\ remote' = [r EXCEPT !.inbox = @ - n]

\* Data: at most what the send window takes, passed on to the app.
ReadsData(x, out, r) ==
  /\ MayRead(x)
  /\ \E n \in 1 .. Min2(SendWindow(x), r.inbox), ok \in Results :
       /\ OnSocketEvent(IF ok THEN [x EXCEPT !.local_seq = SeqAdd(@, n)]
                              ELSE Written(x, FALSE),
                        out \o Out(ok, write_tcp(x, {"ACK"}, n)))
       /\ remote' = [r EXCEPT !.inbox = @ - n]

\* Forward, acknowledge, read.
SocketTransfers ==
  /\ "ERR" \notin mask /\ s.state # "LISTEN"
  /\ \E c \in ForwardChoices, window \in BOOLEAN, ok \in Results :
       LET sent == c.n > 0 \/ c.part > 0
           acks == sent \/ (~s.recv_window /\ window)
           x    == AckForwarded(Forward(s, c.n, c.part), sent, window)
           y    == IF acks THEN Written(x, ok) ELSE x
           out  == IF acks THEN Out(ok, write_tcp(x, {"ACK"}, 0)) ELSE <<>>
           r    == AfterSends(c.lost)
       IN  /\ window => s.socket
           /\ taken' = Taken(taken, s, c.n, c.part, c.lost /\ remote.st = "up")
           /\ UNCHANGED leaked
           /\ \/ ReadsNothing(y, out, r)
              \/ ReadFails(y, out, r)
              \/ ReadsEof(y, out, r)
              \/ ReadsData(y, out, r)

check_tcp_socket ==
  \/ SocketError
  \/ SocketConnected
  \/ SocketTransfers

-----------------------------------------------------------------------------
(* handle_events: the rest of the loop                                     *)

\* The events monitor_tcp_session asks for; room is whether the socket's
\* buffer takes the segment at the head of the queue.
Wanted(x, room) ==
  {"ERR"}
    \cup (IF x.state = "LISTEN" \/
             (Transferring(x) /\ x.forward # <<>> /\ room
                /\ NextSeq(Head(x.forward)) = x.remote_seq)
          THEN {"OUT"} ELSE {})
    \cup (IF Transferring(x) /\ SendWindow(x) > 0 THEN {"IN"} ELSE {})

\* Monitors a session with a socket. With the send window shut it may be time
\* for a keep-alive ACK, of one byte less; when the events change they are set
\* with epoll_ctl, and a session for which that fails is CLOSING.
monitor_tcp_session ==
  /\ pc = "monitor"
  /\ pc' = "check"
  /\ \/ ~s.socket /\ Deliver(<<>>) /\ s' = s
     \/ /\ s.socket
        /\ \E room, set, probe \in BOOLEAN, ok \in Results :
             LET wanted == Wanted(s, room)
                 x      == IF probe THEN Written(s, ok) ELSE s
                 old    == [s EXCEPT !.remote_seq = SeqAdd(@, Mod - 1)]
             IN  /\ probe => Transferring(s) /\ SendWindow(s) = 0
                 /\ set => s.watched
                 /\ s' = [x EXCEPT !.events = wanted,
                                   !.state = IF wanted # s.events /\ ~set
                                             THEN "CLOSING" ELSE @]
                 /\ Deliver(IF probe THEN Out(ok, write_tcp(old, {"ACK"}, 0))
                                     ELSE <<>>)
  /\ UNCHANGED <<batch, mask, tun, remote, taken, leaked>>

\* The session after its timeout, when that has expired: in LISTEN it closes
\* without a word.
TimedOut(x, expired) ==
  IF ~expired \/ ~Live(x) THEN x
  ELSE IF x.state = "LISTEN" THEN [x EXCEPT !.state = "CLOSING"]
  ELSE write_rst(x)

\* Closing that takes a closed socket for a closed session.
SocketClosedIfOpen(x) ==
  IF x.state = "CLOSING" /\ x.socket
  THEN [x EXCEPT !.socket = FALSE, !.state = "CLOSE"] ELSE x

\* Closing that forgets the socket.
SocketClosedLeaks(x) == IF x.state = "CLOSING" THEN [x EXCEPT !.state = "CLOSE"] ELSE x

\* A CLOSING session gives its socket back and lingers in CLOSE.
SocketClosed(x) ==
  IF x.state = "CLOSING" THEN [x EXCEPT !.socket = FALSE, !.state = "CLOSE"] ELSE x

\* One check of the session: time it out, close it, or free it once it was
\* CLOSE when the check began and has lingered (TCP_KEEP_TIMEOUT).
check_tcp_session(expired) ==
  /\ pc = "check" /\ s.state # "NONE"
  /\ pc' = "wait"
  /\ LET x == SocketClosed(TimedOut(s, expired)) IN
       /\ s' = IF s.state = "CLOSE" /\ expired THEN NoSession ELSE x
       /\ remote' = IF x.socket THEN remote ELSE NoRemote
  /\ \E ok \in Results :
       Deliver(IF expired /\ Live(s) /\ s.state # "LISTEN"
               THEN Out(ok, RstPacket(s)) ELSE <<>>)
  /\ UNCHANGED <<batch, mask, tun, taken, leaked>>

\* The last check was less than EPOLL_MIN_CHECK ago, or there is no session.
SkipCheck ==
  /\ pc = "check"
  /\ pc' = "wait"
  /\ UNCHANGED <<s, batch, mask, tun, app, remote, taken, leaked>>

\* The socket has an event the session asked for; an error is always reported,
\* and so is a hangup, which no handler looks at.
Readable == remote.st \in {"err", "hup"} \/ remote.inbox > 0 \/ remote.eof
Reported(writable) ==
  {e \in s.events \cup {"ERR"} :
     \/ e = "IN" /\ Readable
     \/ e = "OUT" /\ remote.st # "connecting" /\ writable
     \/ e = "ERR" /\ remote.st = "err"}

\* epoll_wait reports all that is ready, in any order; it times out only when
\* nothing is.
epoll_wait ==
  /\ pc = "wait"
  /\ \E writable \in BOOLEAN :
       LET found == Reported(writable)
           sock  == IF s.socket /\ s.watched /\ (found # {} \/ remote.st = "hup")
                   THEN {"sock"} ELSE {}
           ready == sock \cup (IF tun # <<>> THEN {"tun"} ELSE {})
       IN  \/ /\ ready = {}
              /\ pc' = "monitor"
              /\ UNCHANGED <<batch, mask>>
           \/ /\ ready # {}
              /\ pc' = "batch"
              /\ batch' \in {b \in Batches : {b[i] : i \in 1 .. Len(b)} = ready}
              /\ mask' = IF sock = {} THEN {} ELSE found
  /\ UNCHANGED <<s, tun, app, remote, taken, leaked>>

\* The tun event is done once nothing is readable any more.
TunDrained ==
  /\ pc = "batch" /\ batch # <<>> /\ Head(batch) = "tun" /\ tun = <<>>
  /\ NextEvent
  /\ UNCHANGED <<s, mask, tun, app, remote, taken, leaked>>

handle_events ==
  \/ monitor_tcp_session
  \/ \E expired \in BOOLEAN : check_tcp_session(expired)
  \/ SkipCheck
  \/ epoll_wait
  \/ handle_tcp
  \/ TunDrained
  \/ check_tcp_socket

-----------------------------------------------------------------------------
(* The app's kernel and the server: external, modelled as far as the code  *)
(* relies on them. Offsets are those of the app's stream.                  *)

\* The app hands a packet to the tun device, which may drop it.
Post(p) ==
  /\ Len(tun) < MaxTun
  /\ \/ tun' = Append(tun, p)
     \/ Lossy /\ tun' = tun
  /\ UNCHANGED <<s, pc, batch, mask, remote, taken, leaked>>

PacketOf(a, flags, from, len, window) ==
  [flags |-> flags, seq |-> SeqAdd(a.iss, from), len |-> len,
   data |-> IF from = 0 THEN 1 ELSE from, window |-> window,
   ack_seq |-> IF "ACK" \in flags THEN SeqAdd(a.irs, a.rcv) ELSE 0]

\* The app connects, or repeats its SYN.
AppConnects ==
  \E iss \in AppISNs, w \in Windows, n \in 0 .. (IF SynData THEN AppBytes ELSE 0) :
    LET a == IF app.st = "closed"
             THEN [app EXCEPT !.st = "syn_sent", !.iss = iss, !.nxt = n + 1]
             ELSE app
    IN  /\ app.st \in {"closed", "syn_sent"}
        /\ app' = a
        /\ a.nxt = n + 1 /\ a.iss = iss
        /\ Post(PacketOf(a, {"SYN"}, 0, n, w))

\* The app sends bytes from .. to - 1, new ones or from the first one that is
\* not acknowledged, with or without its FIN; or an ACK alone.
AppSends ==
  /\ app.st = "open"
  /\ \E from \in {app.una, app.nxt}, to \in 1 .. AppBytes + 2, fin \in BOOLEAN,
        w \in Windows :
       LET len == to - from
           end == IF fin THEN to + 1 ELSE to
       IN  /\ from <= to
           /\ len > 0 => to <= AppBytes + 1
           /\ from < app.nxt => end <= app.nxt
           /\ fin => to = AppBytes + 1
           /\ len = 0 /\ ~fin => from = app.nxt
           /\ Post(PacketOf(app, IF fin THEN {"ACK", "FIN"} ELSE {"ACK"}, from, len, w))
           /\ app' = [app EXCEPT !.nxt = IF end > @ THEN end ELSE @,
                                 !.edge = IF app.rcv + w > @ THEN app.rcv + w ELSE @]

\* The app aborts the connection.
AppAborts ==
  /\ app.st \in {"syn_sent", "open", "aborted"}
  /\ Post(PacketOf(app, {"RST"}, app.nxt, 0, 0))
  /\ app' = [app EXCEPT !.st = "aborted"]

\* The server: the connect completes or the connection fails; bytes arrive,
\* then the end of the stream.
Server(r) ==
  /\ s.socket
  /\ remote' = r
  /\ UNCHANGED <<s, pc, batch, mask, tun, app, taken, leaked>>

ServerAccepts == remote.st = "connecting" /\ Server([remote EXCEPT !.st = "up"])
ServerFails   == remote.st \in {"connecting", "up"} /\ Server([remote EXCEPT !.st = "err"])
ServerSends   == /\ remote.st = "up" /\ remote.left > 0
                 /\ Server([remote EXCEPT !.left = @ - 1, !.inbox = @ + 1])
ServerCloses  == remote.st = "up" /\ ~remote.eof /\ Server([remote EXCEPT !.left = 0, !.eof = TRUE])

\* Monitoring a session neither reads nor undoes what they do, so they need
\* not act just before it.
Environment ==
  /\ pc # "monitor"
  /\ \/ AppConnects \/ AppSends \/ AppAborts
     \/ ServerAccepts \/ ServerFails \/ ServerSends \/ ServerCloses

-----------------------------------------------------------------------------

Init ==
  /\ s = NoSession
  /\ pc = "monitor" /\ batch = <<>> /\ mask = {} /\ tun = <<>>
  /\ app = [st |-> "closed", iss |-> 0, una |-> 0, nxt |-> 0, irs |-> 0,
            rcv |-> 0, edge |-> 0, faults |-> {}]
  /\ remote = NoRemote
  /\ taken = [next |-> 1, inOrder |-> TRUE, givenUp |-> FALSE] /\ leaked = FALSE

Next == handle_events \/ Environment

Spec == Init /\ [][Next]_vars

\* The thread of handle_events keeps running; the app does not keep the tun
\* device readable for ever; a CLOSING session meets a check that is not
\* skipped, and a CLOSE one, whose time nothing renews, one after its timeout.
FairSpec ==
  /\ Spec
  /\ WF_vars(handle_events)
  /\ SF_vars(TunDrained)
  /\ SF_vars(s.state = "CLOSING" /\ \E expired \in BOOLEAN : check_tcp_session(expired))
  /\ SF_vars(s.state = "CLOSE" /\ check_tcp_session(TRUE))

-----------------------------------------------------------------------------
(* Properties *)

\* tcp.c:73-80, 390-393: a session holds its socket as long as it may use it
\* and gives it back exactly once: FIN_WAIT1, LAST_ACK and CLOSE have none, so
\* that freeing a session loses no socket of its own. It speaks of sockets that
\* became a session's: what a failed open leaves behind (leaked) never does.
SocketMatchesState ==
  /\ s.state \in {"LISTEN", "SYN_RECV", "ESTABLISHED", "CLOSE_WAIT"} => s.socket
  /\ s.state \in {"NONE", "FIN_WAIT1", "LAST_ACK", "CLOSE"} => ~s.socket

\* session.c:257: an event waiting in the batch points to a session that still
\* exists and has its socket, whatever the events before it did.
EventsNameLiveSessions ==
  \A i \in 1 .. Len(batch) : batch[i] = "sock" => s.state # "NONE" /\ s.socket

\* How much remote_seq has advanced beyond the bytes given to the socket.
Confirmed == (s.remote_seq - s.remote_start - (taken.next - 1)) % Mod

\* tcp.c:253, 344, 727, 737: remote_seq counts the forwarded bytes, the SYN
\* once and the FIN once, whichever of the three places confirms the FIN.
SynAndFinCountedOnce ==
  /\ s.state = "LISTEN" => Confirmed = 0
  /\ s.state \in {"SYN_RECV", "ESTABLISHED", "FIN_WAIT1"} => Confirmed = 1
  /\ s.state = "CLOSE_WAIT" => Confirmed = IF s.forward = <<>> THEN 2 ELSE 1
  /\ s.state = "LAST_ACK" => Confirmed = 2
  /\ s.state \in {"CLOSING", "CLOSE"} => Confirmed \in 0 .. 2

\* tcp.c:266-318: what send() is given is a prefix of the app's stream: no
\* byte twice, none skipped, none out of order, whatever was retransmitted.
ForwardedInOrder == taken.inOrder

\* tcp.c:409-410: what the app gets is the server's stream without a gap, also
\* when writes to the tun fail.
NoGapForApp == "gap" \notin app.faults

\* tcp.c:354-359: the app never gets more than a window it has advertised.
WithinAppWindow == "overrun" \notin app.faults

\* tcp.c:350: after an RST the app gets no data, no FIN and no SYN+ACK, even
\* for events that were reported before the session was reset.
NothingAfterReset == "after_reset" \notin app.faults

\* tcp.c:346, 728, 738: the app is never acknowledged what it has not sent.
NoAckOfUnsent == "unsent" \notin app.faults

\* tcp.c:801: no ACK the app has sent ever counts as an ACK of the future,
\* which would reset the session.
NoFutureAck ==
  \A i \in 1 .. Len(tun) :
    Live(s) /\ "ACK" \in tun[i].flags /\ tun[i].ack_seq # s.local_seq
      => AckClass(s, tun[i].ack_seq) # "future"

\* tcp.c:37-97, 982: a session that is closing never comes back, and what the
\* app sends to a closed one does not make it linger anew.
ClosingIsFinal ==
  [][/\ s.state = "CLOSING" => s'.state \in {"CLOSING", "CLOSE"}
     /\ s.state = "CLOSE" => s'.state \in {"CLOSE", "NONE"}]_vars

\* tcp.c:37-97: whatever the app still sends, a session that is closing is
\* freed, its 5-tuple becomes usable again.
EveryClosingSessionIsFreed ==
  s.state \in {"CLOSING", "CLOSE"} ~> s.state = "NONE"

\* The phase of TcpLifecycle that a state of the session stands for.
Phase ==
  CASE s.state = "NONE"                           -> "free"
    [] s.state \in {"LISTEN", "SYN_RECV"}         -> "opening"
    [] s.state \in {"ESTABLISHED", "CLOSE_WAIT"}  -> "open"
    [] s.state \in {"FIN_WAIT1", "LAST_ACK"}      -> "halfclosed"
    [] s.state = "CLOSING"                        -> "ending"
    [] s.state = "CLOSE"                          -> "lingering"

Lifecycle == INSTANCE TcpLifecycle
  WITH Bytes <- AppBytes, phase <- Phase, fd <- s.socket, sent <- taken.next

\* tcp.c, session.c: the session with its packets, events and retransmissions
\* does what TcpLifecycle promises: one socket, given back once; bytes passed
\* on only with it; an end that is never undone and always completes.
ImplementsLifecycle == Lifecycle!Spec

\* tcp.c:297, "// Retry later": bytes a send() did not take for want of room
\* (EAGAIN) are sent later.
UnsentBytesAreRetried == ~taken.givenUp

\* tcp.c:261, "// Always forward data": what is queued can still be forwarded;
\* the head of the queue is not behind what was confirmed.
QueueIsNeverStuck ==
  Transferring(s) /\ s.forward # <<>>
    => Compare(NextSeq(Head(s.forward)), s.remote_seq) >= 0
=============================================================================
