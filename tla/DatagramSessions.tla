-------------------------- MODULE DatagramSessions --------------------------
(***************************************************************************)
(* The UDP and ICMP sessions of the VPN stack (udp.c, icmp.c) in the list  *)
(* g_vpn_session, and the thread that serves them (session.c): it counts   *)
(* the sessions, checks them, waits for events and handles a batch of      *)
(* them, with handle_ip (ip.c) deciding for a packet of the app whether    *)
(* there is room for a session.                                            *)
(*                                                                         *)
(* A flow stands for the addresses and ports of a packet. How much time    *)
(* has passed is left open, as in TcpSession; TCP sessions and the stop    *)
(* pipe (VpnService) are left out.                                         *)
(***************************************************************************)
EXTENDS Integers, Sequences, FiniteSets

CONSTANTS
  UdpFlows,     \* flows to a UDP port other than 53
  DnsFlows,     \* flows to UDP port 53
  IcmpFlows,    \* pairs of addresses of pings
  EchoIds,      \* identifiers of the app's pings
  MaxSessions,  \* maxsessions of handle_events
  Slots,        \* bound: sessions that exist at once
  MaxQueue      \* bound: packets the tun device or a socket queues

ASSUME DatagramAssumption ==
  /\ UdpFlows \cap DnsFlows = {} /\ UdpFlows \cap IcmpFlows = {}
  /\ DnsFlows \cap IcmpFlows = {}
  /\ EchoIds # {} /\ IsFiniteSet(Slots)
  /\ MaxSessions \in Nat /\ MaxQueue \in Nat
  /\ "tun" \notin Slots /\ "none" \notin UdpFlows \cup DnsFlows \cup IcmpFlows

VARIABLES
  session,   \* g_vpn_session, by slot
  pc,        \* where handle_events is in its loop
  sessions,  \* the number of sessions counted in this round
  batch,     \* the events of this epoll_wait not handled yet
  failed,    \* those among them that reported an error
  tun,       \* packets of the app not read yet
  misnamed,  \* history: a ping was answered under another one's identifier
  leaked     \* history: an open that failed has left its socket open

vars == <<session, pc, sessions, batch, failed, tun, misnamed, leaked>>

Flows == UdpFlows \cup DnsFlows \cup IcmpFlows

\* FINISHING is also what icmp.stop stands for; watched says that epoll knows
\* the socket; asked and inbox name pings by their identifier; err is the
\* error the socket has to report.
Session ==
  [state : {"FREE", "ACTIVE", "FINISHING", "CLOSED"}, flow : Flows \cup {"none"},
   socket : BOOLEAN, watched : BOOLEAN, id : EchoIds, asked : SUBSET EchoIds,
   inbox : Seq(EchoIds), err : BOOLEAN]

Packet == [flow : Flows, id : EchoIds]

TypeOK ==
  /\ session \in [Slots -> Session]
  /\ pc \in {"count", "check", "wait", "batch"}
  /\ sessions \in 0 .. Cardinality(Slots)
  /\ (pc = "batch") <=> (batch # {})
  /\ batch \subseteq Slots \cup {"tun"} /\ failed \subseteq Slots
  /\ tun \in Seq(Packet)
  /\ misnamed \in BOOLEAN /\ leaked \in BOOLEAN

NoSession ==
  [state |-> "FREE", flow |-> "none", socket |-> FALSE, watched |-> FALSE,
   id |-> CHOOSE e \in EchoIds : TRUE, asked |-> {}, inbox |-> <<>>, err |-> FALSE]

Exists(i)   == session[i].state # "FREE"
Active      == {i \in Slots : session[i].state = "ACTIVE"}
IsIcmp(i)   == session[i].flow \in IcmpFlows
Of(flow)    == {i \in Slots : session[i].flow = flow}

-----------------------------------------------------------------------------
(* The loop: count, check, wait                                            *)

CountSessions ==
  /\ pc = "count"
  /\ sessions' = Cardinality(Active)
  /\ pc' = "check"
  /\ UNCHANGED <<session, batch, failed, tun, misnamed, leaked>>

\* A ping that has stopped, or that was idle, is closed and freed.
check_icmp_session(x, expired) ==
  IF x.state = "FINISHING" \/ expired THEN NoSession ELSE x

\* The session that keeps its socket while it lingers.
CheckUdpLeaks(x, expired) ==
  CASE x.state = "FINISHING" \/ (x.state = "ACTIVE" /\ expired) ->
         [x EXCEPT !.state = "CLOSED"]
    [] x.state = "CLOSED" /\ expired -> NoSession
    [] OTHER -> x

\* The session that lingers for good.
CheckUdpKeeps(x, expired) ==
  IF x.state = "FINISHING" \/ (x.state = "ACTIVE" /\ expired)
  THEN [x EXCEPT !.state = "CLOSED", !.socket = FALSE, !.watched = FALSE,
                 !.inbox = <<>>, !.err = FALSE]
  ELSE x

\* A UDP session that has finished, or was idle, gives its socket back and
\* lingers, UDP_KEEP_TIMEOUT from now; after that it is freed.
check_udp_session(x, expired) ==
  CASE x.state = "FINISHING" \/ (x.state = "ACTIVE" /\ expired) ->
         [x EXCEPT !.state = "CLOSED", !.socket = FALSE, !.watched = FALSE,
                   !.inbox = <<>>, !.err = FALSE]
    [] x.state = "CLOSED" /\ expired -> NoSession
    [] OTHER -> x

\* One pass over the list; expired are the sessions whose time is over.
CheckSessions(expired) ==
  /\ pc = "check"
  /\ session' = [i \in Slots |->
       CASE ~Exists(i) -> session[i]
         [] Exists(i) /\ IsIcmp(i) -> check_icmp_session(session[i], i \in expired)
         [] OTHER -> check_udp_session(session[i], i \in expired)]
  /\ pc' = "wait"
  /\ UNCHANGED <<sessions, batch, failed, tun, misnamed, leaked>>

CheckPass == \E expired \in SUBSET {i \in Slots : Exists(i)} : CheckSessions(expired)

\* The last check was less than EPOLL_MIN_CHECK ago.
SkipCheck ==
  /\ pc = "check"
  /\ pc' = "wait"
  /\ UNCHANGED <<session, sessions, batch, failed, tun, misnamed, leaked>>

\* epoll_wait reports every socket with something to read or an error.
Ready == {i \in Slots : session[i].socket /\ session[i].watched
                          /\ (session[i].inbox # <<>> \/ session[i].err)}

epoll_wait ==
  /\ pc = "wait"
  /\ batch' = Ready \cup (IF tun # <<>> THEN {"tun"} ELSE {})
  /\ failed' = {i \in Ready : session[i].err}
  /\ pc' = IF batch' = {} THEN "count" ELSE "batch"
  /\ UNCHANGED <<session, sessions, tun, misnamed, leaked>>

\* Going on with a batch that is done.
EventDoneStays(e) == batch' = batch \ {e} /\ pc' = "batch"

\* The thread is done with event e of the batch.
EventDone(e) ==
  /\ batch' = batch \ {e}
  /\ pc' = IF batch' = {} THEN "count" ELSE "batch"

-----------------------------------------------------------------------------
(* A packet of the app                                                     *)

\* DNS is always taken to have a session.
has_udp_session(flow) == flow \in DnsFlows \/ Of(flow) # {}

\* Limiting what has no session, whatever the count.
OverLimitMiscounted(p) ==
  sessions > MaxSessions /\ (p.flow \in IcmpFlows \/ ~has_udp_session(p.flow))

\* "Limit number of sessions".
OverLimit(p) ==
  sessions >= MaxSessions /\ (p.flow \in IcmpFlows \/ ~has_udp_session(p.flow))

\* Only sessions that go on, of UDP as well.
SessionsForActive(p) == {i \in Of(p.flow) : session[i].state = "ACTIVE"}

\* The session a packet belongs to: a ping that has stopped is not looked at.
SessionsFor(p) ==
  {i \in Of(p.flow) : p.flow \in IcmpFlows => session[i].state = "ACTIVE"}

\* The app's datagram is sent, or is not for want of room; an error, and the
\* one the socket has to report counts as one, finishes the session.
Sent(x, p) ==
  {[x EXCEPT !.state = "FINISHING", !.err = FALSE]}
    \cup (IF x.err THEN {} ELSE {x, [x EXCEPT !.asked = @ \cup {p.id}]})

\* A new session with its socket; epoll may fail to add that.
Opened(p, added) ==
  [NoSession EXCEPT !.state = "ACTIVE", !.flow = p.flow, !.socket = TRUE,
                    !.watched = added, !.id = p.id]

\* The thread has read the next packet.
Read ==
  /\ "tun" \in batch /\ tun # <<>>
  /\ tun' = Tail(tun)
  /\ UNCHANGED <<pc, sessions, batch, failed, misnamed>>

Dropped(p) ==
  /\ OverLimit(p)
  /\ UNCHANGED <<session, leaked>>

\* A UDP session that has finished or lingers ignores the packet.
Ignored(p) ==
  /\ ~OverLimit(p)
  /\ \E i \in SessionsFor(p) : session[i].state # "ACTIVE"
  /\ UNCHANGED <<session, leaked>>

Forwarded(p) ==
  /\ ~OverLimit(p)
  /\ \E i \in SessionsFor(p) :
       /\ session[i].state = "ACTIVE"
       /\ \E x \in Sent(session[i], p) : session' = [session EXCEPT ![i] = x]
  /\ UNCHANGED leaked

\* The socket cannot be opened, or the first packet is sent with it. When
\* protect() fails nobody closes what socket() gave.
NewSession(p) ==
  /\ ~OverLimit(p) /\ SessionsFor(p) = {}
  /\ \/ UNCHANGED session /\ leaked' \in {leaked, TRUE}
     \/ /\ LET i == CHOOSE j \in Slots : ~Exists(j) IN
             \E added \in BOOLEAN : \E x \in Sent(Opened(p, added), p) :
               session' = [session EXCEPT ![i] = x]
        /\ UNCHANGED leaked

handle_ip ==
  /\ Read
  /\ LET p == Head(tun) IN Dropped(p) \/ Ignored(p) \/ Forwarded(p) \/ NewSession(p)

\* The tun's event is done once nothing is readable any more.
TunDrained ==
  /\ "tun" \in batch /\ tun = <<>>
  /\ EventDone("tun")
  /\ UNCHANGED <<session, sessions, failed, tun, misnamed, leaked>>

-----------------------------------------------------------------------------
(* An event of a socket                                                    *)

Becomes(i, x) ==
  /\ session' = [session EXCEPT ![i] = x]
  /\ UNCHANGED <<sessions, failed, tun, leaked>>

\* Closing the socket where it fails.
RecvCloses(x) ==
  [x EXCEPT !.state = "CLOSED", !.socket = FALSE, !.watched = FALSE,
            !.inbox = <<>>, !.err = FALSE]

\* recv() fails, or returns an empty datagram: the session has finished.
RecvFinishes(x) ==
  IF x.err THEN [x EXCEPT !.err = FALSE, !.state = "FINISHING"]
  ELSE [x EXCEPT !.inbox = Tail(@), !.state = "FINISHING"]

\* One turn of the loop over what is readable. The reply goes to the app; when
\* that fails, and after any DNS reply, the session has finished.
check_udp_socket(i) ==
  LET x == session[i] IN
  /\ i \in batch /\ ~IsIcmp(i) /\ i \notin failed /\ x.inbox # <<>>
  /\ \/ Becomes(i, RecvFinishes(x))
     \/ /\ ~x.err
        /\ Becomes(i, [x EXCEPT !.inbox = Tail(@),
                                !.state = IF x.flow \in DnsFlows THEN "FINISHING" ELSE @])
  /\ UNCHANGED <<pc, batch, misnamed>>

\* Nothing more to read; with an error nothing was read at all.
UdpDone(i) ==
  /\ i \in batch /\ ~IsIcmp(i) /\ (i \in failed \/ session[i].inbox = <<>>)
  /\ EventDone(i)
  /\ UNCHANGED <<session, sessions, failed, tun, misnamed, leaked>>

\* A ping's socket: an error stops it; a reply, one at a time, goes to the app
\* under the identifier of the session's first ping.
check_icmp_socket(i) ==
  LET x == session[i] IN
  /\ i \in batch /\ IsIcmp(i)
  /\ EventDone(i)
  /\ IF i \in failed
     THEN Becomes(i, [x EXCEPT !.err = FALSE, !.state = "FINISHING"]) /\ UNCHANGED misnamed
     ELSE \/ Becomes(i, RecvFinishes(x)) /\ UNCHANGED misnamed
          \/ /\ ~x.err
             /\ Becomes(i, [x EXCEPT !.inbox = Tail(@)])
             /\ misnamed' = (misnamed \/ Head(x.inbox) # x.id)

handle_events ==
  \/ CountSessions \/ SkipCheck \/ epoll_wait
  \/ CheckPass
  \/ handle_ip \/ TunDrained
  \/ \E i \in Slots : check_udp_socket(i) \/ UdpDone(i) \/ check_icmp_socket(i)

-----------------------------------------------------------------------------
(* The app and the network: external                                       *)

\* The app sends a datagram or a ping.
AppSends ==
  /\ Len(tun) < MaxQueue
  /\ Cardinality({i \in Slots : ~Exists(i)}) > Len(tun)
  /\ \E p \in Packet :
       /\ p.flow \notin IcmpFlows => p.id = NoSession.id
       /\ tun' = Append(tun, p)
  /\ UNCHANGED <<session, pc, sessions, batch, failed, misnamed, leaked>>

\* What was asked is answered, perhaps more than once.
Answered(i) ==
  /\ session[i].socket /\ Len(session[i].inbox) < MaxQueue
  /\ \E e \in session[i].asked :
       session' = [session EXCEPT ![i].inbox = Append(@, e)]
  /\ UNCHANGED <<pc, sessions, batch, failed, tun, misnamed, leaked>>

\* The kernel aborts the socket or reports an error on it.
NetworkFails(i) ==
  /\ session[i].socket /\ ~session[i].err
  /\ session' = [session EXCEPT ![i].err = TRUE]
  /\ UNCHANGED <<pc, sessions, batch, failed, tun, misnamed, leaked>>

Environment == AppSends \/ \E i \in Slots : Answered(i) \/ NetworkFails(i)

-----------------------------------------------------------------------------

Init ==
  /\ session = [i \in Slots |-> NoSession]
  /\ pc = "count" /\ sessions = 0 /\ batch = {} /\ failed = {}
  /\ tun = <<>> /\ misnamed = FALSE /\ leaked = FALSE

Next == handle_events \/ Environment

Spec == Init /\ [][Next]_vars

\* Session i, which lingers, is checked after its timeout.
LingersEnough(i) ==
  /\ session[i].state = "CLOSED"
  /\ \E expired \in SUBSET {j \in Slots : Exists(j)} :
       i \in expired /\ CheckSessions(expired)

\* The thread keeps running; neither the app nor the network keeps it reading
\* for ever, or has an error for every read; the pass over the sessions is not
\* skipped for ever, and a session that lingers meets a pass after its timeout,
\* as nothing renews its time.
FairSpec ==
  /\ Spec
  /\ WF_vars(handle_events)
  /\ SF_vars(TunDrained)
  /\ SF_vars(\E i \in Slots : UdpDone(i))
  /\ SF_vars(\E i \in Slots : ~session[i].err /\ check_udp_socket(i))
  /\ SF_vars(CheckPass)
  /\ \A i \in Slots : SF_vars(LingersEnough(i))

-----------------------------------------------------------------------------
(* Properties *)

\* udp.c:42-47, icmp.c:37-40: a session has its socket until it is closed or
\* freed, and gives it back once: freeing a session loses no socket of its own.
\* What a failed open leaves behind (leaked) never was a session's.
SocketsMatchStates ==
  \A i \in Slots : session[i].socket <=> session[i].state \in {"ACTIVE", "FINISHING"}

\* session.c:257: an event waiting in the batch points to a session that still
\* exists and has its socket, whatever the events before it did.
EventsNameLiveSessions ==
  \A i \in batch \ {"tun"} : Exists(i) /\ session[i].socket

\* udp.c:229-239, icmp.c:171-181: a reply is known by its flow alone, so a flow
\* has one UDP session, and one ping session that goes on.
OneSessionPerFlow ==
  \A i, j \in Slots :
    /\ Exists(i) /\ Exists(j) /\ session[i].flow = session[j].flow
    /\ IsIcmp(i) => session[i].state = "ACTIVE" /\ session[j].state = "ACTIVE"
    => i = j

\* ip.c:237-248: once the limit was reached when the sessions were counted,
\* none but DNS sessions are added until they are counted again.
NoGrowthAtLimit ==
  [][sessions >= MaxSessions /\ pc = "batch"
       => \A i \in Slots : ~Exists(i) /\ session'[i].state # "FREE"
            => session'[i].flow \in DnsFlows]_vars

\* session.c:132-181: a session that has finished is freed, whatever the app
\* and the network still send; its flow becomes usable again.
FinishedSessionsAreFreed ==
  \A i \in Slots : session[i].state \in {"FINISHING", "CLOSED"} ~> ~Exists(i)

\* icmp.c:117, "restore original ID": a ping is answered under the identifier
\* it was sent with.
OriginalIdRestored == ~misnamed
=============================================================================
