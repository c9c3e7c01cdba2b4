----------------------- MODULE DatagramSessionsProofs -----------------------
(***************************************************************************)
(* Type correctness and the safety of DatagramSessions, for any flows,     *)
(* limit and bounds: a session has its socket until it is closed or freed, *)
(* an event of the batch names a live session, a flow has one session, and *)
(* none but DNS sessions are added once the limit was reached.             *)
(***************************************************************************)
EXTENDS DatagramSessions, SequenceTheorems, FiniteSetTheorems, TLAPS

Free == {i \in Slots : ~Exists(i)}

\* A session that exists has a flow, and what does not exist has none.
FlowsMatchStates ==
  \A i \in Slots : Exists(i) <=> session[i].flow # "none"

\* A ping's event that reported no error has a reply to read: it is handled
\* once, and nothing else reads the socket.
PingsHaveReplies ==
  \A i \in batch \ {"tun"} :
    IsIcmp(i) /\ i \notin failed => session[i].inbox # <<>>

\* What the app has sent finds room.
RoomForPackets == Cardinality(Free) >= Len(tun)

Inv ==
  /\ TypeOK /\ FlowsMatchStates /\ SocketsMatchStates
  /\ EventsNameLiveSessions /\ PingsHaveReplies
  /\ OneSessionPerFlow /\ RoomForPackets

-----------------------------------------------------------------------------
(* How a step changes the sessions *)

\* Slot i holds x from now on.
Holds(i, x) == session' = [session EXCEPT ![i] = x]

\* A session that has its socket goes on with it, or has finished. What it has
\* read leaves a ping with something to read, or with its event done.
Keeps(i, x) ==
  /\ session[i].socket /\ Holds(i, x)
  /\ x \in Session /\ x.socket /\ x.flow = session[i].flow
  /\ x.state \in {session[i].state, "FINISHING"}
  /\ IsIcmp(i) /\ i \in batch' /\ session[i].inbox # <<>> => x.inbox # <<>>

\* A flow that nothing answers for gets a session, in a slot that is free;
\* at the limit, only one to DNS.
Opens(i, x) ==
  /\ ~Exists(i) /\ Holds(i, x)
  /\ x \in Session /\ x.socket /\ x.state \in {"ACTIVE", "FINISHING"}
  /\ x.flow \in Flows /\ (sessions >= MaxSessions => x.flow \in DnsFlows)
  /\ \A j \in Slots : session[j].flow = x.flow =>
       x.flow \in IcmpFlows /\ session[j].state # "ACTIVE"

\* A check leaves a session as it is, closes it or frees it.
Checks ==
  /\ batch' = {} /\ session' \in [Slots -> Session]
  /\ \A i \in Slots :
       \/ session'[i] = session[i]
       \/ Exists(i) /\ session'[i] = NoSession
       \/ /\ Exists(i) /\ session'[i].flow = session[i].flow /\ ~IsIcmp(i)
          /\ session'[i].state = "CLOSED" /\ ~session'[i].socket

SessionStep ==
  \/ UNCHANGED session
  \/ \E i \in Slots, x \in Session : Keeps(i, x) \/ Opens(i, x)
  \/ Checks

\* The slot of no session.
LEMMA NoSessionType == NoSession \in Session
<1>1. (CHOOSE e \in EchoIds : TRUE) \in EchoIds
  BY DatagramAssumption
<1>2. <<>> \in Seq(EchoIds)
  BY EmptySeq
<1> QED
  BY <1>1, <1>2 DEF NoSession, Session

\* A session that has finished, or has lost its error, is a session.
LEMMA FinishedType ==
  ASSUME NEW x \in Session
  PROVE  /\ [x EXCEPT !.state = "FINISHING", !.err = FALSE] \in Session
         /\ [x EXCEPT !.err = FALSE, !.state = "FINISHING"] \in Session
         /\ [x EXCEPT !.err = TRUE] \in Session
BY DEF Session

\* A session that has read or received is a session.
LEMMA ReadType ==
  ASSUME NEW x \in Session, NEW s \in {"FREE", "ACTIVE", "FINISHING", "CLOSED"},
         NEW q \in Seq(EchoIds)
  PROVE  /\ [x EXCEPT !.inbox = q, !.state = s] \in Session
         /\ [x EXCEPT !.inbox = q] \in Session
BY DEF Session

\* A session that has sent a datagram is the same or has finished.
LEMMA SentShape ==
  ASSUME NEW x \in Session, NEW p \in Packet, NEW y \in Sent(x, p)
  PROVE  /\ y \in Session /\ y.socket = x.socket /\ y.flow = x.flow
         /\ y.state \in {x.state, "FINISHING"} /\ y.inbox = x.inbox
<1>1. p.id \in EchoIds
  BY DEF Packet
<1>2. CASE y = [x EXCEPT !.state = "FINISHING", !.err = FALSE]
  BY <1>2, FinishedType DEF Session
<1>3. CASE y = x
  BY <1>3
<1>4. CASE y = [x EXCEPT !.asked = @ \cup {p.id}]
  <2>1. y \in Session
    BY <1>1, <1>4 DEF Session
  <2> QED
    BY <1>4, <2>1 DEF Session
<1> QED
  BY <1>2, <1>3, <1>4 DEF Sent

\* A session that has failed to receive has finished.
LEMMA RecvShape ==
  ASSUME NEW x \in Session, x.err \/ x.inbox # <<>>
  PROVE  LET y == RecvFinishes(x) IN
         /\ y \in Session /\ y.socket = x.socket /\ y.flow = x.flow
         /\ y.state = "FINISHING"
<1>1. CASE x.err
  <2>1. RecvFinishes(x) = [x EXCEPT !.err = FALSE, !.state = "FINISHING"]
    BY <1>1 DEF RecvFinishes
  <2>2. RecvFinishes(x) \in Session
    BY <2>1, FinishedType
  <2> QED
    BY <2>1, <2>2 DEF Session
<1>2. CASE ~x.err
  <2>1. RecvFinishes(x) = [x EXCEPT !.inbox = Tail(x.inbox), !.state = "FINISHING"]
    BY <1>2 DEF RecvFinishes, Session
  <2>2. Tail(x.inbox) \in Seq(EchoIds)
    BY <1>2, HeadTailProperties DEF Session
  <2>3. RecvFinishes(x) \in Session
    BY <2>1, <2>2 DEF Session
  <2> QED
    BY <2>1, <2>3 DEF Session
<1> QED
  BY <1>1, <1>2

\* A new session has the flow of its packet and a socket, and goes on.
LEMMA OpenedShape ==
  ASSUME NEW p \in Packet, NEW added \in BOOLEAN
  PROVE  LET x == Opened(p, added) IN
         /\ x \in Session /\ x.socket /\ x.flow = p.flow /\ x.state = "ACTIVE"
BY NoSessionType DEF Opened, NoSession, Session, Packet, Flows

\* A check of one session.
LEMMA CheckShape ==
  ASSUME NEW x \in Session, NEW expired \in BOOLEAN
  PROVE  /\ LET y == check_icmp_session(x, expired) IN y = NoSession \/ y = x
         /\ LET y == check_udp_session(x, expired) IN
            \/ y = NoSession \/ y = x
            \/ y \in Session /\ y.flow = x.flow /\ y.state = "CLOSED" /\ ~y.socket
<1>1. <<>> \in Seq(EchoIds)
  BY EmptySeq
<1>2. LET y == [x EXCEPT !.state = "CLOSED", !.socket = FALSE, !.watched = FALSE,
                         !.inbox = <<>>, !.err = FALSE] IN
      y \in Session /\ y.flow = x.flow /\ y.state = "CLOSED" /\ ~y.socket
  BY <1>1 DEF Session
<1> QED
  BY <1>2 DEF check_icmp_session, check_udp_session

-----------------------------------------------------------------------------
(* Every step changes the sessions in one of these ways *)


\* There is a free slot for the session of a packet.
LEMMA FreeSlot ==
  ASSUME Inv, tun # <<>>
  PROVE  \E j \in Slots : ~Exists(j)
<1>1. tun \in Seq(Packet) /\ Len(tun) \in Nat \ {0}
  BY EmptySeq DEF Inv, TypeOK
<1>2. IsFiniteSet(Free) /\ Cardinality(Free) \in Nat
  BY DatagramAssumption, FS_Subset, FS_CardinalityType DEF Free
<1>3. Cardinality(Free) # 0
  BY <1>1, <1>2 DEF Inv, RoomForPackets
<1> QED
  BY <1>3, FS_EmptySet DEF Free

\* A packet of the app.
LEMMA PacketStep ==
  ASSUME Inv, handle_ip
  PROVE  /\ SessionStep /\ "tun" \in batch /\ tun # <<>> /\ tun' = Tail(tun)
         /\ UNCHANGED <<pc, sessions, batch, failed, misnamed>>
<1> DEFINE p == Head(tun)
<1>1. /\ "tun" \in batch /\ tun # <<>> /\ tun' = Tail(tun)
      /\ UNCHANGED <<pc, sessions, batch, failed, misnamed>>
      /\ Dropped(p) \/ Ignored(p) \/ Forwarded(p) \/ NewSession(p)
  BY DEF handle_ip, Read
<1>2. p \in Packet
  BY <1>1, HeadTailProperties DEF Inv, TypeOK
<1>3. session \in [Slots -> Session]
  BY DEF Inv, TypeOK
<1> HIDE DEF p
<1>4. CASE Dropped(p) \/ Ignored(p)
  BY <1>1, <1>4 DEF Dropped, Ignored, SessionStep
<1>5. CASE Forwarded(p)
  <2>1. PICK i \in SessionsFor(p) :
          /\ session[i].state = "ACTIVE"
          /\ \E x \in Sent(session[i], p) : session' = [session EXCEPT ![i] = x]
    BY <1>5 DEF Forwarded
  <2>2. PICK x \in Sent(session[i], p) : Holds(i, x)
    BY <2>1 DEF Holds
  <2>3. i \in Slots /\ session[i] \in Session
    BY <1>3, <2>1 DEF SessionsFor, Of
  <2>4. session[i].socket
    BY <2>1, <2>3 DEF Inv, SocketsMatchStates
  <2>5. Keeps(i, x) /\ x \in Session
    BY <1>2, <2>2, <2>3, <2>4, SentShape DEF Keeps
  <2> QED
    BY <1>1, <2>3, <2>5 DEF SessionStep
<1>6. CASE NewSession(p)
  <2>1. CASE UNCHANGED session
    BY <1>1, <2>1 DEF SessionStep
  <2>2. CASE ~UNCHANGED session
    <3> DEFINE i == CHOOSE j \in Slots : ~Exists(j)
    <3>1. PICK added \in BOOLEAN : \E x \in Sent(Opened(p, added), p) :
            session' = [session EXCEPT ![i] = x]
      BY <1>6, <2>2 DEF NewSession
    <3>2. PICK x \in Sent(Opened(p, added), p) : session' = [session EXCEPT ![i] = x]
      BY <3>1
    <3>3. i \in Slots /\ ~Exists(i)
      BY <1>1, FreeSlot
    <3> HIDE DEF i
    <3>4. /\ x \in Session /\ x.socket /\ x.flow = p.flow
          /\ x.state \in {"ACTIVE", "FINISHING"}
      BY <1>2, SentShape, OpenedShape
    <3>5. ~OverLimit(p) /\ SessionsFor(p) = {}
      BY <1>6 DEF NewSession
    <3>6. \A j \in Slots : session[j].flow = p.flow =>
             p.flow \in IcmpFlows /\ session[j].state # "ACTIVE"
      BY <3>5 DEF SessionsFor, Of
    <3>7. sessions >= MaxSessions => p.flow \in DnsFlows
      <4>1. SUFFICES ASSUME sessions >= MaxSessions PROVE p.flow \in DnsFlows
        OBVIOUS
      <4>2. p.flow \notin IcmpFlows /\ has_udp_session(p.flow)
        BY <3>5, <4>1 DEF OverLimit
      <4>3. Of(p.flow) = {}
        BY <3>6, <4>2 DEF Of
      <4> QED
        BY <4>2, <4>3 DEF has_udp_session
    <3>8. p.flow \in Flows
      BY <1>2 DEF Packet
    <3>9. Opens(i, x)
      BY <3>2, <3>3, <3>4, <3>6, <3>7, <3>8 DEF Opens, Holds
    <3> QED
      BY <1>1, <3>3, <3>4, <3>9 DEF SessionStep
  <2> QED
    BY <2>1, <2>2
<1> QED
  BY <1>1, <1>4, <1>5, <1>6

\* A session in the batch that is no ping reads until nothing is left.
LEMMA UdpStep ==
  ASSUME Inv, NEW i \in Slots, check_udp_socket(i)
  PROVE  SessionStep /\ UNCHANGED <<pc, sessions, batch, failed, tun, misnamed>>
<1> DEFINE x == session[i]
<1>1. session \in [Slots -> Session] /\ x \in Session
  BY DEF Inv, TypeOK
<1>2. x.socket /\ i \in batch /\ ~IsIcmp(i) /\ x.inbox # <<>>
  BY DatagramAssumption DEF Inv, EventsNameLiveSessions, check_udp_socket
<1>3. UNCHANGED <<pc, sessions, batch, failed, tun, misnamed>>
  BY DEF check_udp_socket, Becomes
<1> HIDE DEF x
<1>4. CASE Becomes(i, RecvFinishes(x))
  <2>1. Keeps(i, RecvFinishes(x)) /\ RecvFinishes(x) \in Session
    BY <1>1, <1>2, <1>4, RecvShape DEF Keeps, Becomes, Holds, x
  <2> QED
    BY <1>3, <2>1 DEF SessionStep
<1>5. ASSUME NEW s \in {x.state, "FINISHING"},
             Becomes(i, [x EXCEPT !.inbox = Tail(x.inbox), !.state = s])
      PROVE  SessionStep
  <2> DEFINE y == [x EXCEPT !.inbox = Tail(x.inbox), !.state = s]
  <2>1. Tail(x.inbox) \in Seq(EchoIds) /\ s \in {"FREE", "ACTIVE", "FINISHING", "CLOSED"}
    BY <1>1, <1>2, HeadTailProperties DEF Session
  <2>2. y \in Session
    BY <1>1, <2>1, ReadType
  <2>3. y.socket = x.socket /\ y.flow = x.flow /\ y.state = s
    BY <1>1 DEF Session
  <2>4. Holds(i, y)
    BY <1>5 DEF Becomes, Holds
  <2> HIDE DEF y
  <2>5. Keeps(i, y)
    BY <1>2, <2>2, <2>3, <2>4 DEF Keeps, x
  <2> QED
    BY <2>2, <2>5 DEF SessionStep
<1>6. \/ Becomes(i, RecvFinishes(x))
      \/ Becomes(i, [x EXCEPT !.inbox = Tail(x.inbox), !.state =
                       IF x.flow \in DnsFlows THEN "FINISHING" ELSE x.state])
  BY <1>1 DEF check_udp_socket, x, Session
<1> QED
  BY <1>3, <1>4, <1>5, <1>6

\* A ping's socket is read once, or its error is fetched.
LEMMA IcmpStep ==
  ASSUME Inv, NEW i \in Slots, check_icmp_socket(i)
  PROVE  /\ SessionStep /\ EventDone(i) /\ UNCHANGED <<sessions, failed, tun>>
         /\ misnamed' \in BOOLEAN
<1> DEFINE x == session[i]
<1>1. session \in [Slots -> Session] /\ x \in Session /\ misnamed \in BOOLEAN
  BY DEF Inv, TypeOK
<1>2. x.socket /\ i \in batch /\ IsIcmp(i) /\ (i \notin failed => x.inbox # <<>>)
  BY DatagramAssumption DEF Inv, EventsNameLiveSessions, PingsHaveReplies, check_icmp_socket
<1>3. EventDone(i) /\ UNCHANGED <<sessions, failed, tun>>
  BY DEF check_icmp_socket, Becomes
<1>4. i \notin batch'
  BY <1>3 DEF EventDone
<1>5. misnamed' \in BOOLEAN
  BY <1>1 DEF check_icmp_socket
<1>6. ASSUME NEW y \in Session, Becomes(i, y),
             y.socket = x.socket, y.flow = x.flow, y.state \in {x.state, "FINISHING"}
      PROVE  SessionStep
  <2>1. Keeps(i, y)
    BY <1>2, <1>4, <1>6 DEF Keeps, Holds, Becomes
  <2> QED
    BY <2>1 DEF SessionStep
<1>7. CASE i \in failed
  <2> DEFINE y == [x EXCEPT !.err = FALSE, !.state = "FINISHING"]
  <2>1. Becomes(i, y)
    BY <1>7 DEF check_icmp_socket
  <2>2. y \in Session
    BY <1>1, FinishedType
  <2>3. y.socket = x.socket /\ y.flow = x.flow /\ y.state = "FINISHING"
    BY <1>1 DEF Session
  <2> HIDE DEF y
  <2>4. SessionStep
    BY <1>6, <2>1, <2>2, <2>3
  <2> QED
    BY <1>3, <1>5, <2>4
<1>8. CASE i \notin failed
  <2> DEFINE y == [x EXCEPT !.inbox = Tail(x.inbox)]
  <2>1. Becomes(i, RecvFinishes(x)) \/ Becomes(i, y)
    BY <1>8, <1>1 DEF check_icmp_socket, Session
  <2>2. y \in Session
    <3>1. Tail(x.inbox) \in Seq(EchoIds)
      BY <1>1, <1>2, <1>8, HeadTailProperties DEF Session
    <3> QED
      BY <1>1, <3>1 DEF Session
  <2>3. y.socket = x.socket /\ y.flow = x.flow /\ y.state = x.state
    BY <1>1 DEF Session
  <2> HIDE DEF y
  <2>4. SessionStep
    BY <1>1, <1>2, <1>6, <1>8, <2>1, <2>2, <2>3, RecvShape
  <2> QED
    BY <1>3, <1>5, <2>4
<1> QED
  BY <1>7, <1>8

\* The network answers or fails.
LEMMA NetworkStep ==
  ASSUME Inv, NEW i \in Slots, Answered(i) \/ NetworkFails(i)
  PROVE  SessionStep /\ UNCHANGED <<pc, sessions, batch, failed, tun, misnamed>>
<1> DEFINE x == session[i]
<1>1. session \in [Slots -> Session] /\ x \in Session
  BY DEF Inv, TypeOK
<1>2. x.socket /\ UNCHANGED <<pc, sessions, batch, failed, tun, misnamed>>
  BY DEF Answered, NetworkFails
<1>3. CASE Answered(i)
  <2>1. PICK e \in x.asked : session' = [session EXCEPT ![i].inbox = Append(@, e)]
    BY <1>3 DEF Answered
  <2> DEFINE y == [x EXCEPT !.inbox = Append(x.inbox, e)]
  <2>2. session' = [session EXCEPT ![i] = y]
    BY <1>1, <2>1
  <2>3. e \in EchoIds /\ x.inbox \in Seq(EchoIds)
    BY <1>1 DEF Session
  <2>4. Append(x.inbox, e) \in Seq(EchoIds) /\ Append(x.inbox, e) # <<>>
    BY <2>3, AppendProperties
  <2>5. y \in Session /\ y.socket = x.socket /\ y.flow = x.flow /\ y.state = x.state
        /\ y.inbox # <<>>
    BY <1>1, <2>4 DEF Session
  <2> HIDE DEF y
  <2>6. Keeps(i, y)
    BY <1>2, <2>2, <2>5 DEF Keeps, Holds
  <2> QED
    BY <1>2, <2>5, <2>6 DEF SessionStep
<1>4. CASE NetworkFails(i)
  <2> DEFINE y == [x EXCEPT !.err = TRUE]
  <2>1. session' = [session EXCEPT ![i] = y]
    BY <1>1, <1>4 DEF NetworkFails
  <2>2. y \in Session /\ y.socket = x.socket /\ y.flow = x.flow /\ y.state = x.state
        /\ y.inbox = x.inbox
    BY <1>1 DEF Session
  <2> HIDE DEF y
  <2>3. Keeps(i, y)
    BY <1>2, <2>1, <2>2 DEF Keeps, Holds
  <2> QED
    BY <1>2, <2>2, <2>3 DEF SessionStep
<1> QED
  BY <1>3, <1>4

\* A pass over the sessions, between two batches.
LEMMA CheckStep ==
  ASSUME Inv, CheckPass
  PROVE  /\ SessionStep /\ pc' = "wait"
         /\ UNCHANGED <<sessions, batch, failed, tun, misnamed>>
<1>1. PICK expired \in SUBSET {i \in Slots : Exists(i)} : CheckSessions(expired)
  BY DEF CheckPass
<1>2. pc = "check" /\ pc' = "wait" /\ UNCHANGED <<sessions, batch, failed, tun, misnamed>>
  BY <1>1 DEF CheckSessions
<1>3. batch' = {}
  BY <1>2 DEF Inv, TypeOK
<1>4. session \in [Slots -> Session]
  BY DEF Inv, TypeOK
<1>5. ASSUME NEW i \in Slots
      PROVE  /\ session'[i] \in Session
             /\ \/ session'[i] = session[i]
                \/ Exists(i) /\ session'[i] = NoSession
                \/ /\ Exists(i) /\ session'[i].flow = session[i].flow /\ ~IsIcmp(i)
                   /\ session'[i].state = "CLOSED" /\ ~session'[i].socket
  <2> DEFINE gone == i \in expired
  <2>1. session[i] \in Session /\ gone \in BOOLEAN
    BY <1>4
  <2>2. session'[i] = IF ~Exists(i) THEN session[i]
                      ELSE IF IsIcmp(i) THEN check_icmp_session(session[i], gone)
                      ELSE check_udp_session(session[i], gone)
    BY <1>1 DEF CheckSessions
  <2> HIDE DEF gone
  <2>3. CASE ~Exists(i)
    BY <2>1, <2>2, <2>3
  <2>4. CASE Exists(i) /\ IsIcmp(i)
    BY <2>1, <2>2, <2>4, CheckShape, NoSessionType
  <2>5. CASE Exists(i) /\ ~IsIcmp(i)
    BY <2>1, <2>2, <2>5, CheckShape, NoSessionType
  <2> QED
    BY <2>3, <2>4, <2>5
<1>6. session' \in [Slots -> Session]
  <2>1. session' = [i \in Slots |-> session'[i]]
    BY <1>1 DEF CheckSessions
  <2> QED
    BY <1>5, <2>1
<1> QED
  BY <1>2, <1>3, <1>5, <1>6 DEF SessionStep, Checks

\* The other steps leave the sessions alone.
LEMMA StepOfSessions ==
  ASSUME Inv, [Next]_vars
  PROVE  SessionStep
<1>1. CASE UNCHANGED vars
  BY <1>1 DEF vars, SessionStep
<1>2. CASE CountSessions \/ SkipCheck \/ epoll_wait \/ TunDrained \/ AppSends
  BY <1>2 DEF CountSessions, SkipCheck, epoll_wait, TunDrained, AppSends, SessionStep
<1>3. CASE handle_ip \/ CheckPass
  BY <1>3, PacketStep, CheckStep
<1>4. ASSUME NEW i \in Slots, check_udp_socket(i) \/ UdpDone(i) \/ check_icmp_socket(i)
      PROVE  SessionStep
  BY <1>4, UdpStep, IcmpStep DEF UdpDone, SessionStep
<1>5. ASSUME NEW i \in Slots, Answered(i) \/ NetworkFails(i)
      PROVE  SessionStep
  BY <1>5, NetworkStep
<1> QED
  BY <1>1, <1>2, <1>3, <1>4, <1>5 DEF Next, handle_events, Environment

-----------------------------------------------------------------------------
(* What holds of the sessions *)

\* The sessions stay sessions, each with a socket or not as its state says,
\* and one to a flow.
LEMMA SessionsKept ==
  ASSUME Inv, SessionStep
  PROVE  /\ session' \in [Slots -> Session]
         /\ FlowsMatchStates' /\ SocketsMatchStates' /\ OneSessionPerFlow'
<1>1. /\ session \in [Slots -> Session]
      /\ FlowsMatchStates /\ SocketsMatchStates /\ OneSessionPerFlow
  BY DEF Inv, TypeOK
<1>2. "none" \notin Flows
  BY DatagramAssumption DEF Flows
<1>3. CASE UNCHANGED session
  BY <1>1, <1>3 DEF FlowsMatchStates, SocketsMatchStates, OneSessionPerFlow, Exists, IsIcmp
<1>4. ASSUME NEW i \in Slots, NEW x \in Session, Keeps(i, x)
      PROVE  /\ session' \in [Slots -> Session]
             /\ FlowsMatchStates' /\ SocketsMatchStates' /\ OneSessionPerFlow'
  <2>1. /\ session' = [session EXCEPT ![i] = x] /\ x.socket /\ session[i].socket
        /\ x.flow = session[i].flow /\ x.state \in {session[i].state, "FINISHING"}
    BY <1>4 DEF Keeps, Holds
  <2>2. session' \in [Slots -> Session]
    BY <1>1, <2>1
  <2>3. session'[i] = x /\ \A j \in Slots \ {i} : session'[j] = session[j]
    BY <1>1, <2>1
  <2>4. session[i].state \in {"ACTIVE", "FINISHING"} /\ x.state \in {"ACTIVE", "FINISHING"}
    BY <1>1, <2>1 DEF SocketsMatchStates
  <2>5. \A j \in Slots : /\ session'[j].flow = session[j].flow
                         /\ Exists(j)' <=> Exists(j)
                         /\ session'[j].state = "ACTIVE" => session[j].state = "ACTIVE"
    BY <2>1, <2>3, <2>4 DEF Exists
  <2>6. FlowsMatchStates'
    BY <1>1, <2>5 DEF FlowsMatchStates
  <2>7. SocketsMatchStates'
    <3> SUFFICES ASSUME NEW j \in Slots
                 PROVE  session'[j].socket <=> session'[j].state \in {"ACTIVE", "FINISHING"}
      BY DEF SocketsMatchStates
    <3> QED
      BY <1>1, <2>1, <2>3, <2>4 DEF SocketsMatchStates
  <2>8. OneSessionPerFlow'
    BY <1>1, <2>5 DEF OneSessionPerFlow, IsIcmp
  <2> QED
    BY <2>2, <2>6, <2>7, <2>8
<1>5. ASSUME NEW i \in Slots, NEW x \in Session, Opens(i, x)
      PROVE  /\ session' \in [Slots -> Session]
             /\ FlowsMatchStates' /\ SocketsMatchStates' /\ OneSessionPerFlow'
  <2>1. /\ session' = [session EXCEPT ![i] = x] /\ x.socket /\ ~Exists(i)
        /\ x.state \in {"ACTIVE", "FINISHING"} /\ x.flow \in Flows
        /\ \A j \in Slots : session[j].flow = x.flow =>
             x.flow \in IcmpFlows /\ session[j].state # "ACTIVE"
    BY <1>5 DEF Opens, Holds
  <2>2. session' \in [Slots -> Session]
    BY <1>1, <2>1
  <2>3. session'[i] = x /\ \A j \in Slots \ {i} : session'[j] = session[j]
    BY <1>1, <2>1
  <2>6. FlowsMatchStates'
    BY <1>1, <1>2, <2>1, <2>3 DEF FlowsMatchStates, Exists
  <2>7. SocketsMatchStates'
    <3> SUFFICES ASSUME NEW j \in Slots
                 PROVE  session'[j].socket <=> session'[j].state \in {"ACTIVE", "FINISHING"}
      BY DEF SocketsMatchStates
    <3> QED
      BY <1>1, <2>1, <2>3 DEF SocketsMatchStates
  <2>8. OneSessionPerFlow'
    <3> SUFFICES ASSUME NEW j \in Slots, NEW k \in Slots,
                        Exists(j)', Exists(k)', session'[j].flow = session'[k].flow,
                        IsIcmp(j)' => session'[j].state = "ACTIVE" /\ session'[k].state = "ACTIVE",
                        j # k
                 PROVE  FALSE
      BY DEF OneSessionPerFlow
    <3>1. CASE j # i /\ k # i
      BY <1>1, <2>3, <3>1 DEF OneSessionPerFlow, Exists, IsIcmp
    <3>2. CASE j = i
      BY <2>1, <2>3, <3>2 DEF IsIcmp
    <3>3. CASE k = i
      BY <2>1, <2>3, <3>3 DEF IsIcmp
    <3> QED
      BY <3>1, <3>2, <3>3
  <2> QED
    BY <2>2, <2>6, <2>7, <2>8
<1>6. CASE Checks
  <2>1. /\ session' \in [Slots -> Session]
        /\ \A i \in Slots :
             \/ session'[i] = session[i]
             \/ Exists(i) /\ session'[i] = NoSession
             \/ /\ Exists(i) /\ session'[i].flow = session[i].flow /\ ~IsIcmp(i)
                /\ session'[i].state = "CLOSED" /\ ~session'[i].socket
    BY <1>6 DEF Checks
  <2>2. NoSession.state = "FREE" /\ NoSession.flow = "none" /\ ~NoSession.socket
    BY DEF NoSession
  <2>3. FlowsMatchStates'
    BY <1>1, <2>1, <2>2 DEF FlowsMatchStates, Exists
  <2>4. SocketsMatchStates'
    <3> SUFFICES ASSUME NEW j \in Slots
                 PROVE  session'[j].socket <=> session'[j].state \in {"ACTIVE", "FINISHING"}
      BY DEF SocketsMatchStates
    <3> QED
      BY <1>1, <2>1, <2>2 DEF SocketsMatchStates
  <2>5. \A j \in Slots : Exists(j)' =>
          /\ Exists(j) /\ session'[j].flow = session[j].flow
          /\ session'[j].state = "ACTIVE" => session[j].state = "ACTIVE"
    BY <2>1, <2>2 DEF Exists
  <2>6. OneSessionPerFlow'
    BY <1>1, <2>5 DEF OneSessionPerFlow, IsIcmp
  <2> QED
    BY <2>1, <2>3, <2>4, <2>6
<1> QED
  BY <1>3, <1>4, <1>5, <1>6 DEF SessionStep

-----------------------------------------------------------------------------
(* What holds of the batch and of the packets *)

\* The loop keeps its types, whatever happens to the sessions; and outside
\* epoll_wait the batch only shrinks.
LEMMA LoopKept ==
  ASSUME Inv, [Next]_vars
  PROVE  /\ pc' \in {"count", "check", "wait", "batch"}
         /\ sessions' \in 0 .. Cardinality(Slots)
         /\ (pc' = "batch") <=> (batch' # {})
         /\ batch' \subseteq Slots \cup {"tun"} /\ failed' \subseteq Slots
         /\ tun' \in Seq(Packet) /\ misnamed' \in BOOLEAN
         /\ epoll_wait \/ (batch' \subseteq batch /\ failed' = failed)
<1> USE DEF TypeOK
<1>1. TypeOK
  BY DEF Inv
<1>2. CASE UNCHANGED vars
  BY <1>1, <1>2 DEF vars
<1>3. CASE CountSessions
  <2>1. IsFiniteSet(Slots) /\ Active \in SUBSET Slots
    BY DatagramAssumption DEF Active
  <2>2. Cardinality(Active) \in 0 .. Cardinality(Slots)
    <3>1. Cardinality(Active) \in Nat /\ Cardinality(Slots) \in Nat
      BY <2>1, FS_Subset, FS_CardinalityType
    <3>2. Cardinality(Active) <= Cardinality(Slots)
      BY <2>1, FS_Subset
    <3> QED
      BY <3>1, <3>2
  <2> QED
    BY <1>1, <1>3, <2>2 DEF CountSessions
<1>4. CASE SkipCheck
  BY <1>1, <1>4 DEF SkipCheck
<1>5. CASE epoll_wait
  <2>1. Ready \subseteq Slots
    BY DEF Ready
  <2> QED
    BY <1>1, <1>5, <2>1 DEF epoll_wait
<1>6. CASE CheckPass
  BY <1>1, <1>6, CheckStep DEF Inv, CheckPass, CheckSessions
<1>7. CASE handle_ip
  <2>1. Tail(tun) \in Seq(Packet)
    BY <1>1, <1>7, PacketStep, HeadTailProperties
  <2> QED
    BY <1>1, <1>7, <2>1, PacketStep
<1>8. CASE TunDrained
  BY <1>1, <1>8 DEF TunDrained, EventDone
<1>9. ASSUME NEW i \in Slots, check_udp_socket(i)
      PROVE  UNCHANGED <<pc, sessions, batch, failed, tun, misnamed>>
  BY <1>9, UdpStep
<1>10. ASSUME NEW i \in Slots, UdpDone(i) \/ check_icmp_socket(i)
       PROVE  EventDone(i) /\ UNCHANGED <<sessions, failed, tun>> /\ misnamed' \in BOOLEAN
  BY <1>1, <1>10, IcmpStep DEF UdpDone
<1>11. CASE AppSends
  <2>1. PICK p \in Packet : tun' = Append(tun, p)
    BY <1>11 DEF AppSends
  <2>2. tun' \in Seq(Packet)
    BY <1>1, <2>1, AppendProperties
  <2> QED
    BY <1>1, <1>11, <2>2 DEF AppSends
<1>12. ASSUME NEW i \in Slots, Answered(i) \/ NetworkFails(i)
       PROVE  UNCHANGED <<pc, sessions, batch, failed, tun, misnamed>>
  BY <1>12, NetworkStep
<1>13. CASE \E i \in Slots : check_udp_socket(i) \/ Answered(i) \/ NetworkFails(i)
  BY <1>1, <1>9, <1>12, <1>13
<1>14. CASE \E i \in Slots : UdpDone(i) \/ check_icmp_socket(i)
  <2>1. PICK i \in Slots : EventDone(i) /\ UNCHANGED <<sessions, failed, tun>> /\ misnamed' \in BOOLEAN
    BY <1>10, <1>14
  <2> QED
    BY <1>1, <2>1 DEF EventDone
<1> QED
  BY <1>2, <1>3, <1>4, <1>5, <1>6, <1>7, <1>8, <1>11, <1>13, <1>14
     DEF Next, handle_events, Environment

\* Only a failed open may leave a socket open.
LEMMA LeakedKept ==
  ASSUME Inv, [Next]_vars
  PROVE  leaked' \in BOOLEAN
<1>1. leaked \in BOOLEAN
  BY DEF Inv, TypeOK
<1>2. ASSUME handle_ip PROVE leaked' \in {leaked, TRUE}
  BY <1>2 DEF handle_ip, Dropped, Ignored, Forwarded, NewSession
<1>3. ASSUME NEW i \in Slots, check_udp_socket(i) \/ UdpDone(i) \/ check_icmp_socket(i)
      PROVE  leaked' = leaked
  BY <1>3 DEF check_udp_socket, UdpDone, check_icmp_socket, Becomes
<1>4. ASSUME CountSessions \/ SkipCheck \/ epoll_wait \/ CheckPass \/ TunDrained
      PROVE  leaked' = leaked
  BY <1>4 DEF CountSessions, SkipCheck, epoll_wait, CheckPass, CheckSessions, TunDrained
<1>5. ASSUME Environment PROVE leaked' = leaked
  BY <1>5 DEF Environment, AppSends, Answered, NetworkFails
<1>6. ASSUME UNCHANGED vars PROVE leaked' = leaked
  BY <1>6 DEF vars
<1> QED
  BY <1>1, <1>2, <1>3, <1>4, <1>5, <1>6 DEF Next, handle_events

\* An event of the batch keeps its session, its socket and, if it is a ping's,
\* its reply.
LEMMA EventsKept ==
  ASSUME Inv, [Next]_vars
  PROVE  EventsNameLiveSessions' /\ PingsHaveReplies'
<1>1. /\ session \in [Slots -> Session] /\ batch \subseteq Slots \cup {"tun"}
      /\ EventsNameLiveSessions /\ PingsHaveReplies /\ SocketsMatchStates
  BY DEF Inv, TypeOK
<1>2. CASE epoll_wait
  <2>1. ASSUME NEW i \in batch' \ {"tun"}
        PROVE  /\ session'[i] = session[i] /\ session[i].socket /\ i \in Slots
               /\ i \notin failed' => session[i].inbox # <<>>
    <3>1. i \in Ready
      BY <1>2, <2>1 DEF epoll_wait
    <3> QED
      BY <1>2, <3>1 DEF epoll_wait, Ready
  <2>2. \A i \in Slots : session[i].socket => Exists(i)
    BY <1>1 DEF SocketsMatchStates, Exists
  <2> QED
    BY <2>1, <2>2 DEF EventsNameLiveSessions, PingsHaveReplies, Exists
<1>3. CASE batch' \subseteq batch /\ failed' = failed
  <2>1. CASE UNCHANGED session
    BY <1>1, <1>3, <2>1 DEF EventsNameLiveSessions, PingsHaveReplies, Exists, IsIcmp
  <2>2. ASSUME NEW k \in Slots, NEW x \in Session, Keeps(k, x)
        PROVE  EventsNameLiveSessions' /\ PingsHaveReplies'
    <3>1. /\ session' = [session EXCEPT ![k] = x] /\ x.socket /\ session[k].socket
          /\ x.flow = session[k].flow /\ x.state \in {session[k].state, "FINISHING"}
          /\ IsIcmp(k) /\ k \in batch' /\ session[k].inbox # <<>> => x.inbox # <<>>
      BY <2>2 DEF Keeps, Holds
    <3>2. session'[k] = x /\ \A j \in Slots \ {k} : session'[j] = session[j]
      BY <1>1, <3>1
    <3>3. x.state # "FREE"
      BY <1>1, <3>1 DEF SocketsMatchStates
    <3>4. ASSUME NEW i \in batch' \ {"tun"}
          PROVE  /\ Exists(i)' /\ session'[i].socket
                 /\ IsIcmp(i)' /\ i \notin failed' => session'[i].inbox # <<>>
      <4>1. i \in Slots /\ i \in batch \ {"tun"}
        BY <1>1, <1>3, <3>4
      <4>2. Exists(i) /\ session[i].socket
            /\ (IsIcmp(i) /\ i \notin failed => session[i].inbox # <<>>)
        BY <1>1, <4>1 DEF EventsNameLiveSessions, PingsHaveReplies
      <4>3. CASE i = k
        BY <1>3, <3>1, <3>2, <3>3, <3>4, <4>2, <4>3 DEF Exists, IsIcmp
      <4>4. CASE i # k
        BY <1>3, <3>2, <4>1, <4>2, <4>4 DEF Exists, IsIcmp
      <4> QED
        BY <4>3, <4>4
    <3> QED
      BY <3>4 DEF EventsNameLiveSessions, PingsHaveReplies
  <2>3. ASSUME NEW k \in Slots, NEW x \in Session, Opens(k, x)
        PROVE  EventsNameLiveSessions' /\ PingsHaveReplies'
    <3>1. session' = [session EXCEPT ![k] = x] /\ ~Exists(k)
      BY <2>3 DEF Opens, Holds
    <3>2. \A i \in batch' \ {"tun"} : i \in Slots /\ i # k
      BY <1>1, <1>3, <3>1 DEF EventsNameLiveSessions
    <3>3. \A i \in batch' \ {"tun"} : session'[i] = session[i]
      BY <1>1, <3>1, <3>2
    <3> QED
      BY <1>1, <1>3, <3>3 DEF EventsNameLiveSessions, PingsHaveReplies, Exists, IsIcmp
  <2>4. CASE Checks
    BY <2>4 DEF Checks, EventsNameLiveSessions, PingsHaveReplies
  <2> QED
    BY <2>1, <2>2, <2>3, <2>4, StepOfSessions DEF SessionStep
<1> QED
  BY <1>2, <1>3, LoopKept

\* A packet read takes one slot at most; one is sent only if there is another.
LEMMA RoomKept ==
  ASSUME Inv, [Next]_vars
  PROVE  RoomForPackets'
<1>1. /\ session \in [Slots -> Session] /\ tun \in Seq(Packet)
      /\ RoomForPackets /\ SocketsMatchStates
  BY DEF Inv, TypeOK
<1>2. IsFiniteSet(Free) /\ IsFiniteSet(Free') /\ Len(tun) \in Nat
  BY <1>1, DatagramAssumption, FS_Subset, LenProperties DEF Free
<1>3. Cardinality(Free) \in Nat /\ Cardinality(Free') \in Nat
  BY <1>2, FS_CardinalityType
<1>4. \/ UNCHANGED session
      \/ \E i \in Slots : Free' = Free \/ Free' = Free \ {i}
      \/ Free \subseteq Free'
  <2>1. ASSUME NEW i \in Slots, NEW x \in Session, Keeps(i, x)
        PROVE  Free' = Free
    <3>1. /\ session' = [session EXCEPT ![i] = x] /\ session[i].socket
          /\ x.state \in {session[i].state, "FINISHING"}
      BY <2>1 DEF Keeps, Holds
    <3> QED
      BY <1>1, <3>1 DEF Free, Exists, SocketsMatchStates
  <2>2. ASSUME NEW i \in Slots, NEW x \in Session, Opens(i, x)
        PROVE  Free' = Free \ {i}
    <3>1. session' = [session EXCEPT ![i] = x] /\ x.state \in {"ACTIVE", "FINISHING"}
      BY <2>2 DEF Opens, Holds
    <3> QED
      BY <1>1, <3>1 DEF Free, Exists
  <2>3. CASE Checks
    BY <2>3 DEF Checks, Free, Exists
  <2> QED
    BY <2>1, <2>2, <2>3, StepOfSessions DEF SessionStep
<1>5. CASE handle_ip
  <2>1. tun # <<>> /\ tun' = Tail(tun)
    BY <1>5, PacketStep
  <2>2. Len(tun') = Len(tun) - 1
    BY <1>1, <2>1, HeadTailProperties
  <2>3. Cardinality(Free') >= Cardinality(Free) - 1
    <3>1. CASE UNCHANGED session
      BY <1>3, <3>1 DEF Free, Exists
    <3>2. ASSUME NEW i \in Slots, Free' = Free \/ Free' = Free \ {i}
          PROVE  Cardinality(Free') >= Cardinality(Free) - 1
      <4>1. Cardinality(Free \ {i}) = IF i \in Free THEN Cardinality(Free) - 1 ELSE Cardinality(Free)
        BY <1>2, FS_RemoveElement
      <4>2. Cardinality(Free') \in {Cardinality(Free), Cardinality(Free) - 1}
        BY <3>2, <4>1, Zenon
      <4> QED
        BY <1>3, <4>2
    <3>3. CASE Free \subseteq Free'
      BY <1>2, <1>3, <3>3, FS_Subset
    <3> QED
      BY <1>4, <3>1, <3>2, <3>3
  <2> QED
    BY <1>1, <1>2, <1>3, <2>2, <2>3 DEF RoomForPackets
<1>6. CASE AppSends
  <2>1. Cardinality(Free) > Len(tun) /\ UNCHANGED session
    BY <1>6 DEF AppSends, Free
  <2>2. PICK p \in Packet : tun' = Append(tun, p)
    BY <1>6 DEF AppSends
  <2>3. Len(tun') = Len(tun) + 1 /\ Free' = Free
    BY <1>1, <2>1, <2>2, AppendProperties DEF Free, Exists
  <2> QED
    BY <1>2, <1>3, <2>1, <2>3 DEF RoomForPackets
<1>7. CASE ~handle_ip /\ ~AppSends
  <2>1. UNCHANGED tun /\ Free \subseteq Free'
    <3>1. CASE UNCHANGED vars \/ CountSessions \/ SkipCheck \/ epoll_wait \/ TunDrained
      BY <3>1 DEF vars, CountSessions, SkipCheck, epoll_wait, TunDrained, Free, Exists
    <3>2. CASE CheckPass
      <4>1. UNCHANGED tun /\ batch' = {}
        BY <3>2, CheckStep DEF CheckPass, CheckSessions, Inv, TypeOK
      <4> QED
        BY <3>2, <4>1 DEF CheckPass, CheckSessions, Free, Exists
    <3>3. ASSUME NEW i \in Slots,
                 \/ check_udp_socket(i) \/ UdpDone(i) \/ check_icmp_socket(i)
                 \/ Answered(i) \/ NetworkFails(i)
          PROVE  UNCHANGED tun /\ (\A j \in Slots : ~Exists(j) => session'[j] = session[j])
      <4>1. session[i].socket \/ UdpDone(i)
        BY <3>3, DatagramAssumption DEF Inv, EventsNameLiveSessions, Answered, NetworkFails,
             check_udp_socket, check_icmp_socket
      <4>2. UNCHANGED tun
        BY <3>3 DEF check_udp_socket, check_icmp_socket, UdpDone, Becomes, Answered, NetworkFails
      <4>3. CASE UdpDone(i)
        BY <4>3 DEF UdpDone
      <4>4. CASE session[i].socket /\ ~UdpDone(i)
        <5>1. Exists(i)
          BY <1>1, <4>4 DEF SocketsMatchStates, Exists
        <5>2. \A j \in Slots \ {i} : session'[j] = session[j]
          BY <1>1, <3>3, <4>4 DEF check_udp_socket, check_icmp_socket, Becomes, Answered, NetworkFails
        <5> QED
          BY <4>2, <5>1, <5>2
      <4> QED
        BY <4>1, <4>2, <4>3, <4>4
    <3> QED
      BY <1>7, <3>1, <3>2, <3>3 DEF Next, handle_events, Environment, Free, Exists
  <2>2. Cardinality(Free) <= Cardinality(Free')
    BY <1>2, <2>1, FS_Subset
  <2> QED
    BY <1>1, <1>2, <1>3, <2>1, <2>2 DEF RoomForPackets
<1> QED
  BY <1>5, <1>6, <1>7

-----------------------------------------------------------------------------
(* The theorems *)

\* The list starts empty.
LEMMA InvAtFirst == Init => Inv
<1> SUFFICES ASSUME Init PROVE Inv
  OBVIOUS
<1>1. /\ session = [i \in Slots |-> NoSession] /\ pc = "count" /\ sessions = 0
      /\ batch = {} /\ failed = {} /\ tun = <<>> /\ misnamed = FALSE /\ leaked = FALSE
  BY DEF Init
<1>2. Cardinality(Slots) \in Nat /\ Cardinality(Free) \in Nat
  BY DatagramAssumption, FS_CardinalityType, FS_Subset DEF Free
<1>3. tun \in Seq(Packet) /\ Len(tun) = 0
  BY <1>1, EmptySeq
<1>4. \A i \in Slots : session[i] = NoSession
  BY <1>1
<1>5. NoSession.state = "FREE" /\ NoSession.flow = "none" /\ ~NoSession.socket
  BY DEF NoSession
<1>6. TypeOK
  <2>1. sessions \in 0 .. Cardinality(Slots)
    BY <1>1, <1>2
  <2>2. session \in [Slots -> Session] /\ misnamed \in BOOLEAN /\ leaked \in BOOLEAN
    BY <1>1, NoSessionType
  <2> QED
    BY <1>1, <1>3, <2>1, <2>2, Zenon DEF TypeOK
<1>7. FlowsMatchStates /\ SocketsMatchStates /\ OneSessionPerFlow
  BY <1>4, <1>5 DEF FlowsMatchStates, SocketsMatchStates, OneSessionPerFlow, Exists
<1>8. EventsNameLiveSessions /\ PingsHaveReplies /\ RoomForPackets
  BY <1>1, <1>2, <1>3 DEF EventsNameLiveSessions, PingsHaveReplies, RoomForPackets
<1> QED
  BY <1>6, <1>7, <1>8 DEF Inv

\* No step of the thread, the app or the network breaks what ties sessions,
\* batch and packets together.
THEOREM InvInductive == Inv /\ [Next]_vars => Inv'
<1> SUFFICES ASSUME Inv, [Next]_vars PROVE Inv'
  OBVIOUS
<1>1. /\ session' \in [Slots -> Session]
      /\ FlowsMatchStates' /\ SocketsMatchStates' /\ OneSessionPerFlow'
  BY StepOfSessions, SessionsKept
<1>2. TypeOK'
  BY <1>1, LoopKept, LeakedKept DEF TypeOK
<1> QED
  BY <1>1, <1>2, EventsKept, RoomKept DEF Inv

\* The invariant holds throughout.
LEMMA Invariance == Spec => []Inv
BY InvAtFirst, InvInductive, PTL DEF Spec

\* Every variable keeps its type; above all, a session is only ever read where
\* there is something to read, and a new one always finds a free slot.
THEOREM TypeCorrect == Spec => []TypeOK
<1>1. Inv => TypeOK
  BY DEF Inv
<1> QED
  BY <1>1, Invariance, PTL

\* A session has the socket it was opened with until it is closed or freed
\* (udp.c:42-47, icmp.c:37-40), for any number of sessions. It says nothing of
\* the descriptor that a failed open leaves behind: no session ever has that one.
THEOREM SocketsWithStates == Spec => []SocketsMatchStates
<1>1. Inv => SocketsMatchStates
  BY DEF Inv
<1> QED
  BY <1>1, Invariance, PTL

\* An event waiting in the batch names a session with its socket (session.c:257),
\* whatever the events handled before it did.
THEOREM EventsAreLive == Spec => []EventsNameLiveSessions
<1>1. Inv => EventsNameLiveSessions
  BY DEF Inv
<1> QED
  BY <1>1, Invariance, PTL

\* A reply is known by its flow: a flow has one UDP session, and one ping session
\* that goes on (udp.c:229-239, icmp.c:171-181).
THEOREM FlowsAreUnique == Spec => []OneSessionPerFlow
<1>1. Inv => OneSessionPerFlow
  BY DEF Inv
<1> QED
  BY <1>1, Invariance, PTL

\* Once the limit was reached when the sessions were counted, only DNS sessions
\* are added (ip.c:237-248).
THEOREM LimitHolds == Spec => NoGrowthAtLimit
<1>1. ASSUME Inv, [Next]_vars, sessions >= MaxSessions, pc = "batch",
             NEW i \in Slots, ~Exists(i), session'[i].state # "FREE"
      PROVE  session'[i].flow \in DnsFlows
  <2>1. session \in [Slots -> Session] /\ SocketsMatchStates
    BY <1>1 DEF Inv, TypeOK
  <2>2. CASE UNCHANGED session
    BY <1>1, <2>2 DEF Exists
  <2>3. ASSUME NEW k \in Slots, NEW x \in Session, Keeps(k, x)
        PROVE  FALSE
    BY <1>1, <2>1, <2>3 DEF Keeps, Holds, Exists, SocketsMatchStates
  <2>4. ASSUME NEW k \in Slots, NEW x \in Session, Opens(k, x)
        PROVE  session'[i].flow \in DnsFlows
    BY <1>1, <2>1, <2>4 DEF Opens, Holds, Exists
  <2>5. CASE Checks
    BY <1>1, <2>5 DEF Checks, Exists
  <2> QED
    BY <1>1, <2>2, <2>3, <2>4, <2>5, StepOfSessions DEF SessionStep
<1>2. Inv /\ [Next]_vars =>
        [sessions >= MaxSessions /\ pc = "batch" =>
           \A i \in Slots : ~Exists(i) /\ session'[i].state # "FREE"
             => session'[i].flow \in DnsFlows]_vars
  BY <1>1
<1> QED
  BY <1>2, Invariance, PTL DEF Spec, NoGrowthAtLimit

=============================================================================
