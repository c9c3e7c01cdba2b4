-------------------------- MODULE SocketSuiteProofs --------------------------
(***************************************************************************)
(* The types of SocketSuite, and that the message which comes back is the  *)
(* one that was sent, for every set of clients and messages, every number  *)
(* of ports and every number of failures.                                  *)
(***************************************************************************)
EXTENDS SocketSuite, SequenceTheorems, TLAPS

\* How far an end is: what it has answered, or had answered.
Step(pc) == CASE pc = "first" -> 1
              [] pc = "second" -> 2
              [] pc \in {"done", "ok", "error"} -> 3
              [] OTHER -> 0

\* A server uses the connections or the datagrams, not both.
OneTransport ==
    /\ setup.type = "udp" => \A c \in Clients : conn[c] = NoConnection
    /\ setup.type = "tcp" => net = {}

\* What answers a client in this stage may hold.
RightAnswer(c, data) ==
    /\ client[c].pc = "first" => data = Reverse(Message[c])
    /\ client[c].pc = "second" => data = Message[c]

\* Of a connection that no read has cut in parts: a thread that can still answer has
\* nothing to read but what its client sends in this stage, and what the client has
\* to read is the answer to it.
TcpInStep(c) ==
    client[c].pc \in Stages /\ c \notin cut =>
        /\ client[c].pc = "second" /\ conn[c].srv # "closed"
              => client[c].answer = Reverse(Message[c])
        /\ conn[c].up # << >> /\ conn[c].srv # "closed" =>
              /\ conn[c].up = Out(c, client[c]) /\ conn[c].down = << >>
              /\ Step(thread[c].pc) >= Step(client[c].pc)
        /\ conn[c].down # << >> =>
              /\ RightAnswer(c, conn[c].down)
              /\ conn[c].srv # "closed" => Step(thread[c].pc) > Step(client[c].pc)

TcpClientInv(c) ==
    /\ client[c].pc # "port" /\ thread[c].pc # "created"
    /\ client[c].pc = "idle" => conn[c].srv = "none"
    /\ client[c].pc \in Stages => conn[c].srv # "none"
    /\ conn[c].srv = "backlog" => thread[c].pc = "none"
    /\ conn[c].srv = "none" /\ server.pc # "ended" => thread[c].pc = "none"
    /\ thread[c].pc \in Stages => conn[c].srv = "open"
    /\ TcpInStep(c)

TcpInv == setup.type = "tcp" => \A c \in Clients : TcpClientInv(c)

\* Neither the thread nor the client uses the port any more.
Over(t) == thread[t].pc \notin Stages \cup {"created"} /\ Finished(client[t])

\* One datagram at most is on its way to or from a client: its request for a port,
\* the port, or what it and some thread exchange.
DatagramOf(d, c) ==
    /\ client[c].pc # "idle"
    /\ ~Finished(client[c]) => d.sock = client[c].sock
    /\ d.sock = 1 =>
          /\ d.port = MainPort
          /\ IF d.way = "up" THEN thread[c].port = MainPort
             ELSE thread[c].port # MainPort /\ d.data = <<thread[c].port>>
    /\ d.sock = 2 => thread[c].port # MainPort /\ d.port = thread[c].port

\* Of a client whose port was given to nobody else: only its own thread answers it.
UdpInStep(c) ==
    client[c].pc \in Stages /\ client[c].port \notin shared =>
        /\ client[c].pc = "second" => client[c].answer = Reverse(Message[c])
        /\ \A d \in net : d.client = c =>
              IF d.way = "up"
              THEN /\ d.data = Out(c, client[c])
                   /\ Step(thread[c].pc) >= Step(client[c].pc)
              ELSE /\ RightAnswer(c, d.data)
                   /\ Step(thread[c].pc) > Step(client[c].pc)

UdpClientInv(c) ==
    /\ client[c].pc = "idle" => thread[c].port = MainPort
    /\ client[c].pc = "port" => client[c].sock = 1
    /\ Finished(client[c]) => client[c].sock = 0
    /\ client[c].pc \in Stages =>
          /\ client[c].sock = 2
          /\ client[c].port = thread[c].port /\ thread[c].port # MainPort
    /\ thread[c].pc \in Stages \cup {"created"} => thread[c].port # MainPort
    /\ UdpInStep(c)

\* Of the users of a port that was never handed out too early, all but one are over.
OwnPort ==
    \A t, u \in Clients :
        t # u /\ thread[t].port = thread[u].port /\ thread[t].port \notin shared \cup {MainPort}
            => Over(t) \/ Over(u)

UdpInv ==
    setup.type = "udp" =>
        /\ \A d, e \in net : d.client = e.client => d = e
        /\ \A d \in net : DatagramOf(d, d.client)
        /\ \A c \in Clients : UdpClientInv(c)
        /\ OwnPort

\* Nothing is said to have come back before the end.
LastIsLast == \A c \in Clients : client[c].last # << >> => client[c].pc = "ok"

Inv == OneTransport /\ TcpInv /\ UdpInv /\ LastIsLast /\ MessageComesBack

-----------------------------------------------------------------------------
(* Sequences *)

LEMMA ReverseType == \A q \in Seq(Nat) : Reverse(q) \in Seq(Nat)
<1> SUFFICES ASSUME NEW q \in Seq(Nat) PROVE Reverse(q) \in Seq(Nat)
  OBVIOUS
<1>1. Len(q) \in Nat /\ \A i \in 1 .. Len(q) : q[i] \in Nat
  BY LenProperties, ElementOfSeq
<1>2. \A i \in 1 .. Len(q) : (Len(q) - i) + 1 \in 1 .. Len(q)
  BY <1>1
<1>3. Reverse(q) \in [1 .. Len(q) -> Nat]
  BY <1>1, <1>2 DEF Reverse
<1> QED
  BY <1>1, <1>3, SeqDef

LEMMA ReverseTwice == \A q \in Seq(Nat) : Reverse(Reverse(q)) = q
<1> SUFFICES ASSUME NEW q \in Seq(Nat) PROVE Reverse(Reverse(q)) = q
  OBVIOUS
<1> DEFINE r == Reverse(q)
<1>1. Len(q) \in Nat /\ q \in [1 .. Len(q) -> Nat]
  BY LenProperties
<1>2. r = [i \in 1 .. Len(q) |-> q[(Len(q) - i) + 1]]
  BY DEF Reverse
<1>3. r \in Seq(Nat) /\ DOMAIN r = 1 .. Len(q)
  BY <1>2, ReverseType
<1>4. Len(r) = Len(q)
  BY <1>1, <1>3, LenProperties
<1>5. \A i \in 1 .. Len(q) : /\ (Len(q) - i) + 1 \in 1 .. Len(q)
                             /\ (Len(q) - ((Len(q) - i) + 1)) + 1 = i
  BY <1>1
<1>6. Reverse(r) = [i \in 1 .. Len(q) |-> r[(Len(q) - i) + 1]]
  BY <1>4 DEF Reverse
<1> HIDE DEF r
<1>7. \A i \in 1 .. Len(q) : r[(Len(q) - i) + 1] = q[i]
  BY <1>2, <1>5
<1>8. Reverse(r) = [i \in 1 .. Len(q) |-> q[i]]
  BY <1>6, <1>7
<1>9. Reverse(r) = q
  BY <1>1, <1>8
<1> QED
  BY <1>9 DEF r

\* What a read takes, and what it leaves when it takes everything.
LEMMA PartsType ==
  ASSUME NEW q \in Seq(Nat), NEW part \in Parts(q)
  PROVE  /\ part \in Seq(Nat) /\ Rest(q, part) \in Seq(Nat)
         /\ part = q => Rest(q, part) = << >>
         /\ q # << >>
<1>1. Len(q) \in Nat /\ \A i \in 1 .. Len(q) : q[i] \in Nat
  BY LenProperties, ElementOfSeq
<1>2. PICK n \in 1 .. Len(q) : part = SubSeq(q, 1, n)
  BY DEF Parts
<1>3. n \in Nat /\ n <= Len(q)
  BY <1>1
<1>4. part \in Seq(Nat)
  <2>1. \A i \in 1 .. n : q[i] \in Nat
    BY <1>1, <1>3
  <2> QED
    BY <1>2, <1>3, <2>1, SubSeqProperties
<1>5. Len(part) \in Nat
  BY <1>4, LenProperties
<1>6. Rest(q, part) \in Seq(Nat)
  <2>1. \A i \in Len(part) + 1 .. Len(q) : q[i] \in Nat
    BY <1>1, <1>5
  <2>2. Len(part) + 1 \in Int /\ Len(q) \in Int
    BY <1>1, <1>5
  <2> QED
    BY <2>1, <2>2, SubSeqProperties DEF Rest
<1>7. part = q => Rest(q, part) = << >>
  <2> SUFFICES ASSUME part = q PROVE Rest(q, part) = << >>
    OBVIOUS
  <2>1. Rest(q, part) = SubSeq(q, Len(q) + 1, Len(q))
    BY DEF Rest
  <2>2. \A i \in Len(q) + 1 .. Len(q) : q[i] \in Nat
    BY <1>1
  <2>3. Len(SubSeq(q, Len(q) + 1, Len(q))) = 0
    BY <1>1, <2>2, SubSeqProperties
  <2> QED
    BY <1>6, <2>1, <2>3, EmptySeq
<1>8. q # << >>
  BY <1>1, <1>2, EmptySeq
<1> QED
  BY <1>4, <1>6, <1>7, <1>8

LEMMA RestOfNothing == Rest(<< >>, << >>) = << >>
BY DEF Rest

LEMMA AppendToNothing == \A q \in Seq(Nat) : << >> \o q = q /\ q \o << >> = q
BY ConcatProperties, ConcatEmptySeq

LEMMA ConcatType == \A q, r \in Seq(Nat) : q \o r \in Seq(Nat)
BY ConcatProperties

-----------------------------------------------------------------------------
(* Types *)

Ports == {MainPort} \cup PortNumbers
ThreadType == [pc : Stages \cup {"none", "missing", "created", "done"}, port : Ports]
ClientType == [pc : Stages \cup {"idle", "port", "ok", "error"}, sock : 0 .. 2,
               port : Ports, answer : Seq(Nat), last : Seq(Nat)]
ConnType == [up : Seq(Nat), down : Seq(Nat), cln : BOOLEAN,
             srv : {"none", "backlog", "open", "closed"}, reset : BOOLEAN]
DatagramType == [client : Clients, way : {"up", "down"}, sock : 1 .. 2, port : Ports,
                 data : Seq(Nat)]

LEMMA Types ==
  ASSUME TypeOK
  PROVE  /\ setup.type \in {"tcp", "udp"}
         /\ server.pc \in {"down", "serving", "ended"} /\ server.port \in Ports
         /\ thread \in [Clients -> ThreadType] /\ client \in [Clients -> ClientType]
         /\ conn \in [Clients -> ConnType] /\ net \subseteq DatagramType
         /\ shared \subseteq PortNumbers /\ cut \subseteq Clients
BY SuiteAssumption DEF TypeOK, Ports, ThreadType, ClientType, ConnType, DatagramType

\* The parts of a thread, a client, a connection and a datagram.
LEMMA Fields ==
  /\ \A t \in ThreadType :
       t.pc \in Stages \cup {"none", "missing", "created", "done"} /\ t.port \in Ports
  /\ \A k \in ClientType :
       /\ k.pc \in Stages \cup {"idle", "port", "ok", "error"} /\ k.sock \in 0 .. 2
       /\ k.port \in Ports /\ k.answer \in Seq(Nat) /\ k.last \in Seq(Nat)
  /\ \A x \in ConnType :
       /\ x.up \in Seq(Nat) /\ x.down \in Seq(Nat) /\ x.cln \in BOOLEAN
       /\ x.srv \in {"none", "backlog", "open", "closed"} /\ x.reset \in BOOLEAN
  /\ \A d \in DatagramType :
       /\ d.client \in Clients /\ d.way \in {"up", "down"} /\ d.sock \in 1 .. 2
       /\ d.port \in Ports /\ d.data \in Seq(Nat)
BY DEF ThreadType, ClientType, ConnType, DatagramType

LEMMA PortFacts ==
  /\ MainPort \in Nat /\ MainPort \in Ports /\ MainPort \notin PortNumbers
  /\ \A p \in Ports : p \in Nat /\ NextPort(p) \in PortNumbers
  /\ PortNumbers \subseteq Ports
<1>1. MainPort \in Nat /\ PortCount \in Nat \ {0}
  BY SuiteAssumption DEF MainPort
<1> QED
  BY <1>1 DEF Ports, PortNumbers, NextPort

LEMMA MessageType == \A c \in Clients : Message[c] \in Seq(Nat)
BY SuiteAssumption

LEMMA HelloType == ClientHello \in Seq(Nat) /\ ServerHello \in Seq(Nat)
BY DEF ClientHello, ServerHello

LEMMA AnswerType ==
  ASSUME NEW stage \in Stages, NEW data \in Seq(Nat)
  PROVE  Answer(stage, data) \in Seq(Nat)
BY HelloType, ReverseType DEF Answer

LEMMA AfterShape ==
  /\ \A stage \in Stages :
       /\ After(stage) \in {"first", "second", "done"}
       /\ Step(After(stage)) = Step(stage) + 1 /\ Step(stage) \in 0 .. 2
       /\ After(stage) = "done" <=> stage = "second"
  /\ \A pc : Step(pc) \in 0 .. 3
BY DEF Stages, After, Step

LEMMA OutType ==
  ASSUME NEW c \in Clients, NEW k \in ClientType
  PROVE  Out(c, k) \in Seq(Nat)
<1>1. k.answer \in Seq(Nat) /\ << >> \in Seq(Nat) /\ k.pc \in Stages \cup {"idle", "port", "ok", "error"}
  BY Fields, EmptySeq
<1> QED
  BY <1>1, HelloType, MessageType DEF Out, Stages

\* The client after a read that brought data, and after one that failed.
LEMMA AdvancedShape ==
  ASSUME NEW k \in ClientType, NEW data \in Seq(Nat),
         k.pc \in Stages \/ (k.pc = "port" /\ Head(data) \in Ports)
  PROVE  LET b == Advanced(k, data)
         IN  /\ b \in ClientType
             /\ k.pc = "port" =>
                  /\ b.pc = "hello" /\ b.sock = 2 /\ b.port = Head(data)
                  /\ b.answer = k.answer /\ b.last = k.last
             /\ k.pc # "port" => b.port = k.port
             /\ k.pc \in {"hello", "first"} =>
                  /\ b.pc = (IF k.pc = "hello" THEN "first" ELSE "second")
                  /\ b.sock = k.sock /\ b.answer = data /\ b.last = k.last
             /\ k.pc = "second" => b.pc = "ok" /\ b.sock = 0 /\ b.last = data
<1>1. CASE k.pc = "port"
  <2> DEFINE b == [k EXCEPT !.pc = "hello", !.sock = 2, !.port = Head(data)]
  <2>1. Advanced(k, data) = b
    BY <1>1 DEF Advanced
  <2>2. /\ b.pc = "hello" /\ b.sock = 2 /\ b.port = Head(data)
        /\ b.answer = k.answer /\ b.last = k.last
    BY DEF ClientType
  <2>3. b \in ClientType
    <3>1. 2 \in 0 .. 2 /\ "hello" \in Stages /\ Head(data) \in Ports
      BY <1>1 DEF Stages
    <3> QED
      BY <3>1 DEF ClientType
  <2> HIDE DEF b
  <2> QED
    BY <1>1, <2>1, <2>2, <2>3
<1>2. CASE k.pc = "hello"
  <2>1. Advanced(k, data) = [k EXCEPT !.pc = "first", !.answer = data]
    BY <1>2 DEF Advanced
  <2> QED
    BY <1>2, <2>1 DEF ClientType, Stages
<1>3. CASE k.pc = "first"
  <2>1. Advanced(k, data) = [k EXCEPT !.pc = "second", !.answer = data]
    BY <1>3 DEF Advanced
  <2> QED
    BY <1>3, <2>1 DEF ClientType, Stages
<1>4. CASE k.pc = "second"
  <2> DEFINE b == [k EXCEPT !.pc = "ok", !.sock = 0, !.last = data]
  <2>1. Advanced(k, data) = b
    BY <1>4 DEF Advanced
  <2>2. b.pc = "ok" /\ b.sock = 0 /\ b.last = data /\ b.port = k.port
    BY DEF ClientType
  <2>3. b \in ClientType
    <3>1. 0 \in 0 .. 2
      OBVIOUS
    <3> QED
      BY <3>1 DEF ClientType
  <2> HIDE DEF b
  <2> QED
    BY <1>4, <2>1, <2>2, <2>3
<1> QED
  BY <1>1, <1>2, <1>3, <1>4 DEF Stages

LEMMA BrokenShape ==
  ASSUME NEW k \in ClientType
  PROVE  /\ Broken(k) \in ClientType /\ Broken(k).pc = "error" /\ Finished(Broken(k))
         /\ Broken(k).sock = 0 /\ Broken(k).port = k.port /\ Broken(k).last = k.last
<1>1. 0 \in 0 .. 2
  OBVIOUS
<1>2. Broken(k) \in ClientType
  BY <1>1 DEF Broken, ClientType
<1> QED
  BY <1>2 DEF Broken, ClientType, Finished

\* What a step changes for one client only.
LEMMA Replaced ==
  ASSUME NEW S, NEW f \in [Clients -> S], NEW c \in Clients, NEW v \in S
  PROVE  /\ [f EXCEPT ![c] = v] \in [Clients -> S]
         /\ [f EXCEPT ![c] = v][c] = v
         /\ \A b \in Clients : b # c => [f EXCEPT ![c] = v][b] = f[b]
OBVIOUS

-----------------------------------------------------------------------------
(* A step over TCP changes what belongs to one client                      *)

LEMMA TypeAfter ==
  ASSUME TypeOK, setup' = setup,
         server'.pc \in {"down", "serving", "ended"}, server'.port \in Ports,
         server' = [pc |-> server'.pc, port |-> server'.port],
         thread' \in [Clients -> ThreadType], client' \in [Clients -> ClientType],
         conn' \in [Clients -> ConnType], net' \subseteq DatagramType,
         shared' \subseteq PortNumbers, cut' \subseteq Clients, faults' \in 0 .. MaxFaults
  PROVE  TypeOK'
<1>1. server' \in [pc : {"down", "serving", "ended"}, port : Ports]
  OBVIOUS
<1> QED
  BY <1>1 DEF TypeOK, Ports, ThreadType, ClientType, ConnType, DatagramType, PortNumbers, Stages,
     MainPort

LEMMA SameServer ==
  ASSUME TypeOK, server' = server
  PROVE  /\ server'.pc \in {"down", "serving", "ended"} /\ server'.port \in Ports
         /\ server' = [pc |-> server'.pc, port |-> server'.port]
BY DEF TypeOK, Ports

\* What is kept of client c keeps its invariant.
LEMMA TcpClientKept ==
  ASSUME NEW c \in Clients, TcpClientInv(c),
         thread'[c] = thread[c], client'[c] = client[c], conn'[c] = conn[c],
         c \in cut' <=> c \in cut, server'.pc = "ended" \/ server.pc # "ended"
  PROVE  TcpClientInv(c)'
<1>1. TcpInStep(c)'
  BY DEF TcpClientInv, TcpInStep, RightAnswer, Out
<1> QED
  BY <1>1 DEF TcpClientInv

\* The message of c, as the last invariant has it.
Returned(c) ==
    /\ client[c].last # << >> => client[c].pc = "ok"
    /\ client[c].last # << >> /\ c \notin cut /\ client[c].port \notin shared
         => client[c].last = Message[c]

LEMMA ReturnedIs == LastIsLast /\ MessageComesBack <=> \A c \in Clients : Returned(c)
BY DEF Returned, LastIsLast, MessageComesBack

LEMMA ReturnedKept ==
  ASSUME NEW c \in Clients, Returned(c),
         client'[c] = client[c] \/ client'[c].last = << >>,
         c \in cut => c \in cut', shared \subseteq shared'
  PROVE  Returned(c)'
BY DEF Returned

LEMMA TcpChange ==
  ASSUME TypeOK, Inv, setup.type = "tcp", setup' = setup, net' = net, shared' = shared,
         server' = server, faults' \in 0 .. MaxFaults,
         NEW c \in Clients, NEW t \in ThreadType, NEW k \in ClientType, NEW x \in ConnType,
         thread' = [thread EXCEPT ![c] = t], client' = [client EXCEPT ![c] = k],
         conn' = [conn EXCEPT ![c] = x], cut' = cut \/ cut' = cut \cup {c},
         thread'[c] = t /\ client'[c] = k /\ conn'[c] = x => TcpClientInv(c)' /\ Returned(c)'
  PROVE  TypeOK' /\ Inv'
<1>1. /\ thread \in [Clients -> ThreadType] /\ client \in [Clients -> ClientType]
      /\ conn \in [Clients -> ConnType] /\ net \subseteq DatagramType
      /\ shared \subseteq PortNumbers /\ cut \subseteq Clients
  BY Types
<1>2. /\ thread' \in [Clients -> ThreadType] /\ thread'[c] = t
      /\ client' \in [Clients -> ClientType] /\ client'[c] = k
      /\ conn' \in [Clients -> ConnType] /\ conn'[c] = x
      /\ \A b \in Clients : b # c =>
           thread'[b] = thread[b] /\ client'[b] = client[b] /\ conn'[b] = conn[b]
  BY <1>1, Replaced
<1>3. cut' \subseteq Clients /\ \A b \in Clients : b # c => (b \in cut' <=> b \in cut)
  BY <1>1
<1>4. TypeOK'
  BY <1>1, <1>2, <1>3, SameServer, TypeAfter
<1>5. \A b \in Clients : TcpClientInv(b) /\ Returned(b)
  BY ReturnedIs DEF Inv, TcpInv
<1>6. ASSUME NEW b \in Clients PROVE TcpClientInv(b)' /\ Returned(b)'
  <2>1. CASE b = c
    BY <1>2, <2>1
  <2>2. CASE b # c
    BY <1>2, <1>3, <1>5, <2>2, TcpClientKept, ReturnedKept
  <2> QED
    BY <2>1, <2>2
<1>7. TcpInv' /\ OneTransport' /\ UdpInv'
  BY <1>6 DEF TcpInv, OneTransport, UdpInv, Inv
<1>8. LastIsLast' /\ MessageComesBack'
  BY <1>6 DEF Returned, LastIsLast, MessageComesBack
<1> QED
  BY <1>4, <1>7, <1>8 DEF Inv

LEMMA KeepsItself ==
  ASSUME TypeOK, NEW c \in Clients
  PROVE  /\ thread = [thread EXCEPT ![c] = thread[c]] /\ thread[c] \in ThreadType
         /\ client = [client EXCEPT ![c] = client[c]] /\ client[c] \in ClientType
         /\ conn = [conn EXCEPT ![c] = conn[c]] /\ conn[c] \in ConnType
         /\ faults \in 0 .. MaxFaults
<1>1. \A S : \A f \in [Clients -> S] : f = [f EXCEPT ![c] = f[c]] /\ f[c] \in S
  OBVIOUS
<1> QED
  BY <1>1, Types DEF TypeOK

LEMMA FaultType ==
  ASSUME TypeOK, Fault
  PROVE  faults' \in 0 .. MaxFaults
BY SuiteAssumption DEF TypeOK, Fault

\* A server thread for the request.
LEMMA AcceptKeeps ==
  ASSUME TypeOK, Inv, NEW c \in Clients, start_server_tcp(c)
  PROVE  TypeOK' /\ Inv'
<1>1. /\ setup.type = "tcp" /\ conn[c].srv = "backlog" /\ setup' = setup /\ net' = net
      /\ shared' = shared /\ server' = server /\ client' = client /\ cut' = cut
      /\ conn' = [conn EXCEPT ![c].srv = "open"]
      /\ CreateThread(c, [NoThread EXCEPT !.pc = "hello"])
  BY DEF start_server_tcp
<1>2. /\ conn[c] \in ConnType /\ client[c] \in ClientType /\ faults \in 0 .. MaxFaults
      /\ client = [client EXCEPT ![c] = client[c]]
  BY KeepsItself
<1>3. TcpClientInv(c) /\ Returned(c)
  BY <1>1, ReturnedIs DEF Inv, TcpInv
<1>4. /\ faults' \in 0 .. MaxFaults
      /\ \E t \in ThreadType : /\ thread' = [thread EXCEPT ![c] = t]
                               /\ t.pc \in {"hello", "missing"}
  <2> DEFINE h == [NoThread EXCEPT !.pc = "hello"]
             m == [h EXCEPT !.pc = "missing"]
  <2>1. h \in ThreadType /\ m \in ThreadType /\ h.pc = "hello" /\ m.pc = "missing"
    BY PortFacts DEF NoThread, ThreadType, Stages
  <2>2. \/ thread' = [thread EXCEPT ![c] = h] /\ faults' = faults
        \/ thread' = [thread EXCEPT ![c] = m] /\ Fault
    BY <1>1 DEF CreateThread
  <2> HIDE DEF h, m
  <2> QED
    BY <1>2, <2>1, <2>2, FaultType
<1>5. PICK t \in ThreadType : thread' = [thread EXCEPT ![c] = t] /\ t.pc \in {"hello", "missing"}
  BY <1>4
<1> DEFINE x == [conn[c] EXCEPT !.srv = "open"]
<1>6. /\ x \in ConnType /\ x.srv = "open" /\ x.up = conn[c].up /\ x.down = conn[c].down
      /\ conn' = [conn EXCEPT ![c] = x]
  BY <1>1, <1>2 DEF ConnType
<1> HIDE DEF x
<1>7. ASSUME thread'[c] = t, conn'[c] = x, client'[c] = client[c]
      PROVE  TcpClientInv(c)' /\ Returned(c)'
  <2>1. /\ client[c].pc # "port" /\ client[c].pc # "idle" /\ thread[c].pc = "none"
        /\ TcpInStep(c)
    BY <1>1, <1>3 DEF TcpClientInv
  <2>2. Step(t.pc) = 0 /\ Step(thread[c].pc) = 0
    BY <1>5, <2>1 DEF Step
  <2>3. TcpInStep(c)'
    BY <1>1, <1>6, <1>7, <2>1, <2>2 DEF TcpInStep, RightAnswer, Out
  <2>4. TcpClientInv(c)'
    BY <1>5, <1>6, <1>7, <2>1, <2>3 DEF TcpClientInv
  <2> QED
    BY <1>1, <1>3, <1>7, <2>4, ReturnedKept
<1> QED
  BY <1>1, <1>2, <1>4, <1>5, <1>6, <1>7, TcpChange

\* The answer to what a client sends in its stage is the one it waits for, if the
\* thread has come at least as far.
LEMMA AnswerIsRight ==
  ASSUME NEW c \in Clients, NEW stage \in Stages, NEW data,
         data = Out(c, client[c]), Step(stage) >= Step(client[c].pc),
         client[c].pc = "second" => client[c].answer = Reverse(Message[c])
  PROVE  RightAnswer(c, Answer(stage, data))
<1>1. CASE client[c].pc = "first"
  <2>1. stage # "hello"
    BY <1>1 DEF Step
  <2>2. data = Message[c]
    BY <1>1 DEF Out
  <2> QED
    BY <1>1, <2>1, <2>2 DEF Answer, RightAnswer
<1>2. CASE client[c].pc = "second"
  <2>1. stage # "hello"
    BY <1>2 DEF Step
  <2>2. data = Reverse(Message[c])
    BY <1>2 DEF Out
  <2>3. Answer(stage, data) = Reverse(Reverse(Message[c]))
    BY <2>1, <2>2 DEF Answer
  <2>4. Answer(stage, data) = Message[c]
    BY <2>3, ReverseTwice, MessageType
  <2> QED
    BY <1>2, <2>4 DEF RightAnswer
<1>3. CASE client[c].pc \notin {"first", "second"}
  BY <1>3 DEF RightAnswer
<1> QED
  BY <1>1, <1>2, <1>3

\* The thread reads and answers.
LEMMA ExchangeTcpKeeps ==
  ASSUME TypeOK, Inv, NEW c \in Clients, exchange_data_tcp(c)
  PROVE  TypeOK' /\ Inv'
<1> DEFINE th == thread[c]
           co == conn[c]
<1>1. /\ setup.type = "tcp" /\ th.pc \in Stages /\ setup' = setup /\ net' = net
      /\ shared' = shared /\ server' = server /\ client' = client /\ faults' = faults
  BY DEF exchange_data_tcp
<1>2. /\ th \in ThreadType /\ co \in ConnType /\ client[c] \in ClientType
      /\ faults \in 0 .. MaxFaults /\ client = [client EXCEPT ![c] = client[c]]
  BY KeepsItself
<1>3. TcpClientInv(c) /\ Returned(c)
  BY <1>1, ReturnedIs DEF Inv, TcpInv
<1>4. co.srv = "open" /\ TcpInStep(c)
  BY <1>1, <1>3 DEF TcpClientInv
<1>5. CASE /\ cut' = cut
           /\ conn' = [conn EXCEPT ![c].srv = "closed"]
           /\ thread' = [thread EXCEPT ![c].pc = "done"]
  <2> DEFINE t == [th EXCEPT !.pc = "done"]
             x == [co EXCEPT !.srv = "closed"]
  <2>1. t \in ThreadType /\ t.pc = "done" /\ thread' = [thread EXCEPT ![c] = t]
    BY <1>2, <1>5 DEF ThreadType
  <2>2. /\ x \in ConnType /\ x.srv = "closed" /\ x.down = co.down
        /\ conn' = [conn EXCEPT ![c] = x]
    BY <1>2, <1>5 DEF ConnType
  <2> HIDE DEF t, x, th, co
  <2>3. ASSUME thread'[c] = t, conn'[c] = x, client'[c] = client[c]
        PROVE  TcpClientInv(c)' /\ Returned(c)'
    <3>1. TcpInStep(c)'
      BY <1>4, <1>5, <2>2, <2>3 DEF TcpInStep, RightAnswer, co
    <3>2. client[c].pc # "port" /\ client[c].pc # "idle"
      BY <1>3, <1>4 DEF TcpClientInv, co
    <3>3. TcpClientInv(c)'
      BY <2>1, <2>2, <2>3, <3>1, <3>2 DEF TcpClientInv, Stages
    <3> QED
      BY <1>1, <1>3, <1>5, <2>3, <3>3, ReturnedKept
  <2>4. cut' = cut \/ cut' = cut \cup {c}
    BY <1>5
  <2> QED
    BY <1>1, <1>2, <2>1, <2>2, <2>3, <2>4, TcpChange
<1>6. ASSUME NEW data \in Parts(co.up),
             conn' = [conn EXCEPT
                    ![c].up = Rest(@, data),
                    ![c].down = IF conn[c].cln THEN @ \o Answer(thread[c].pc, data) ELSE @,
                    ![c].srv = IF thread[c].pc = "second" THEN "closed" ELSE @],
             thread' = [thread EXCEPT ![c].pc = After(@)],
             cut' = Cut(c, conn[c].up, data)
      PROVE  TypeOK' /\ Inv'
  <2> DEFINE answer == Answer(th.pc, data)
             down == IF co.cln THEN co.down \o answer ELSE co.down
             rest == Rest(co.up, data)
             srv == IF th.pc = "second" THEN "closed" ELSE co.srv
             t == [th EXCEPT !.pc = After(th.pc)]
             x == [co EXCEPT !.up = rest, !.down = down, !.srv = srv]
  <2>1. /\ co.up \in Seq(Nat) /\ co.down \in Seq(Nat)
        /\ co.srv \in {"none", "backlog", "open", "closed"}
    BY <1>2, Fields
  <2>2. /\ data \in Seq(Nat) /\ rest \in Seq(Nat) /\ co.up # << >>
        /\ data = co.up => rest = << >>
    BY <1>6, <2>1, PartsType
  <2>3. answer \in Seq(Nat) /\ down \in Seq(Nat)
    BY <1>1, <2>1, <2>2, AnswerType, ConcatType
  <2>4. srv \in {"none", "backlog", "open", "closed"}
    BY <2>1
  <2>5. thread' = [thread EXCEPT ![c] = t] /\ conn' = [conn EXCEPT ![c] = x]
    BY <1>6
  <2>6. After(th.pc) \in {"first", "second", "done"} /\ (After(th.pc) = "done" <=> th.pc = "second")
    BY <1>1, AfterShape
  <2>7. t \in ThreadType /\ t.pc = After(th.pc)
    BY <1>2, <2>6 DEF ThreadType, Stages
  <2> HIDE DEF answer, rest, srv, down
  <2>8. x \in ConnType /\ x.up = rest /\ x.down = down /\ x.srv = srv
    BY <1>2, <2>2, <2>3, <2>4 DEF ConnType
  <2>9. cut' = cut \/ cut' = cut \cup {c}
    BY <1>6 DEF Cut
  <2> HIDE DEF t, x
  <2>10. ASSUME thread'[c] = t, conn'[c] = x, client'[c] = client[c]
         PROVE  TcpClientInv(c)' /\ Returned(c)'
    <3>1. ASSUME client[c].pc \in Stages, c \notin cut'
          PROVE  /\ co.up = Out(c, client[c]) /\ co.down = << >>
                 /\ Step(th.pc) >= Step(client[c].pc) /\ c \notin cut /\ data = co.up
                 /\ client[c].pc = "second" => client[c].answer = Reverse(Message[c])
      <4>1. data = co.up /\ c \notin cut
        BY <1>6, <3>1 DEF Cut
      <4> QED
        BY <1>4, <2>2, <3>1, <4>1 DEF TcpInStep
    <3>2. ASSUME client[c].pc \in Stages, c \notin cut', down # << >>
          PROVE  RightAnswer(c, down)
      <4>1. down = answer
        BY <2>3, <3>1, <3>2, AppendToNothing DEF down
      <4>2. RightAnswer(c, answer)
        BY <1>1, <3>1, <3>2, AnswerIsRight DEF answer
      <4> QED
        BY <4>1, <4>2
    <3>3. Step(t.pc) = Step(th.pc) + 1 /\ Step(th.pc) \in 0 .. 2 /\ Step(client[c].pc) \in 0 .. 3
      BY <1>1, <2>7, AfterShape
    <3>4. ASSUME client[c].pc \in Stages, c \notin cut'
          PROVE  rest = << >> /\ Step(t.pc) > Step(client[c].pc)
      BY <2>2, <3>1, <3>3, <3>4
    <3>5. TcpInStep(c)'
      <4> HIDE DEF th, co
      <4> QED
        BY <1>1, <2>8, <2>10, <3>1, <3>2, <3>4 DEF TcpInStep, RightAnswer
    <3>6. client[c].pc # "port" /\ client[c].pc # "idle"
      BY <1>3, <1>4 DEF TcpClientInv
    <3>7. srv = "closed" \/ (srv = "open" /\ t.pc # "done")
      BY <1>4, <2>6, <2>7 DEF srv
    <3>8. srv = "closed" => t.pc = "done"
      BY <1>4, <2>6, <2>7 DEF srv
    <3>9. t.pc # "created"
      BY <2>6, <2>7
    <3>10. TcpClientInv(c)'
      BY <2>8, <2>10, <3>5, <3>6, <3>7, <3>8, <3>9 DEF TcpClientInv, Stages
    <3>11. Returned(c)'
      BY <1>1, <1>3, <2>9, <2>10, ReturnedKept
    <3> QED
      BY <3>10, <3>11
  <2> QED
    BY <1>1, <1>2, <2>5, <2>7, <2>8, <2>9, <2>10, TcpChange
<1> QED
  BY <1>5, <1>6 DEF exchange_data_tcp

\* The connection breaks.
LEMMA ResetKeeps ==
  ASSUME TypeOK, Inv, NEW c \in Clients, Reset(c)
  PROVE  TypeOK' /\ Inv'
<1>1. /\ setup' = setup /\ net' = net /\ shared' = shared /\ server' = server
      /\ client' = client /\ thread' = thread /\ cut' = cut
      /\ conn[c].srv # "none" /\ faults' \in 0 .. MaxFaults
  BY FaultType DEF Reset
<1>2. setup.type = "tcp"
  BY <1>1, Types DEF Inv, OneTransport, NoConnection
<1>3. /\ thread[c] \in ThreadType /\ conn[c] \in ConnType /\ client[c] \in ClientType
      /\ client = [client EXCEPT ![c] = client[c]]
      /\ thread = [thread EXCEPT ![c] = thread[c]]
  BY KeepsItself
<1> DEFINE x == [conn[c] EXCEPT !.reset = TRUE, !.up = << >>, !.down = << >>]
<1>4. /\ x \in ConnType /\ x.srv = conn[c].srv /\ x.up = << >> /\ x.down = << >>
  BY <1>3, EmptySeq DEF ConnType
<1>5. conn' = [conn EXCEPT ![c] = x]
  BY DEF Reset
<1>6. TcpClientInv(c) /\ Returned(c)
  BY <1>2, ReturnedIs DEF Inv, TcpInv
<1> HIDE DEF x
<1>7. ASSUME thread'[c] = thread[c], conn'[c] = x, client'[c] = client[c]
      PROVE  TcpClientInv(c)' /\ Returned(c)'
  <2>1. TcpInStep(c)'
    BY <1>1, <1>4, <1>6, <1>7 DEF TcpInStep, TcpClientInv
  <2>2. TcpClientInv(c)'
    BY <1>1, <1>4, <1>6, <1>7, <2>1 DEF TcpClientInv
  <2> QED
    BY <1>1, <1>6, <1>7, <2>2, ReturnedKept
<1> QED
  BY <1>1, <1>2, <1>3, <1>4, <1>5, <1>7, TcpChange

-----------------------------------------------------------------------------
(* The client over TCP                                                     *)

LEMMA NothingYet ==
  ASSUME NEW c \in Clients, Returned(c), ~Finished(client[c]) \/ client[c].pc = "idle"
  PROVE  client[c].last = << >>
BY DEF Returned, Finished

\* A client that is told nothing more has nothing to say of its message.
LEMMA BrokenKeepsTcp ==
  ASSUME TypeOK, Inv, setup.type = "tcp", NEW c \in Clients,
         ~Finished(client[c]) \/ client[c].pc = "idle",
         setup' = setup, net' = net, shared' = shared, server' = server, thread' = thread,
         cut' = cut, faults' \in 0 .. MaxFaults,
         client' = [client EXCEPT ![c] = Broken(@)],
         NEW cln \in BOOLEAN, conn' = [conn EXCEPT ![c].cln = cln]
  PROVE  TypeOK' /\ Inv'
<1>1. /\ thread[c] \in ThreadType /\ conn[c] \in ConnType /\ client[c] \in ClientType
      /\ thread = [thread EXCEPT ![c] = thread[c]]
  BY KeepsItself
<1> DEFINE x == [conn[c] EXCEPT !.cln = cln]
           k == Broken(client[c])
<1>2. x \in ConnType /\ x.srv = conn[c].srv /\ conn' = [conn EXCEPT ![c] = x]
  BY <1>1 DEF ConnType
<1>3. /\ k \in ClientType /\ k.pc = "error" /\ k.last = client[c].last
      /\ client' = [client EXCEPT ![c] = k]
  BY <1>1, BrokenShape
<1>4. TcpClientInv(c) /\ Returned(c)
  BY ReturnedIs DEF Inv, TcpInv
<1> HIDE DEF x, k
<1>5. ASSUME thread'[c] = thread[c], conn'[c] = x, client'[c] = k
      PROVE  TcpClientInv(c)' /\ Returned(c)'
  <2>1. TcpInStep(c)'
    BY <1>3, <1>5 DEF TcpInStep, Stages
  <2>2. TcpClientInv(c)'
    BY <1>2, <1>3, <1>4, <1>5, <2>1 DEF TcpClientInv, Stages
  <2>3. client'[c].last = << >>
    BY <1>3, <1>4, <1>5, NothingYet
  <2> QED
    BY <1>4, <2>2, <2>3, ReturnedKept
<1>6. /\ client' = [client EXCEPT ![c] = k] /\ conn' = [conn EXCEPT ![c] = x]
      /\ thread' = [thread EXCEPT ![c] = thread[c]]
  BY <1>1, <1>2, <1>3
<1>7. cut' = cut \/ cut' = cut \cup {c}
  OBVIOUS
<1>8. thread'[c] = thread[c] /\ client'[c] = k /\ conn'[c] = x
        => TcpClientInv(c)' /\ Returned(c)'
  BY <1>5
<1>9. thread[c] \in ThreadType /\ k \in ClientType /\ x \in ConnType
  BY <1>1, <1>2, <1>3
<1>10. /\ setup' = setup /\ net' = net /\ shared' = shared /\ server' = server
       /\ faults' \in 0 .. MaxFaults
  OBVIOUS
<1>11. TypeOK /\ Inv /\ setup.type = "tcp"
  OBVIOUS
<1> QED
  BY ONLY <1>6, <1>7, <1>8, <1>9, <1>10, <1>11, TcpChange

LEMMA KeepsClosed ==
  ASSUME TypeOK, NEW c \in Clients
  PROVE  \E cln \in BOOLEAN : conn = [conn EXCEPT ![c].cln = cln]
<1>1. conn[c].cln \in BOOLEAN
  BY KeepsItself, Fields
<1>2. conn = [conn EXCEPT ![c].cln = conn[c].cln]
  BY Types DEF ConnType
<1> QED
  BY <1>1, <1>2

LEMMA TcpConnectKeeps ==
  ASSUME TypeOK, Inv, setup.type = "tcp", NEW c \in Clients, TcpConnect(c)
  PROVE  TypeOK' /\ Inv'
<1>1. /\ setup' = setup /\ net' = net /\ shared' = shared /\ server' = server
      /\ thread' = thread /\ cut' = cut /\ faults' = faults
      /\ client[c].pc = "idle" /\ faults \in 0 .. MaxFaults
  BY KeepsItself DEF TcpConnect
<1>2. CASE server.pc = "serving"
  <2>1. /\ thread[c] \in ThreadType /\ conn[c] \in ConnType /\ client[c] \in ClientType
        /\ thread = [thread EXCEPT ![c] = thread[c]]
    BY KeepsItself
  <2> DEFINE x == [NoConnection EXCEPT !.up = ClientHello, !.cln = TRUE, !.srv = "backlog"]
             k == [client[c] EXCEPT !.pc = "hello"]
  <2>2. /\ x \in ConnType /\ x.srv = "backlog" /\ x.up = ClientHello /\ x.down = << >>
    BY EmptySeq, HelloType DEF ConnType, NoConnection
  <2>3. k \in ClientType /\ k.pc = "hello" /\ k.last = client[c].last
    BY <2>1 DEF ClientType, Stages
  <2>4. conn' = [conn EXCEPT ![c] = x] /\ client' = [client EXCEPT ![c] = k]
    BY <1>2 DEF TcpConnect
  <2>5. TcpClientInv(c) /\ Returned(c)
    BY ReturnedIs DEF Inv, TcpInv
  <2> HIDE DEF x, k
  <2>6. ASSUME thread'[c] = thread[c], conn'[c] = x, client'[c] = k
        PROVE  TcpClientInv(c)' /\ Returned(c)'
    <3>1. thread[c].pc = "none"
      BY <1>1, <1>2, <2>5 DEF TcpClientInv
    <3>2. Out(c, k) = ClientHello /\ Step(k.pc) = 0 /\ Step(thread[c].pc) = 0
      BY <2>3, <3>1 DEF Out, Step
    <3>3. TcpInStep(c)'
      BY <2>2, <2>3, <2>6, <3>2 DEF TcpInStep
    <3>4. TcpClientInv(c)'
      BY <2>2, <2>3, <2>6, <3>1, <3>3 DEF TcpClientInv, Stages
    <3>5. client'[c].last = << >>
      BY <1>1, <2>3, <2>5, <2>6, NothingYet
    <3> QED
      BY <1>1, <2>5, <3>4, <3>5, ReturnedKept
  <2> QED
    BY <1>1, <2>1, <2>2, <2>3, <2>4, <2>6, TcpChange
<1>3. CASE server.pc # "serving"
  <2>1. client' = [client EXCEPT ![c] = Broken(@)] /\ conn' = conn
    BY <1>3 DEF TcpConnect
  <2>2. PICK cln \in BOOLEAN : conn = [conn EXCEPT ![c].cln = cln]
    BY KeepsClosed
  <2>3. conn' = [conn EXCEPT ![c].cln = cln]
    BY <2>1, <2>2, Zenon
  <2> QED
    BY <1>1, <2>1, <2>3, BrokenKeepsTcp
<1> QED
  BY <1>2, <1>3

\* A read gave r, and the client becomes k.
LEMMA TcpStepKeeps ==
  ASSUME TypeOK, Inv, setup.type = "tcp", NEW c \in Clients, ~Finished(client[c]),
         NEW r \in TcpReads(c),
         NEW k, TcpStep(c, r, k),
         \/ r.kind = "data" /\ k = Advanced(client[c], r.data)
         \/ k = Broken(client[c])
         \/ r.kind = "eof" /\ client[c].pc = "first" /\ k = [client[c] EXCEPT !.pc = "second"]
         \/ r.kind = "eof" /\ client[c].pc = "second"
            /\ k = [client[c] EXCEPT !.pc = "ok", !.sock = 0]
  PROVE  TypeOK' /\ Inv'
<1> DEFINE co == conn[c]
           th == thread[c]
<1>1. /\ setup' = setup /\ net' = net /\ shared' = shared /\ server' = server
      /\ thread' = thread /\ faults' = faults /\ client' = [client EXCEPT ![c] = k]
      /\ cut' = IF r = Eof \/ r = Failed THEN cut ELSE Cut(c, co.down, r.data)
  BY DEF TcpStep
<1>2. /\ th \in ThreadType /\ co \in ConnType /\ client[c] \in ClientType
      /\ thread = [thread EXCEPT ![c] = th] /\ faults \in 0 .. MaxFaults
  BY KeepsItself
<1>3. TcpClientInv(c) /\ Returned(c)
  BY ReturnedIs DEF Inv, TcpInv
<1>4. client[c].pc \in Stages /\ client[c].last = << >>
  <2>1. client[c].pc # "port"
    BY <1>3 DEF TcpClientInv
  <2> QED
    BY <1>2, <1>3, <2>1, Fields, NothingYet DEF Finished
<1>5. co.srv # "none" /\ TcpInStep(c)
  BY <1>3, <1>4 DEF TcpClientInv
<1>6. co.up \in Seq(Nat) /\ co.down \in Seq(Nat)
  BY <1>2, Fields
<1>7. \/ r = Failed
      \/ r.kind = "data" /\ r.data \in Parts(co.down) /\ r # Eof /\ r # Failed
      \/ r = Eof /\ co.srv = "closed" /\ co.down = << >>
  BY DEF TcpReads, Got, Eof, Failed
<1>8. /\ r = Failed => r.kind = "failed" /\ r.data = << >>
      /\ r = Eof => r.kind = "eof" /\ r.data = << >>
  BY DEF Failed, Eof
<1>9. r.data \in Seq(Nat) /\ Rest(co.down, r.data) \in Seq(Nat)
  <2>1. CASE r.data = << >>
    <3>1. \A i \in Len(<< >>) + 1 .. Len(co.down) : co.down[i] \in Nat
      BY <1>6, ElementOfSeq, LenProperties
    <3>2. Len(<< >>) + 1 \in Int /\ Len(co.down) \in Int
      BY <1>6, LenProperties
    <3>3. Rest(co.down, << >>) \in Seq(Nat)
      BY <3>1, <3>2, SubSeqProperties DEF Rest
    <3> QED
      BY <2>1, <3>3, EmptySeq
  <2>2. CASE r.data \in Parts(co.down)
    BY <1>6, <2>2, PartsType
  <2> QED
    BY <1>7, <1>8, <2>1, <2>2
<1>10. k \in ClientType /\ k.pc \in {"first", "second", "ok", "error"}
  <2>1. ASSUME k = Advanced(client[c], r.data)
        PROVE  k \in ClientType /\ k.pc \in {"first", "second", "ok", "error"}
    BY <1>2, <1>4, <1>9, <2>1, AdvancedShape DEF Stages
  <2>2. ASSUME k = [client[c] EXCEPT !.pc = "second"]
        PROVE  k \in ClientType /\ k.pc \in {"first", "second", "ok", "error"}
    BY <1>2, <2>2 DEF ClientType, Stages
  <2>3. ASSUME k = [client[c] EXCEPT !.pc = "ok", !.sock = 0]
        PROVE  k \in ClientType /\ k.pc \in {"first", "second", "ok", "error"}
    <3>1. 0 \in 0 .. 2
      OBVIOUS
    <3>2. k \in ClientType
      BY <1>2, <2>3, <3>1 DEF ClientType
    <3>3. k.pc = "ok"
      BY <1>2, <2>3 DEF ClientType
    <3> QED
      BY <3>2, <3>3
  <2> QED
    BY <1>2, <2>1, <2>2, <2>3, BrokenShape
<1>11. PICK told \in BOOLEAN :
          conn' = [conn EXCEPT
                ![c].down = Rest(@, r.data),
                ![c].up = IF conn[c].srv = "closed" THEN @ ELSE @ \o Out(c, k),
                ![c].reset = @ \/ told,
                ![c].cln = ~Finished(k)]
  BY DEF TcpStep
<1> DEFINE down == Rest(co.down, r.data)
           up == IF co.srv = "closed" THEN co.up ELSE co.up \o Out(c, k)
           x == [co EXCEPT !.down = down, !.up = up, !.reset = co.reset \/ told,
                           !.cln = ~Finished(k)]
<1>12. conn' = [conn EXCEPT ![c] = x]
  BY <1>11
<1>13. up \in Seq(Nat)
  BY <1>6, <1>10, OutType, ConcatType
<1>14. (~Finished(k)) \in BOOLEAN /\ (co.reset \/ told) \in BOOLEAN
  BY DEF Finished
<1> HIDE DEF down, up
<1>15. x.srv = co.srv /\ x.down = down /\ x.up = up
  BY <1>2 DEF ConnType
<1>16. x \in ConnType
  BY <1>2, <1>9, <1>13, <1>14 DEF ConnType, down
<1>17. cut' = cut \/ cut' = cut \cup {c}
  BY <1>1 DEF Cut
<1> HIDE DEF x, th, co
<1>18. ASSUME thread'[c] = th, conn'[c] = x, client'[c] = k
       PROVE  TcpClientInv(c)' /\ Returned(c)'
  <2>1. CASE r.kind = "data" /\ k = Advanced(client[c], r.data)
    <3>1. /\ r.data \in Parts(co.down) /\ cut' = Cut(c, co.down, r.data)
      BY <1>1, <1>7, <1>8, <2>1
    <3>2. ASSUME c \notin cut'
          PROVE  /\ c \notin cut /\ r.data = co.down /\ down = << >> /\ co.down # << >>
                 /\ RightAnswer(c, co.down)
                 /\ co.srv # "closed" => Step(th.pc) > Step(client[c].pc)
      <4>1. c \notin cut /\ r.data = co.down
        BY <3>1, <3>2 DEF Cut
      <4>2. co.down # << >> /\ down = << >>
        BY <1>6, <3>1, <4>1, PartsType DEF down
      <4> QED
        BY <1>4, <1>5, <4>1, <4>2 DEF TcpInStep, co, th
    <3>3. ASSUME c \notin cut', co.srv # "closed"
          PROVE  up = Out(c, k)
      <4>1. co.up = << >>
        BY <1>4, <1>5, <3>2, <3>3 DEF TcpInStep, co
      <4>2. Out(c, k) \in Seq(Nat)
        BY <1>10, OutType
      <4> QED
        BY <3>3, <4>1, <4>2, AppendToNothing DEF up
    <3>4. /\ client[c].pc \in {"hello", "first"} =>
               /\ k.pc = (IF client[c].pc = "hello" THEN "first" ELSE "second")
               /\ k.answer = r.data /\ k.last = client[c].last
          /\ client[c].pc = "second" => k.pc = "ok" /\ k.last = r.data
      BY <1>2, <1>4, <1>9, <2>1, AdvancedShape
    <3>5. ASSUME k.pc \in Stages, c \notin cut'
          PROVE  /\ co.srv # "closed" => Step(th.pc) >= Step(k.pc)
                 /\ k.pc = "second" => k.answer = Reverse(Message[c])
      <4>1. /\ Step("hello") = 0 /\ Step("first") = 1 /\ Step("second") = 2
            /\ Step(th.pc) \in 0 .. 3
        BY DEF Step
      <4>2. client[c].pc \in {"hello", "first"}
        BY <1>4, <3>4, <3>5 DEF Stages
      <4>3. k.pc = "second" => client[c].pc = "first"
        BY <3>4, <4>2
      <4>4. k.pc = "second" => k.answer = Reverse(Message[c])
        BY <3>2, <3>4, <3>5, <4>2, <4>3 DEF RightAnswer
      <4>5. co.srv # "closed" => Step(th.pc) >= Step(k.pc)
        BY <3>2, <3>4, <3>5, <4>1, <4>2
      <4> QED
        BY <4>4, <4>5
    <3>6. TcpInStep(c)'
      BY <1>1, <1>15, <1>18, <3>2, <3>3, <3>5 DEF TcpInStep
    <3>7. TcpClientInv(c)'
      BY <1>1, <1>3, <1>5, <1>10, <1>15, <1>18, <3>6 DEF TcpClientInv, co, th
    <3>8. Returned(c)'
      <4>1. client[c].pc # "second" => k.last = << >>
        BY <1>4, <3>4 DEF Stages
      <4>2. client[c].pc = "second" /\ c \notin cut' => k.last = Message[c]
        BY <3>2, <3>4 DEF RightAnswer
      <4> QED
        BY <1>18, <3>4, <4>1, <4>2 DEF Returned
    <3> QED
      BY <3>7, <3>8
  <2>2. CASE k = Broken(client[c])
    <3>1. k.pc = "error" /\ k.last = << >>
      BY <1>2, <1>4, <2>2, BrokenShape
    <3>2. TcpInStep(c)'
      BY <1>18, <3>1 DEF TcpInStep, Stages
    <3>3. TcpClientInv(c)'
      BY <1>1, <1>3, <1>5, <1>15, <1>18, <3>1, <3>2 DEF TcpClientInv, Stages, co, th
    <3> QED
      BY <1>18, <3>1, <3>3 DEF Returned
  <2>3. CASE /\ r.kind = "eof"
             /\ \/ k = [client[c] EXCEPT !.pc = "second"]
                \/ k = [client[c] EXCEPT !.pc = "ok", !.sock = 0]
    <3>1. co.srv = "closed" /\ down = << >>
      BY <1>7, <1>8, <2>3, RestOfNothing DEF down
    <3>2. k.last = << >>
      BY <1>2, <1>4, <2>3 DEF ClientType
    <3>3. TcpInStep(c)'
      BY <1>15, <1>18, <3>1 DEF TcpInStep
    <3>4. TcpClientInv(c)'
      BY <1>1, <1>3, <1>5, <1>10, <1>15, <1>18, <3>3 DEF TcpClientInv, co, th
    <3> QED
      BY <1>18, <3>2, <3>4 DEF Returned
  <2> QED
    BY <2>1, <2>2, <2>3
<1> QED
  BY <1>1, <1>2, <1>10, <1>12, <1>16, <1>17, <1>18, TcpChange DEF th

\* Every step of a client over TCP.
LEMMA TcpClientKeeps ==
  ASSUME TypeOK, Inv, NEW c \in Clients, send_data_tcp(c) \/ communicationTcp(c)
  PROVE  TypeOK' /\ Inv'
<1>1. setup.type = "tcp"
  BY DEF send_data_tcp, communicationTcp
<1>2. CASE TcpConnect(c)
  BY <1>1, <1>2, TcpConnectKeeps
<1>3. ASSUME ~Finished(client[c]), NEW r \in TcpReads(c), TcpStep(c, r, VsReacts(client[c], r))
      PROVE  TypeOK' /\ Inv'
  <2>1. \/ r.kind = "data" /\ VsReacts(client[c], r) = Advanced(client[c], r.data)
        \/ VsReacts(client[c], r) = Broken(client[c])
    BY DEF VsReacts
  <2> QED
    BY <1>1, <1>3, <2>1, TcpStepKeeps
<1>4. ASSUME ~Finished(client[c]), NEW r \in TcpReads(c), TcpStep(c, r, AndroidReacts(client[c], r))
      PROVE  TypeOK' /\ Inv'
  <2> DEFINE k == AndroidReacts(client[c], r)
  <2>1. \/ r.kind = "data" /\ k = Advanced(client[c], r.data)
        \/ k = Broken(client[c])
        \/ r.kind = "eof" /\ client[c].pc = "first" /\ k = [client[c] EXCEPT !.pc = "second"]
        \/ r.kind = "eof" /\ client[c].pc = "second"
           /\ k = [client[c] EXCEPT !.pc = "ok", !.sock = 0]
    BY DEF AndroidReacts
  <2> HIDE DEF k
  <2> QED
    BY <1>1, <1>4, <2>1, TcpStepKeeps DEF k
<1> QED
  BY <1>2, <1>3, <1>4 DEF send_data_tcp, communicationTcp

-----------------------------------------------------------------------------
(* A step over UDP                                                         *)

\* Client b is as it was, its thread has at most gone on, and no datagram of it is new.
Kept(b) ==
    /\ client'[b] = client[b] /\ thread'[b].port = thread[b].port
    /\ Step(thread'[b].pc) >= Step(thread[b].pc)
    /\ thread'[b].pc \in Stages \cup {"created"} => thread[b].pc \in Stages \cup {"created"}
    /\ \A d \in net' : d.client = b => d \in net

\* What else the invariant asks of client b after the step.
Fine(b) ==
    /\ UdpClientInv(b)' /\ Returned(b)'
    /\ \A d, e \in net' : d.client = b /\ e.client = b => d = e
    /\ \A d \in net' : d.client = b => DatagramOf(d, b)'

LEMMA KeptIsFine ==
  ASSUME TypeOK, Inv, setup.type = "udp", NEW b \in Clients, Kept(b),
         cut' = cut, shared \subseteq shared', TypeOK'
  PROVE  Fine(b)
<1>1. /\ UdpClientInv(b) /\ Returned(b)
      /\ \A d, e \in net : d.client = e.client => d = e
      /\ \A d \in net : d.client = b => DatagramOf(d, b)
  BY ReturnedIs DEF Inv, UdpInv
<1>2. /\ client'[b] = client[b] /\ thread'[b].port = thread[b].port
      /\ Step(thread'[b].pc) >= Step(thread[b].pc)
      /\ thread'[b].pc \in Stages \cup {"created"} => thread[b].pc \in Stages \cup {"created"}
      /\ \A d \in net' : d.client = b => d \in net
  BY DEF Kept
<1>3. /\ Step(thread'[b].pc) \in 0 .. 3 /\ Step(thread[b].pc) \in 0 .. 3
      /\ Step(client[b].pc) \in 0 .. 3
  BY AfterShape
<1>4. \A d, e \in net' : d.client = b /\ e.client = b => d = e
  BY <1>1, <1>2
<1>5. \A d \in net' : d.client = b => DatagramOf(d, b)'
  BY <1>1, <1>2 DEF DatagramOf
<1>6. UdpInStep(b)'
  <2> SUFFICES ASSUME client[b].pc \in Stages, client[b].port \notin shared
               PROVE  /\ client[b].pc = "second" => client[b].answer = Reverse(Message[b])
                      /\ \A d \in net' : d.client = b =>
                            IF d.way = "up"
                            THEN /\ d.data = Out(b, client[b])
                                 /\ Step(thread'[b].pc) >= Step(client[b].pc)
                            ELSE /\ RightAnswer(b, d.data)
                                 /\ Step(thread'[b].pc) > Step(client[b].pc)
    BY <1>2 DEF UdpInStep, RightAnswer, Out
  <2>1. /\ client[b].pc = "second" => client[b].answer = Reverse(Message[b])
        /\ \A d \in net : d.client = b =>
              IF d.way = "up"
              THEN /\ d.data = Out(b, client[b])
                   /\ Step(thread[b].pc) >= Step(client[b].pc)
              ELSE /\ RightAnswer(b, d.data)
                   /\ Step(thread[b].pc) > Step(client[b].pc)
    BY <1>1 DEF UdpClientInv, UdpInStep
  <2> QED
    BY <1>2, <1>3, <2>1
<1>7. UdpClientInv(b)'
  BY <1>1, <1>2, <1>6 DEF UdpClientInv, Finished
<1>8. Returned(b)'
  BY <1>1, <1>2, ReturnedKept
<1> QED
  BY <1>4, <1>5, <1>7, <1>8 DEF Fine

LEMMA OwnPortKept ==
  ASSUME OwnPort, shared \subseteq shared',
         \A b \in Clients : thread'[b].port = thread[b].port /\ (Over(b) => Over(b)')
  PROVE  OwnPort'
BY DEF OwnPort

LEMMA UdpChange ==
  ASSUME TypeOK, Inv, setup.type = "udp", setup' = setup, conn' = conn, cut' = cut,
         server'.pc \in {"down", "serving", "ended"}, server'.port \in Ports,
         server' = [pc |-> server'.pc, port |-> server'.port],
         thread' \in [Clients -> ThreadType], client' \in [Clients -> ClientType],
         net' \subseteq DatagramType, shared \subseteq shared', shared' \subseteq PortNumbers,
         faults' \in 0 .. MaxFaults,
         \A b \in Clients : Kept(b) \/ Fine(b), OwnPort'
  PROVE  TypeOK' /\ Inv'
<1>1. TypeOK'
  BY Types, TypeAfter
<1>2. \A b \in Clients : Fine(b)
  BY <1>1, KeptIsFine
<1>3. \A d \in net' : d.client \in Clients
  BY Fields
<1>4. UdpInv'
  BY <1>2, <1>3 DEF UdpInv, Fine
<1>5. OneTransport' /\ TcpInv'
  BY DEF Inv, OneTransport, TcpInv
<1>6. LastIsLast' /\ MessageComesBack'
  BY <1>2 DEF Fine, Returned, LastIsLast, MessageComesBack
<1> QED
  BY <1>1, <1>4, <1>5, <1>6 DEF Inv

\* The threads and the clients are the same: datagrams are only lost.
LEMMA LoseKeeps ==
  ASSUME TypeOK, Inv, setup' = setup, conn' = conn, cut' = cut, server' = server,
         thread' = thread, client' = client, shared' = shared, faults' \in 0 .. MaxFaults,
         NEW d \in net, net' = net \ {d}
  PROVE  TypeOK' /\ Inv'
<1>1. setup.type = "udp"
  BY Types DEF Inv, OneTransport
<1>2. \A b \in Clients : Kept(b)
  BY AfterShape DEF Kept
<1>3. OwnPort'
  BY <1>1 DEF Inv, UdpInv, OwnPort, Over, Finished
<1>4. net' \subseteq DatagramType /\ shared' \subseteq PortNumbers
  BY Types
<1>5. thread' \in [Clients -> ThreadType] /\ client' \in [Clients -> ClientType]
  BY Types
<1> QED
  BY <1>1, <1>2, <1>3, <1>4, <1>5, SameServer, UdpChange

\* Of one client that gets an error.
LEMMA BrokenKeepsUdp ==
  ASSUME TypeOK, Inv, setup.type = "udp", NEW c \in Clients,
         ~Finished(client[c]) \/ client[c].pc = "idle",
         setup' = setup, conn' = conn, cut' = cut, server' = server,
         thread' = thread, shared' = shared, faults' \in 0 .. MaxFaults,
         net' \subseteq net, client' = [client EXCEPT ![c] = Broken(@)]
  PROVE  TypeOK' /\ Inv'
<1> DEFINE k == Broken(client[c])
<1>1. /\ thread \in [Clients -> ThreadType] /\ client \in [Clients -> ClientType]
      /\ net \subseteq DatagramType /\ shared \subseteq PortNumbers /\ client[c] \in ClientType
  BY Types
<1>2. /\ k \in ClientType /\ k.pc = "error" /\ k.sock = 0 /\ Finished(k)
      /\ k.last = client[c].last
  BY <1>1, BrokenShape
<1>3. /\ client' \in [Clients -> ClientType] /\ client'[c] = k
      /\ \A b \in Clients : b # c => client'[b] = client[b]
  BY <1>1, <1>2, Replaced
<1> HIDE DEF k
<1>4. /\ UdpClientInv(c) /\ Returned(c) /\ OwnPort
      /\ \A d, e \in net : d.client = e.client => d = e
      /\ \A d \in net : d.client = c => DatagramOf(d, c)
  BY ReturnedIs DEF Inv, UdpInv
<1>5. \A b \in Clients : b # c => Kept(b)
  BY <1>3, AfterShape DEF Kept
<1>6. Fine(c)
  <2>1. UdpInStep(c)'
    BY <1>2, <1>3 DEF UdpInStep, Stages
  <2>2. UdpClientInv(c)'
    BY <1>2, <1>3, <1>4, <2>1 DEF UdpClientInv, Stages
  <2>3. client'[c].last = << >>
    BY <1>2, <1>3, <1>4, NothingYet
  <2>4. Returned(c)'
    BY <1>4, <2>3, ReturnedKept
  <2>5. \A d, e \in net' : d.client = c /\ e.client = c => d = e
    BY <1>4
  <2>6. \A d \in net' : d.client = c => DatagramOf(d, c)'
    BY <1>2, <1>3, <1>4 DEF DatagramOf
  <2> QED
    BY <2>2, <2>4, <2>5, <2>6 DEF Fine
<1>7. OwnPort'
  <2>1. \A b \in Clients : thread'[b].port = thread[b].port /\ (Over(b) => Over(b)')
    BY <1>2, <1>3 DEF Over, Finished
  <2> QED
    BY <1>4, <2>1, OwnPortKept
<1>8. net' \subseteq DatagramType /\ shared' \subseteq PortNumbers
  BY <1>1
<1> QED
  BY <1>1, <1>3, <1>5, <1>6, <1>7, <1>8, SameServer, UdpChange

\* A datagram for a port nobody has opened.
LEMMA RefuseKeeps ==
  ASSUME TypeOK, Inv, NEW d \in net, Refuse(d)
  PROVE  TypeOK' /\ Inv'
<1>1. /\ setup' = setup /\ conn' = conn /\ cut' = cut /\ server' = server
      /\ thread' = thread /\ shared' = shared /\ faults' = faults /\ net' = net \ {d}
  BY DEF Refuse
<1>2. faults \in 0 .. MaxFaults /\ d \in DatagramType
  BY Types DEF TypeOK
<1>3. CASE client' = client
  BY <1>1, <1>2, <1>3, LoseKeeps
<1>4. CASE client[d.client].sock = d.sock /\ client' = [client EXCEPT ![d.client] = Broken(@)]
  <2>1. setup.type = "udp"
    BY Types DEF Inv, OneTransport
  <2>2. d.client \in Clients /\ d.sock # 0
    BY <1>2, Fields
  <2>3. ~Finished(client[d.client])
    BY <1>4, <2>1, <2>2 DEF Inv, UdpInv, UdpClientInv
  <2> QED
    BY <1>1, <1>2, <1>4, <2>1, <2>2, <2>3, BrokenKeepsUdp
<1> QED
  BY <1>3, <1>4 DEF Refuse

\* The program of a client ends, or never sends anything.
LEMMA ClientEndKeeps ==
  ASSUME TypeOK, Inv, NEW c \in Clients, run(c) \/ ClientDies(c)
  PROVE  TypeOK' /\ Inv'
<1>1. /\ setup' = setup /\ net' = net /\ cut' = cut /\ server' = server
      /\ thread' = thread /\ shared' = shared
      /\ client' = [client EXCEPT ![c] = Broken(@)]
      /\ ~Finished(client[c]) \/ client[c].pc = "idle"
      /\ conn' = conn \/ conn' = [conn EXCEPT ![c].cln = FALSE]
  BY DEF run, ClientDies
<1>2. faults' \in 0 .. MaxFaults
  BY FaultType, KeepsItself DEF run, ClientDies
<1>3. CASE setup.type = "tcp"
  <2>1. PICK cln \in BOOLEAN : conn' = [conn EXCEPT ![c].cln = cln]
    BY <1>1, KeepsClosed
  <2> QED
    BY <1>1, <1>2, <1>3, <2>1, BrokenKeepsTcp
<1>4. CASE setup.type = "udp"
  <2>1. conn' = conn
    <3>1. conn[c] = NoConnection /\ conn \in [Clients -> ConnType]
      BY <1>4, Types DEF Inv, OneTransport
    <3>2. [conn[c] EXCEPT !.cln = FALSE] = conn[c]
      <4>1. NoConnection.cln = FALSE
        BY DEF NoConnection
      <4>2. conn[c] \in ConnType /\ conn[c].cln = FALSE
        BY <3>1, <4>1
      <4> QED
        BY <4>2 DEF ConnType
    <3>3. [conn EXCEPT ![c].cln = FALSE] = conn
      BY <3>1, <3>2
    <3> QED
      BY <1>1, <3>3
  <2> QED
    BY <1>1, <1>2, <1>4, <2>1, BrokenKeepsUdp
<1> QED
  BY <1>3, <1>4, Types

LEMMA DatagramFields ==
  \A c, way, sock, port, data :
      LET d == Datagram(c, way, sock, port, data)
      IN  /\ d.client = c /\ d.way = way /\ d.sock = sock /\ d.port = port /\ d.data = data
          /\ c \in Clients /\ way \in {"up", "down"} /\ sock \in 1 .. 2 /\ port \in Ports
             /\ data \in Seq(Nat) => d \in DatagramType
BY DEF Datagram, DatagramType

\* The client asks for a port.
LEMMA UdpConnectKeeps ==
  ASSUME TypeOK, Inv, setup.type = "udp", NEW c \in Clients, UdpConnect(c)
  PROVE  TypeOK' /\ Inv'
<1> DEFINE new == Datagram(c, "up", 1, MainPort, ClientHello)
           k == [client[c] EXCEPT !.pc = "port", !.sock = 1]
<1>1. /\ client[c].pc = "idle" /\ net' = net \cup {new} /\ setup' = setup /\ server' = server
      /\ thread' = thread /\ conn' = conn /\ shared' = shared /\ cut' = cut
      /\ faults' = faults /\ client' = [client EXCEPT ![c] = k]
  BY DEF UdpConnect
<1>2. /\ thread \in [Clients -> ThreadType] /\ client \in [Clients -> ClientType]
      /\ net \subseteq DatagramType /\ shared \subseteq PortNumbers /\ client[c] \in ClientType
      /\ faults \in 0 .. MaxFaults
  BY Types, KeepsItself
<1>3. /\ new.client = c /\ new.way = "up" /\ new.sock = 1 /\ new.port = MainPort
      /\ new \in DatagramType
  BY DatagramFields, HelloType, PortFacts
<1>4. /\ k.pc = "port" /\ k.sock = 1 /\ k.last = client[c].last
  BY <1>2 DEF ClientType
<1>5. k \in ClientType
  <2>1. 1 \in 0 .. 2
    OBVIOUS
  <2> QED
    BY <1>2, <2>1 DEF ClientType
<1> HIDE DEF new, k
<1>6. /\ client' \in [Clients -> ClientType] /\ client'[c] = k
      /\ \A b \in Clients : b # c => client'[b] = client[b]
  BY <1>1, <1>2, <1>5, Replaced
<1>7. /\ UdpClientInv(c) /\ Returned(c) /\ OwnPort
      /\ \A d \in net : DatagramOf(d, d.client)
  BY ReturnedIs DEF Inv, UdpInv
<1>8. \A d \in net' : d.client = c => d = new
  BY <1>1, <1>7 DEF DatagramOf
<1>9. thread[c].port = MainPort /\ client'[c].last = << >>
  BY <1>1, <1>4, <1>6, <1>7, NothingYet DEF UdpClientInv
<1>10. \A b \in Clients : b # c => Kept(b)
  BY <1>1, <1>3, <1>6, AfterShape DEF Kept
<1>11. Fine(c)
  <2>1. UdpInStep(c)'
    BY <1>4, <1>6 DEF UdpInStep, Stages
  <2>2. UdpClientInv(c)'
    BY <1>1, <1>4, <1>6, <1>7, <2>1 DEF UdpClientInv, Stages, Finished
  <2>3. Returned(c)'
    BY <1>1, <1>7, <1>9, ReturnedKept
  <2>4. \A d, e \in net' : d.client = c /\ e.client = c => d = e
    BY <1>8
  <2>5. DatagramOf(new, c)'
    BY <1>1, <1>3, <1>4, <1>6, <1>9 DEF DatagramOf
  <2>6. \A d \in net' : d.client = c => DatagramOf(d, c)'
    BY <1>8, <2>5
  <2> QED
    BY <2>2, <2>3, <2>4, <2>6 DEF Fine
<1>12. OwnPort'
  BY <1>1, <1>6, <1>7, <1>9 DEF OwnPort, Over
<1>13. net' \subseteq DatagramType /\ thread' \in [Clients -> ThreadType]
  BY <1>1, <1>2, <1>3
<1> QED
  BY <1>1, <1>2, <1>6, <1>10, <1>11, <1>12, <1>13, SameServer, UdpChange

\* The client gets the datagram d.
LEMMA UdpStepKeeps ==
  ASSUME TypeOK, Inv, setup.type = "udp", NEW c \in Clients,
         client[c].pc \in Stages \cup {"port"}, NEW d \in Inbox(c),
         UdpStep(c, Got(d.data), Advanced(client[c], d.data))
  PROVE  TypeOK' /\ Inv'
<1> DEFINE k == Advanced(client[c], d.data)
<1>0. PICK new : new = Datagram(c, "up", k.sock, k.port, Out(c, k))
  OBVIOUS
<1>1. /\ setup' = setup /\ server' = server /\ thread' = thread /\ conn' = conn
      /\ shared' = shared /\ cut' = cut /\ faults' = faults
      /\ client' = [client EXCEPT ![c] = k]
      /\ net' = {e \in net : e \notin Inbox(c) \/ (k.sock = e.sock /\ Got(e.data) # Got(d.data))}
                   \cup (IF Finished(k) THEN {} ELSE {new})
  BY <1>0 DEF UdpStep
<1>2. /\ thread \in [Clients -> ThreadType] /\ client \in [Clients -> ClientType]
      /\ net \subseteq DatagramType /\ shared \subseteq PortNumbers /\ client[c] \in ClientType
      /\ faults \in 0 .. MaxFaults /\ thread[c] \in ThreadType
  BY Types, KeepsItself
<1>3. d \in net /\ d.way = "down" /\ d.client = c /\ d.sock = client[c].sock
  BY DEF Inbox
<1>4. /\ UdpClientInv(c) /\ Returned(c) /\ OwnPort
      /\ \A e, f \in net : e.client = f.client => e = f
      /\ DatagramOf(d, c)
  BY <1>3, ReturnedIs DEF Inv, UdpInv
<1>5. /\ d.data \in Seq(Nat) /\ thread[c].port \in Ports
  BY <1>2, <1>3, Fields
<1>6. ~Finished(client[c]) /\ client[c].last = << >>
  BY <1>4, NothingYet DEF Finished, Stages
<1>7. client[c].pc = "port" => d.data = <<thread[c].port>> /\ thread[c].port # MainPort
  BY <1>3, <1>4 DEF DatagramOf, UdpClientInv
<1>8. client[c].pc = "port" => Head(d.data) = thread[c].port
  BY <1>7
<1>9. /\ k \in ClientType
      /\ client[c].pc = "port" => k.pc = "hello" /\ k.sock = 2 /\ k.port = thread[c].port
                                  /\ k.last = << >>
      /\ client[c].pc # "port" => k.port = client[c].port
      /\ client[c].pc \in {"hello", "first"} =>
            /\ k.pc = (IF client[c].pc = "hello" THEN "first" ELSE "second")
            /\ k.sock = client[c].sock /\ k.answer = d.data /\ k.last = << >>
      /\ client[c].pc = "second" => k.pc = "ok" /\ k.sock = 0 /\ k.last = d.data
  BY <1>2, <1>5, <1>6, <1>8, AdvancedShape
<1> HIDE DEF k
<1>10. \/ k.pc \in Stages /\ k.sock = 2 /\ k.last = << >> /\ ~Finished(k)
       \/ k.pc = "ok" /\ k.sock = 0 /\ client[c].pc = "second" /\ Finished(k)
  BY <1>4, <1>9 DEF UdpClientInv, Stages, Finished
<1>11. ~Finished(k) =>
         /\ new.client = c /\ new.way = "up" /\ new.sock = 2 /\ new.port = k.port
         /\ new.data = Out(c, k) /\ new \in DatagramType
  <2> SUFFICES ASSUME ~Finished(k)
               PROVE  /\ new.client = c /\ new.way = "up" /\ new.sock = 2 /\ new.port = k.port
                      /\ new.data = Out(c, k) /\ new \in DatagramType
    OBVIOUS
  <2>1. k.sock = 2 /\ 2 \in 1 .. 2
    BY <1>10
  <2>2. k.port \in Ports /\ Out(c, k) \in Seq(Nat)
    BY <1>9, Fields, OutType
  <2> QED
    BY <1>0, <2>1, <2>2, DatagramFields
<1>12. /\ client' \in [Clients -> ClientType] /\ client'[c] = k
       /\ \A b \in Clients : b # c => client'[b] = client[b]
  BY <1>1, <1>2, <1>9, Replaced
<1>13. /\ \A e \in net' : e.client = c => e = new /\ ~Finished(k)
       /\ \A e \in net' : e.client # c => e \in net
  <2>1. \A e \in net : e.client = c => e = d
    BY <1>3, <1>4
  <2>2. \A e \in net' : e \in net \/ (e = new /\ ~Finished(k))
    BY <1>1
  <2>3. d \in net' => d = new /\ ~Finished(k)
    BY <1>1
  <2> QED
    BY <1>11, <2>1, <2>2, <2>3
<1>14. \A b \in Clients : b # c => Kept(b)
  BY <1>1, <1>12, <1>13, AfterShape DEF Kept
<1>15. k.port = thread[c].port /\ thread[c].port # MainPort
  BY <1>4, <1>7, <1>9 DEF UdpClientInv
<1>16. ASSUME client[c].pc # "port", k.port \notin shared
       PROVE  RightAnswer(c, d.data) /\ Step(thread[c].pc) > Step(client[c].pc)
  BY <1>3, <1>4, <1>9, <1>16 DEF UdpClientInv, UdpInStep
<1>17. Fine(c)
  <2>1. ASSUME k.pc \in Stages, k.port \notin shared
        PROVE  /\ k.pc = "second" => k.answer = Reverse(Message[c])
               /\ Step(thread[c].pc) >= Step(k.pc)
    <3>1. /\ Step("hello") = 0 /\ Step("first") = 1 /\ Step("second") = 2
          /\ Step(thread[c].pc) \in 0 .. 3
      BY DEF Step
    <3>2. CASE client[c].pc = "port"
      BY <1>9, <3>1, <3>2
    <3>3. CASE client[c].pc = "hello"
      BY <1>9, <1>16, <2>1, <3>1, <3>3
    <3>4. CASE client[c].pc = "first"
      <4>1. k.answer = Reverse(Message[c])
        BY <1>9, <1>16, <2>1, <3>4 DEF RightAnswer
      <4>2. Step(thread[c].pc) >= Step(k.pc)
        BY <1>9, <1>16, <2>1, <3>1, <3>4
      <4> QED
        BY <4>1, <4>2
    <3>5. CASE client[c].pc = "second"
      BY <1>9, <2>1, <3>5 DEF Stages
    <3> QED
      BY <3>2, <3>3, <3>4, <3>5 DEF Stages
  <2>2. UdpInStep(c)'
    BY <1>1, <1>11, <1>12, <1>13, <2>1 DEF UdpInStep
  <2>3. UdpClientInv(c)'
    BY <1>1, <1>4, <1>10, <1>12, <1>15, <2>2 DEF UdpClientInv, Stages
  <2>4. Returned(c)'
    <3>1. k.last # << >> => k.pc = "ok" /\ client[c].pc = "second"
      BY <1>10
    <3>2. k.last # << >> /\ k.port \notin shared => k.last = Message[c]
      BY <1>9, <1>16, <3>1 DEF RightAnswer
    <3> QED
      BY <1>1, <1>12, <3>1, <3>2 DEF Returned
  <2>5. \A e, f \in net' : e.client = c /\ f.client = c => e = f
    BY <1>13
  <2>6. ~Finished(k) => DatagramOf(new, c)'
    BY <1>1, <1>10, <1>11, <1>12, <1>15 DEF DatagramOf, Stages
  <2>7. \A e \in net' : e.client = c => DatagramOf(e, c)'
    BY <1>13, <2>6
  <2> QED
    BY <2>3, <2>4, <2>5, <2>7 DEF Fine
<1>18. OwnPort'
  <2>1. \A b \in Clients : thread'[b].port = thread[b].port /\ (Over(b) => Over(b)')
    BY <1>1, <1>6, <1>12 DEF Over
  <2> QED
    BY <1>1, <1>4, <2>1, OwnPortKept
<1>19. net' \subseteq DatagramType
  BY <1>1, <1>2, <1>11
<1>20. thread' \in [Clients -> ThreadType] /\ faults' \in 0 .. MaxFaults
       /\ shared \subseteq shared' /\ shared' \subseteq PortNumbers
  BY <1>1, <1>2
<1>21. \A b \in Clients : Kept(b) \/ Fine(b)
  BY <1>14, <1>17
<1> QED
  BY <1>1, <1>12, <1>18, <1>19, <1>20, <1>21, SameServer, UdpChange

\* Every step of a client over UDP.
LEMMA UdpClientKeeps ==
  ASSUME TypeOK, Inv, NEW c \in Clients, send_data_udp(c) \/ communicationUdp(c)
  PROVE  TypeOK' /\ Inv'
<1>1. setup.type = "udp"
  BY DEF send_data_udp, communicationUdp
<1>2. CASE UdpConnect(c)
  BY <1>1, <1>2, UdpConnectKeeps
<1>3. ASSUME client[c].pc \in Stages \cup {"port"}, NEW r \in UdpReads(c),
             UdpStep(c, r, VsReacts(client[c], r)) \/ UdpStep(c, r, AndroidReacts(client[c], r))
      PROVE  TypeOK' /\ Inv'
  <2>1. PICK d \in Inbox(c) : r = Got(d.data)
    BY <1>3 DEF UdpReads
  <2>2. r.kind = "data" /\ r.data = d.data
    BY <2>1 DEF Got
  <2>3. UdpStep(c, Got(d.data), Advanced(client[c], d.data))
    BY <1>3, <2>1, <2>2 DEF VsReacts, AndroidReacts
  <2> QED
    BY <1>1, <1>3, <2>3, UdpStepKeeps
<1> QED
  BY <1>2, <1>3 DEF send_data_udp, communicationUdp, VsAsksPort, VsExchanges, AndroidAsksPort,
     AndroidExchanges

\* The server sends a port and creates the thread that opens it.
LEMMA PortKeeps ==
  ASSUME TypeOK, Inv, NEW d \in net, start_server_udp(d)
  PROVE  TypeOK' /\ Inv'
<1> DEFINE port == NextPort(server.port)
           c == d.client
           new == Datagram(c, "down", d.sock, MainPort, <<port>>)
           made == [pc |-> "created", port |-> port]
<1>1. /\ setup.type = "udp" /\ setup' = setup /\ client' = client /\ conn' = conn /\ cut' = cut
      /\ d.way = "up" /\ d.port = MainPort
      /\ server' = [server EXCEPT !.port = port]
      /\ net' = (net \ {d}) \cup {new} /\ CreateThread(c, made)
      /\ shared' = IF InUse(port) THEN shared \cup {port} ELSE shared
  BY DEF start_server_udp
<1>2. /\ thread \in [Clients -> ThreadType] /\ client \in [Clients -> ClientType]
      /\ net \subseteq DatagramType /\ shared \subseteq PortNumbers
      /\ server.port \in Ports /\ server.pc \in {"down", "serving", "ended"}
      /\ faults \in 0 .. MaxFaults /\ d \in DatagramType
  BY Types DEF TypeOK
<1>3. /\ port \in PortNumbers /\ port \in Ports /\ port # MainPort /\ port \in Nat
      /\ MainPort \in Ports
  BY <1>2, PortFacts
<1>4. c \in Clients /\ d.sock \in 1 .. 2
  BY <1>2, Fields
<1> HIDE DEF port, c
<1>5. server' = [pc |-> server.pc, port |-> port]
  BY <1>1 DEF TypeOK
<1>6. /\ faults' \in 0 .. MaxFaults
      /\ \E t \in ThreadType : /\ thread' = [thread EXCEPT ![c] = t]
                               /\ t.pc \in {"created", "missing"} /\ t.port = port
  <2> DEFINE none == [made EXCEPT !.pc = "missing"]
  <2>1. /\ made \in ThreadType /\ made.pc = "created" /\ made.port = port
        /\ none \in ThreadType /\ none.pc = "missing" /\ none.port = port
    BY <1>3 DEF ThreadType, Stages
  <2>2. \/ thread' = [thread EXCEPT ![c] = made] /\ faults' = faults
        \/ thread' = [thread EXCEPT ![c] = none] /\ Fault
    BY <1>1 DEF CreateThread
  <2> HIDE DEF made, none
  <2> QED
    BY <1>2, <2>1, <2>2, FaultType
<1> HIDE DEF made
<1>7. PICK t \in ThreadType : /\ thread' = [thread EXCEPT ![c] = t]
                              /\ t.pc \in {"created", "missing"} /\ t.port = port
  BY <1>6
<1>8. /\ thread' \in [Clients -> ThreadType] /\ thread'[c] = t
      /\ \A b \in Clients : b # c => thread'[b] = thread[b]
  BY <1>2, <1>4, <1>7, Replaced
<1>9. PICK e : e = new
  OBVIOUS
<1>10. /\ e.client = c /\ e.way = "down" /\ e.sock = d.sock /\ e.port = MainPort
       /\ e.data = <<port>> /\ e \in DatagramType
  <2> DEFINE data == <<port>>
  <2>1. data \in Seq(Nat)
    BY <1>3
  <2>2. e = Datagram(c, "down", d.sock, MainPort, data)
    BY <1>9
  <2> HIDE DEF data
  <2>3. /\ e.client = c /\ e.way = "down" /\ e.sock = d.sock /\ e.port = MainPort
        /\ e.data = data /\ e \in DatagramType
    BY <1>3, <1>4, <2>1, <2>2, DatagramFields
  <2> QED
    BY <2>3 DEF data
<1>11. net' = (net \ {d}) \cup {e}
  BY <1>1, <1>9
<1> HIDE DEF new
<1>12. /\ UdpClientInv(c) /\ Returned(c) /\ OwnPort
       /\ \A f, g \in net : f.client = g.client => f = g
       /\ DatagramOf(d, c)
  BY <1>1, <1>4, ReturnedIs DEF Inv, UdpInv, c
<1>13. d.sock = 1 /\ thread[c].port = MainPort /\ client[c].pc # "idle"
  BY <1>1, <1>4, <1>12 DEF DatagramOf
<1>14. client[c].pc \notin Stages
  BY <1>12, <1>13 DEF UdpClientInv
<1>15. shared \subseteq shared' /\ shared' \subseteq PortNumbers
  BY <1>1, <1>2, <1>3
<1>16. /\ \A f \in net' : f.client = c => f = e
       /\ \A f \in net' : f.client # c => f \in net
  BY <1>10, <1>11, <1>12 DEF c
<1>17. \A b \in Clients : b # c => Kept(b)
  BY <1>1, <1>8, <1>16, AfterShape DEF Kept
<1>18. Fine(c)
  <2>1. UdpInStep(c)'
    BY <1>1, <1>14 DEF UdpInStep
  <2>2. UdpClientInv(c)'
    BY <1>1, <1>3, <1>7, <1>8, <1>12, <1>13, <1>14, <2>1 DEF UdpClientInv
  <2>3. Returned(c)'
    BY <1>1, <1>4, <1>12, <1>15, ReturnedKept
  <2>4. \A f, g \in net' : f.client = c /\ g.client = c => f = g
    BY <1>16
  <2>5. DatagramOf(e, c)'
    BY <1>1, <1>3, <1>7, <1>8, <1>10, <1>12, <1>13 DEF DatagramOf
  <2>6. \A f \in net' : f.client = c => DatagramOf(f, c)'
    BY <1>16, <2>5
  <2> QED
    BY <2>2, <2>3, <2>4, <2>6 DEF Fine
<1>19. OwnPort'
  <2>1. ASSUME NEW u \in Clients, u # c, thread'[u].port = port, port \notin shared'
        PROVE  Over(u)'
    <3>1. ~InUse(port)
      BY <1>1, <2>1
    <3>2. thread[u].pc \notin Stages \cup {"created"} /\ Finished(client[u])
      BY <1>8, <2>1, <3>1 DEF InUse
    <3> QED
      BY <1>1, <1>8, <2>1, <3>2 DEF Over
  <2>2. \A a, b \in Clients :
           a # c /\ b # c /\ a # b /\ thread'[a].port = thread'[b].port
              /\ thread'[a].port \notin shared' \cup {MainPort}
            => Over(a)' \/ Over(b)'
    BY <1>1, <1>8, <1>12, <1>15 DEF OwnPort, Over
  <2> QED
    BY <1>7, <1>8, <2>1, <2>2 DEF OwnPort
<1>20. net' \subseteq DatagramType
  BY <1>2, <1>10, <1>11
<1>21. \A b \in Clients : Kept(b) \/ Fine(b)
  BY <1>17, <1>18
<1>22. client' \in [Clients -> ClientType] /\ faults' \in 0 .. MaxFaults
  BY <1>1, <1>2, <1>6
<1>23. /\ server'.pc \in {"down", "serving", "ended"} /\ server'.port \in Ports
       /\ server' = [pc |-> server'.pc, port |-> server'.port]
  BY <1>2, <1>3, <1>5
<1> QED
  BY <1>1, <1>8, <1>15, <1>19, <1>20, <1>21, <1>22, <1>23, UdpChange

\* A thread answers the datagram of some client.
LEMMA ExchangeUdpKeeps ==
  ASSUME TypeOK, Inv, NEW t \in Clients, NEW d \in net, exchange_data_udp(t, d)
  PROVE  TypeOK' /\ Inv'
<1> DEFINE c == d.client
           answer == Answer(thread[t].pc, d.data)
           new == Datagram(c, "down", d.sock, d.port, answer)
           th == [thread[t] EXCEPT !.pc = After(thread[t].pc)]
<1>1. /\ setup' = setup /\ server' = server /\ client' = client /\ conn' = conn
      /\ shared' = shared /\ cut' = cut /\ faults' = faults
      /\ thread[t].pc \in Stages /\ d.way = "up" /\ d.port = thread[t].port
      /\ net' = (net \ {d}) \cup {new} /\ thread' = [thread EXCEPT ![t] = th]
  BY DEF exchange_data_udp
<1>2. /\ thread \in [Clients -> ThreadType] /\ client \in [Clients -> ClientType]
      /\ net \subseteq DatagramType /\ shared \subseteq PortNumbers
      /\ faults \in 0 .. MaxFaults /\ d \in DatagramType /\ thread[t] \in ThreadType
  BY Types DEF TypeOK
<1>3. setup.type = "udp"
  BY Types DEF Inv, OneTransport
<1>4. /\ c \in Clients /\ d.sock \in 1 .. 2 /\ d.port \in Ports /\ d.data \in Seq(Nat)
  BY <1>2, Fields
<1>5. answer \in Seq(Nat)
  BY <1>1, <1>4, AnswerType
<1>6. /\ th \in ThreadType /\ th.pc = After(thread[t].pc) /\ th.port = thread[t].port
  <2>1. After(thread[t].pc) \in {"first", "second", "done"}
    BY <1>1, AfterShape
  <2> QED
    BY <1>2, <2>1 DEF ThreadType, Stages
<1> HIDE DEF th, c
<1>7. /\ thread' \in [Clients -> ThreadType] /\ thread'[t] = th
      /\ \A b \in Clients : b # t => thread'[b] = thread[b]
  BY <1>1, <1>2, <1>6, Replaced
<1>8. PICK e : e = new
  OBVIOUS
<1>9. /\ e.client = c /\ e.way = "down" /\ e.sock = d.sock /\ e.port = d.port
      /\ e.data = answer /\ e \in DatagramType
  <2> HIDE DEF answer
  <2> QED
    BY <1>4, <1>5, <1>8, DatagramFields
<1>10. net' = (net \ {d}) \cup {e}
  BY <1>1, <1>8
<1> HIDE DEF new
<1>11. /\ UdpClientInv(c) /\ UdpClientInv(t) /\ Returned(c) /\ OwnPort
       /\ \A f, g \in net : f.client = g.client => f = g
       /\ DatagramOf(d, c)
  BY <1>3, <1>4, ReturnedIs DEF Inv, UdpInv, c
<1>12. d.port # MainPort
  BY <1>1, <1>11 DEF UdpClientInv
<1>13. d.sock = 2 /\ d.port = thread[c].port
  BY <1>4, <1>11, <1>12 DEF DatagramOf
<1>14. /\ \A f \in net' : f.client = c => f = e
       /\ \A f \in net' : f.client # c => f \in net
  BY <1>9, <1>10, <1>11 DEF c
<1>15. /\ Step(th.pc) = Step(thread[t].pc) + 1 /\ Step(thread[t].pc) \in 0 .. 2
       /\ Step(client[c].pc) \in 0 .. 3
  BY <1>1, <1>6, AfterShape
<1>16. \A b \in Clients : b # c => Kept(b)
  <2>1. \A b \in Clients : Step(thread[b].pc) \in 0 .. 3
    BY AfterShape
  <2>2. \A b \in Clients : Step(thread'[b].pc) >= Step(thread[b].pc)
    BY <1>7, <1>15, <2>1
  <2> QED
    BY <1>1, <1>6, <1>7, <1>14, <2>2 DEF Kept
<1>17. Fine(c)
  <2>1. /\ thread'[c].port = thread[c].port
        /\ thread'[c].pc \in Stages \cup {"created"} => thread[c].pc \in Stages \cup {"created"}
    BY <1>1, <1>6, <1>7
  <2>2. ASSUME client[c].pc \in Stages, client[c].port \notin shared
        PROVE  t = c
    <3>1. client[c].port = thread[t].port
      BY <1>1, <1>11, <1>13, <2>2 DEF UdpClientInv
    <3>2. ~Over(t) /\ ~Over(c)
      BY <1>1, <2>2 DEF Over, Finished, Stages
    <3> QED
      BY <1>1, <1>4, <1>11, <1>12, <1>13, <2>2, <3>1, <3>2 DEF OwnPort
  <2>3. ASSUME client[c].pc \in Stages, client[c].port \notin shared
        PROVE  /\ client[c].pc = "second" => client[c].answer = Reverse(Message[c])
               /\ RightAnswer(c, answer) /\ Step(thread'[c].pc) > Step(client[c].pc)
    <3>1. /\ client[c].pc = "second" => client[c].answer = Reverse(Message[c])
          /\ d.data = Out(c, client[c]) /\ Step(thread[c].pc) >= Step(client[c].pc)
      BY <1>1, <1>11, <2>3 DEF UdpClientInv, UdpInStep, c
    <3>2. RightAnswer(c, answer)
      BY <1>1, <1>4, <2>2, <2>3, <3>1, AnswerIsRight
    <3>3. Step(thread'[c].pc) > Step(client[c].pc)
      BY <1>7, <1>15, <2>2, <2>3, <3>1
    <3> QED
      BY <3>1, <3>2, <3>3
  <2> HIDE DEF answer
  <2>4. UdpInStep(c)'
    BY <1>1, <1>9, <1>14, <2>3 DEF UdpInStep, RightAnswer
  <2>5. UdpClientInv(c)'
    BY <1>1, <1>11, <2>1, <2>4 DEF UdpClientInv
  <2>6. Returned(c)'
    BY <1>1, <1>4, <1>11, ReturnedKept
  <2>7. \A f, g \in net' : f.client = c /\ g.client = c => f = g
    BY <1>14
  <2>8. DatagramOf(e, c)'
    BY <1>1, <1>9, <1>11, <1>12, <1>13, <2>1 DEF DatagramOf
  <2>9. \A f \in net' : f.client = c => DatagramOf(f, c)'
    BY <1>14, <2>8
  <2> QED
    BY <2>5, <2>6, <2>7, <2>9 DEF Fine
<1>18. OwnPort'
  <2>1. \A b \in Clients : thread'[b].port = thread[b].port /\ (Over(b) => Over(b)')
    BY <1>1, <1>6, <1>7 DEF Over
  <2> QED
    BY <1>1, <1>11, <2>1, OwnPortKept
<1>19. net' \subseteq DatagramType /\ client' \in [Clients -> ClientType]
       /\ faults' \in 0 .. MaxFaults /\ shared \subseteq shared' /\ shared' \subseteq PortNumbers
  BY <1>1, <1>2, <1>9, <1>10
<1>20. \A b \in Clients : Kept(b) \/ Fine(b)
  BY <1>16, <1>17
<1> QED
  BY <1>1, <1>3, <1>7, <1>18, <1>19, <1>20, SameServer, UdpChange

\* A thread opens its port, or ends.
LEMMA BindKeeps ==
  ASSUME TypeOK, Inv, NEW t \in Clients, Bind(t)
  PROVE  TypeOK' /\ Inv'
<1>1. /\ setup' = setup /\ server' = server /\ client' = client /\ conn' = conn
      /\ shared' = shared /\ cut' = cut /\ net' = net /\ thread[t].pc = "created"
  BY DEF Bind
<1>2. setup.type = "udp"
  BY <1>1, Types DEF Inv, TcpInv, TcpClientInv
<1>3. /\ thread \in [Clients -> ThreadType] /\ client \in [Clients -> ClientType]
      /\ net \subseteq DatagramType /\ shared \subseteq PortNumbers
      /\ faults \in 0 .. MaxFaults /\ thread[t] \in ThreadType
  BY Types DEF TypeOK
<1>4. /\ faults' \in 0 .. MaxFaults
      /\ \E th \in ThreadType : /\ thread' = [thread EXCEPT ![t] = th]
                                /\ th.pc \in {"hello", "done"} /\ th.port = thread[t].port
  <2> DEFINE bound == [thread[t] EXCEPT !.pc = "hello"]
             done == [thread[t] EXCEPT !.pc = "done"]
  <2>1. /\ bound \in ThreadType /\ bound.pc = "hello" /\ bound.port = thread[t].port
        /\ done \in ThreadType /\ done.pc = "done" /\ done.port = thread[t].port
    BY <1>3 DEF ThreadType, Stages
  <2>2. \/ thread' = [thread EXCEPT ![t] = bound] /\ faults' = faults
        \/ thread' = [thread EXCEPT ![t] = done] /\ Fault
    BY DEF Bind
  <2> HIDE DEF bound, done
  <2> QED
    BY <1>3, <2>1, <2>2, FaultType
<1>5. PICK th \in ThreadType : /\ thread' = [thread EXCEPT ![t] = th]
                               /\ th.pc \in {"hello", "done"} /\ th.port = thread[t].port
  BY <1>4
<1>6. /\ thread' \in [Clients -> ThreadType] /\ thread'[t] = th
      /\ \A b \in Clients : b # t => thread'[b] = thread[b]
  BY <1>3, <1>5, Replaced
<1>7. \A b \in Clients : Step(thread'[b].pc) >= Step(thread[b].pc)
  <2>1. Step(thread[t].pc) = 0
    BY <1>1 DEF Step
  <2> QED
    BY <1>6, <2>1, AfterShape
<1>8. \A b \in Clients : Kept(b)
  BY <1>1, <1>5, <1>6, <1>7 DEF Kept
<1>9. OwnPort'
  <2>1. OwnPort
    BY <1>2 DEF Inv, UdpInv
  <2>2. \A b \in Clients : thread'[b].port = thread[b].port /\ (Over(b) => Over(b)')
    BY <1>1, <1>5, <1>6 DEF Over
  <2> QED
    BY <1>1, <2>1, <2>2, OwnPortKept
<1> QED
  BY <1>1, <1>2, <1>3, <1>4, <1>6, <1>8, <1>9, SameServer, UdpChange

-----------------------------------------------------------------------------
(* The process of the server, and every step                               *)

\* Nothing of a client changes, or its thread ends and its connection is closed.
LEMMA MainKeeps ==
  ASSUME TypeOK, Inv, main
  PROVE  TypeOK' /\ Inv'
<1>1. /\ setup' = setup /\ thread' = thread /\ client' = client /\ conn' = conn /\ net' = net
      /\ shared' = shared /\ cut' = cut /\ faults' = faults /\ server.pc = "down"
      /\ \E pc \in {"serving", "ended"} : server' = [server EXCEPT !.pc = pc]
  BY DEF main, OpenTcp, OpenUdp
<1>2. /\ server'.pc \in {"down", "serving", "ended"} /\ server'.port \in Ports
      /\ server' = [pc |-> server'.pc, port |-> server'.port]
  BY <1>1 DEF TypeOK, Ports
<1>3. /\ thread' \in [Clients -> ThreadType] /\ client' \in [Clients -> ClientType]
      /\ conn' \in [Clients -> ConnType] /\ net' \subseteq DatagramType
      /\ shared' \subseteq PortNumbers /\ cut' \subseteq Clients /\ faults' \in 0 .. MaxFaults
  BY <1>1, Types DEF TypeOK
<1>4. TypeOK'
  BY <1>1, <1>2, <1>3, TypeAfter
<1>5. TcpInv'
  BY <1>1 DEF Inv, TcpInv, TcpClientInv, TcpInStep, RightAnswer, Out
<1>6. UdpInv'
  <2> SUFFICES ASSUME setup.type = "udp" PROVE UdpInv'
    BY <1>1 DEF UdpInv
  <2>1. \A b \in Clients : Kept(b)
    BY <1>1, AfterShape DEF Kept
  <2>2. OwnPort'
    BY <1>1 DEF Inv, UdpInv, OwnPort, Over
  <2> QED
    BY <1>1, <1>2, <1>3, <2>1, <2>2, UdpChange DEF Inv
<1>7. OneTransport' /\ LastIsLast' /\ MessageComesBack'
  BY <1>1 DEF Inv, OneTransport, LastIsLast, MessageComesBack
<1> QED
  BY <1>4, <1>5, <1>6, <1>7 DEF Inv

LEMMA ServerDiesKeeps ==
  ASSUME TypeOK, Inv, ServerDies
  PROVE  TypeOK' /\ Inv'
<1> DEFINE Gone(c) == CASE conn[c].srv = "none" -> conn[c]
                        [] conn[c].srv = "backlog" -> [conn[c] EXCEPT !.srv = "closed", !.reset = TRUE]
                        [] OTHER -> [conn[c] EXCEPT !.srv = "closed"]
<1>1. /\ setup' = setup /\ client' = client /\ net' = net /\ shared' = shared /\ cut' = cut
      /\ server' = [server EXCEPT !.pc = "ended"]
      /\ thread' = [c \in Clients |-> [thread[c] EXCEPT !.pc = "done"]]
      /\ conn' = [c \in Clients |-> Gone(c)]
  BY DEF ServerDies
<1>2. /\ server'.pc = "ended" /\ server'.port \in Ports
      /\ server' = [pc |-> server'.pc, port |-> server'.port]
  BY <1>1 DEF TypeOK, Ports
<1>3. \A c \in Clients : /\ thread[c] \in ThreadType /\ conn[c] \in ConnType
  BY Types
<1>4. \A c \in Clients : /\ thread'[c] \in ThreadType /\ thread'[c].pc = "done"
                         /\ thread'[c].port = thread[c].port
  BY <1>1, <1>3 DEF ThreadType
<1>5. \A c \in Clients : /\ conn'[c] \in ConnType /\ conn'[c].up = conn[c].up
                         /\ conn'[c].down = conn[c].down
                         /\ conn[c].srv = "none" => conn'[c] = conn[c]
                         /\ conn[c].srv # "none" => conn'[c].srv = "closed"
  <2> SUFFICES ASSUME NEW c \in Clients
               PROVE  /\ Gone(c) \in ConnType /\ Gone(c).up = conn[c].up
                      /\ Gone(c).down = conn[c].down
                      /\ conn[c].srv = "none" => Gone(c) = conn[c]
                      /\ conn[c].srv # "none" => Gone(c).srv = "closed"
    BY <1>1
  <2>1. CASE conn[c].srv = "none"
    BY <1>3, <2>1
  <2>2. CASE conn[c].srv = "backlog"
    <3>1. Gone(c) = [conn[c] EXCEPT !.srv = "closed", !.reset = TRUE]
      BY <2>2
    <3> HIDE DEF Gone
    <3> QED
      BY <1>3, <2>2, <3>1 DEF ConnType
  <2>3. CASE conn[c].srv \notin {"none", "backlog"}
    <3>1. Gone(c) = [conn[c] EXCEPT !.srv = "closed"]
      BY <2>3
    <3> HIDE DEF Gone
    <3> QED
      BY <1>3, <2>3, <3>1 DEF ConnType
  <2> QED
    BY <2>1, <2>2, <2>3
<1> HIDE DEF Gone
<1>6. thread' \in [Clients -> ThreadType] /\ conn' \in [Clients -> ConnType]
  BY <1>1, <1>4, <1>5
<1>7. /\ client' \in [Clients -> ClientType] /\ net' \subseteq DatagramType
      /\ shared' \subseteq PortNumbers /\ cut' \subseteq Clients /\ faults' \in 0 .. MaxFaults
  BY <1>1, Types, FaultType DEF ServerDies
<1>8. TypeOK'
  BY <1>1, <1>2, <1>6, <1>7, TypeAfter
<1>9. TcpInv'
  <2> SUFFICES ASSUME setup.type = "tcp", NEW c \in Clients
               PROVE  TcpClientInv(c)'
    BY <1>1 DEF TcpInv
  <2>1. TcpClientInv(c)
    BY DEF Inv, TcpInv
  <2>2. conn'[c].srv = "none" \/ conn'[c].srv = "closed"
    BY <1>5
  <2>3. TcpInStep(c)'
    BY <1>1, <1>5, <2>1 DEF TcpClientInv, TcpInStep, RightAnswer
  <2> QED
    BY <1>1, <1>2, <1>4, <1>5, <2>1, <2>2, <2>3 DEF TcpClientInv, Stages
<1>10. OneTransport'
  BY <1>1, <1>5 DEF Inv, OneTransport, NoConnection
<1>11. UdpInv'
  <2> SUFFICES ASSUME setup.type = "udp" PROVE UdpInv'
    BY <1>1 DEF UdpInv
  <2>1. \A b \in Clients : Step(thread'[b].pc) >= Step(thread[b].pc)
    <3>1. \A b \in Clients : Step(thread'[b].pc) = 3 /\ Step(thread[b].pc) \in 0 .. 3
      BY <1>4, AfterShape DEF Step
    <3> QED
      BY <3>1
  <2>2. \A b \in Clients : Kept(b)
    BY <1>1, <1>4, <2>1 DEF Kept, Stages
  <2>3. OwnPort'
    <3>1. \A b \in Clients : thread'[b].port = thread[b].port /\ (Over(b) => Over(b)')
      BY <1>1, <1>4 DEF Over, Stages
    <3> QED
      BY <1>1, <3>1, OwnPortKept DEF Inv, UdpInv
  <2>4. conn' = conn
    <3>1. conn \in [Clients -> ConnType]
      BY Types
    <3>2. \A b \in Clients : conn'[b] = conn[b]
      BY <1>5 DEF Inv, OneTransport, NoConnection
    <3> QED
      BY <1>6, <3>1, <3>2
  <2> QED
    BY <1>1, <1>2, <1>6, <1>7, <2>2, <2>3, <2>4, UdpChange DEF Inv
<1>12. LastIsLast' /\ MessageComesBack'
  BY <1>1 DEF Inv, LastIsLast, MessageComesBack
<1> QED
  BY <1>8, <1>9, <1>10, <1>11, <1>12 DEF Inv

LEMMA InitInv ==
  ASSUME Init
  PROVE  TypeOK /\ Inv
<1>1. /\ setup \in Setups /\ server = [pc |-> "down", port |-> MainPort]
      /\ thread = [c \in Clients |-> NoThread] /\ client = [c \in Clients |-> NoClient]
      /\ conn = [c \in Clients |-> NoConnection] /\ net = {} /\ shared = {} /\ cut = {}
      /\ faults = 0
  BY DEF Init
<1>2. \A c \in Clients : thread[c] = NoThread /\ client[c] = NoClient /\ conn[c] = NoConnection
  BY <1>1
<1>3. /\ NoThread \in ThreadType /\ NoClient \in ClientType /\ NoConnection \in ConnType
  <2>1. MainPort \in Ports /\ << >> \in Seq(Nat) /\ 0 \in 0 .. 2
    BY PortFacts, EmptySeq
  <2> QED
    BY <2>1 DEF NoThread, NoClient, NoConnection, ThreadType, ClientType, ConnType
<1>4. /\ thread \in [Clients -> ThreadType] /\ client \in [Clients -> ClientType]
      /\ conn \in [Clients -> ConnType]
  BY <1>1, <1>3
<1>5. 0 \in 0 .. MaxFaults
  BY SuiteAssumption
<1>6. server \in [pc : {"down", "serving", "ended"}, port : Ports]
  BY <1>1, PortFacts
<1>7. TypeOK
  BY <1>1, <1>4, <1>5, <1>6 DEF TypeOK, Ports, ThreadType, ClientType, ConnType
<1>8. \A c \in Clients : /\ thread[c].pc = "none" /\ thread[c].port = MainPort
                         /\ client[c].pc = "idle" /\ client[c].sock = 0 /\ client[c].last = << >>
                         /\ conn[c].srv = "none"
  BY <1>2 DEF NoThread, NoClient, NoConnection
<1>9. OneTransport /\ LastIsLast /\ MessageComesBack
  BY <1>1, <1>2, <1>8 DEF OneTransport, LastIsLast, MessageComesBack
<1>10. TcpInv
  BY <1>8 DEF TcpInv, TcpClientInv, TcpInStep, Stages
<1>11. UdpInv
  BY <1>1, <1>8 DEF UdpInv, UdpClientInv, UdpInStep, OwnPort, Stages
<1> QED
  BY <1>7, <1>9, <1>10, <1>11 DEF Inv

LEMMA StutterKeeps ==
  ASSUME TypeOK, Inv, UNCHANGED vars
  PROVE  TypeOK' /\ Inv'
<1>1. TypeOK'
  BY DEF TypeOK, vars
<1>2. OneTransport' /\ LastIsLast' /\ MessageComesBack'
  BY DEF Inv, OneTransport, LastIsLast, MessageComesBack, vars
<1>3. TcpInv'
  BY DEF Inv, TcpInv, TcpClientInv, TcpInStep, RightAnswer, Out, vars
<1>4. UdpInv'
  BY DEF Inv, UdpInv, UdpClientInv, UdpInStep, DatagramOf, OwnPort, Over, RightAnswer, Out, vars
<1> QED
  BY <1>1, <1>2, <1>3, <1>4 DEF Inv

LEMMA NextKeeps ==
  ASSUME TypeOK, Inv, Next
  PROVE  TypeOK' /\ Inv'
<1>1. CASE main
  BY <1>1, MainKeeps
<1>2. CASE ServerDies
  BY <1>2, ServerDiesKeeps
<1>3. CASE Lose
  <2>1. PICK d \in net : net' = net \ {d}
    BY <1>3 DEF Lose
  <2>2. /\ setup' = setup /\ conn' = conn /\ cut' = cut /\ server' = server
        /\ thread' = thread /\ client' = client /\ shared' = shared /\ faults' \in 0 .. MaxFaults
    BY <1>3, FaultType DEF Lose
  <2> QED
    BY <2>1, <2>2, LoseKeeps
<1>4. ASSUME NEW d \in net, Refuse(d)
      PROVE  TypeOK' /\ Inv'
  BY <1>4, RefuseKeeps
<1>5. ASSUME NEW c \in Clients, Server(c)
      PROVE  TypeOK' /\ Inv'
  BY <1>5, AcceptKeeps, ExchangeTcpKeeps, BindKeeps, PortKeeps, ExchangeUdpKeeps DEF Server
<1>6. ASSUME NEW c \in Clients, Client(c)
      PROVE  TypeOK' /\ Inv'
  BY <1>6, TcpClientKeeps, UdpClientKeeps, ClientEndKeeps DEF Client
<1>7. ASSUME NEW c \in Clients, ClientDies(c) \/ Reset(c)
      PROVE  TypeOK' /\ Inv'
  BY <1>7, ClientEndKeeps, ResetKeeps
<1> QED
  BY <1>1, <1>2, <1>3, <1>4, <1>5, <1>6, <1>7 DEF Next

\* Every state of the server and its clients is as Inv says: what is on the way
\* between a client and its thread is what their two places in the exchange call for,
\* as long as no read of the connection was cut and the port is nobody else's.
THEOREM InvInductive == Spec => [](TypeOK /\ Inv)
<1>1. Init => TypeOK /\ Inv
  BY InitInv
<1>2. TypeOK /\ Inv /\ [Next]_vars => (TypeOK /\ Inv)'
  BY NextKeeps, StutterKeeps
<1> QED
  BY <1>1, <1>2, PTL DEF Spec

\* The threads, clients, connections and datagrams keep their types: above all, the
\* answer to a request for a port is read as a port (Head of the datagram in
\* send_data_udp and communicationUdp), and no other datagram ever gets there.
THEOREM TypeCorrect == Spec => []TypeOK
<1>1. TypeOK /\ Inv => TypeOK
  OBVIOUS
<1> QED
  BY <1>1, InvInductive, PTL

\* README: the message a client receives at the end is the one
\* it sent first. Of every exchange that ends, whatever else fails, if each read of
\* its connection got a whole message and nobody else used its port
\* (exchange_data_tcp, exchange_data_udp, the port counter of start_server_udp).
THEOREM MessageReturns == Spec => []MessageComesBack
<1>1. TypeOK /\ Inv => MessageComesBack
  BY DEF Inv
<1> QED
  BY <1>1, InvInductive, PTL
=============================================================================
