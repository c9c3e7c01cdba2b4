----------------------------- MODULE SocketSuite -----------------------------
(***************************************************************************)
(* The socket server and its two clients: socket_server.cpp with one       *)
(* thread per exchange, the Windows client socket_client_vs.cpp and the    *)
(* Android client SocketClientActivity.java.  In an exchange the client    *)
(* says hello, sends its message, gets it inverted, sends that back and    *)
(* gets the message again.  Over UDP the main socket first tells the       *)
(* client the port of a socket of its own, which a new thread opens.       *)
(*                                                                         *)
(* A connection is a pair of byte streams, a read takes what has arrived   *)
(* (any part of it); a datagram arrives whole, may be lost, and is refused *)
(* where no socket is bound.                                               *)
(***************************************************************************)
EXTENDS Naturals, Sequences, FiniteSets, SequencesExt

CONSTANTS
    Clients,     \* the clients, each of which makes one exchange
    Android,     \* those of them that are the Android client
    Message,     \* what the user of each client types, a sequence of characters
    Setups,      \* the type the server is started with and the clients that are run
    PortCount,   \* a UDP server hands out this many ports (10 in the code)
    MaxFaults    \* bound on the failures of the network and of the programs

ASSUME SuiteAssumption ==
    /\ IsFiniteSet(Clients) /\ Android \subseteq Clients
    /\ Message \in [Clients -> Seq(Nat)]
    /\ \A c \in Clients \ Android : Message[c] # << >>
    /\ Setups \subseteq [type : {"tcp", "udp"}, clients : SUBSET Clients]
    /\ PortCount \in Nat \ {0} /\ MaxFaults \in Nat

VARIABLES
    setup,    \* the server's type, and the clients that talk to it
    server,   \* the server's main thread: where it is and the last port handed out
    thread,   \* per client: the server thread its request created
    client,   \* per client: where its exchange is and what it has read
    conn,     \* per client: its TCP connection
    net,      \* the datagrams on their way
    shared,   \* history: the ports handed out while a thread or a client still used them
    cut,      \* history: the clients of whose connection a read took only a part
    faults    \* failures so far

vars == <<setup, server, thread, client, conn, net, shared, cut, faults>>

MainPort == 100
PortNumbers == MainPort + 1 .. MainPort + PortCount
ClientHello == <<1, 2>>
ServerHello == <<3, 4>>

Stages == {"hello", "first", "second"}
After(stage) == CASE stage = "hello" -> "first"
                  [] stage = "first" -> "second"
                  [] stage = "second" -> "done"
-----------------------------------------------------------------------------
\* The transports.

\* srv: none, backlog (not accepted yet), open or closed; cln: the client has it open.
NoConnection == [up |-> << >>, down |-> << >>, cln |-> FALSE, srv |-> "none",
                 reset |-> FALSE]

\* What a read of a stream can return.
Parts(stream) == {SubSeq(stream, 1, n) : n \in 1 .. Len(stream)}

Cut(c, stream, part) == IF part = stream THEN cut ELSE cut \cup {c}

Rest(stream, part) == SubSeq(stream, Len(part) + 1, Len(stream))

Datagram(c, way, sock, port, data) ==
    [client |-> c, way |-> way, sock |-> sock, port |-> port, data |-> data]

Bound(port) ==
    \/ port = MainPort /\ server.pc = "serving"
    \/ \E t \in Clients : thread[t].pc \in Stages /\ thread[t].port = port

Finished(k) == k.pc \in {"idle", "ok", "error"}

Broken(k) == [k EXCEPT !.pc = "error", !.sock = 0]

Fault == faults < MaxFaults /\ faults' = faults + 1

Lose ==
    /\ Fault
    /\ \E d \in net : net' = net \ {d}
    /\ UNCHANGED <<setup, server, thread, client, conn, shared, cut>>

\* A datagram for a port nobody has opened; the client, which waits for the answer,
\* may be told: its read fails.
Refuse(d) ==
    /\ d \in net /\ d.way = "up" /\ ~Bound(d.port)
    /\ net' = net \ {d}
    /\ \/ UNCHANGED client
       \/ /\ client[d.client].sock = d.sock
          /\ client' = [client EXCEPT ![d.client] = Broken(@)]
    /\ UNCHANGED <<setup, server, thread, conn, shared, cut, faults>>

Reset(c) ==
    /\ Fault
    /\ conn[c].srv # "none" /\ ~conn[c].reset
    /\ conn' = [conn EXCEPT ![c].reset = TRUE, ![c].up = << >>, ![c].down = << >>]
    /\ UNCHANGED <<setup, server, thread, client, net, shared, cut>>
-----------------------------------------------------------------------------
\* socket_server.cpp

NoThread == [pc |-> "none", port |-> MainPort]

\* getaddrinfo, socket, bind and, for TCP, listen: the socket is open or the program
\* ends with an error.
OpenTcp == setup.type = "tcp" /\ \E pc \in {"serving", "ended"} : server' = [server EXCEPT !.pc = pc]
OpenUdp == setup.type = "udp" /\ \E pc \in {"serving", "ended"} : server' = [server EXCEPT !.pc = pc]

main ==
    /\ server.pc = "down"
    /\ OpenTcp \/ OpenUdp
    /\ UNCHANGED <<setup, thread, client, conn, net, shared, cut, faults>>

\* A thread for the request of client c. pthread_create is not checked: without a
\* thread the request is never served; a failed malloc ends the process, which is
\* ServerDies.
CreateThread(c, t) ==
    \/ thread' = [thread EXCEPT ![c] = t] /\ UNCHANGED faults
    \/ thread' = [thread EXCEPT ![c] = [t EXCEPT !.pc = "missing"]] /\ Fault

start_server_tcp(c) ==
    /\ setup.type = "tcp" /\ server.pc = "serving"
    /\ conn[c].srv = "backlog"
    /\ CreateThread(c, [NoThread EXCEPT !.pc = "hello"])
    /\ conn' = [conn EXCEPT ![c].srv = "open"]
    /\ UNCHANGED <<setup, server, client, net, shared, cut>>

\* Mutant: the ports never start again.
NextPortOn(port) == port + 1

NextPort(port) == IF port + 1 > MainPort + PortCount THEN MainPort + 1 ELSE port + 1

\* A thread still uses the port, or a client does whose own thread has ended or was
\* never created.
InUse(port) ==
    \E t \in Clients : /\ thread[t].port = port
                       /\ thread[t].pc \in Stages \cup {"created"} \/ ~Finished(client[t])

\* The port is sent before the thread that opens it is created.
start_server_udp(d) ==
    LET port == NextPort(server.port) IN
    /\ setup.type = "udp" /\ server.pc = "serving"
    /\ d \in net /\ d.way = "up" /\ d.port = MainPort
    /\ server' = [server EXCEPT !.port = port]
    /\ net' = (net \ {d}) \cup {Datagram(d.client, "down", d.sock, MainPort, <<port>>)}
    /\ CreateThread(d.client, [pc |-> "created", port |-> port])
    /\ shared' = IF InUse(port) THEN shared \cup {port} ELSE shared
    /\ UNCHANGED <<setup, client, conn, cut>>

\* Mutant: the message that comes back is not inverted a second time.
AnswerOnce(stage, data) ==
    CASE stage = "hello" -> ServerHello
      [] stage = "first" -> Reverse(data)
      [] stage = "second" -> data

\* The thread's answer to what it has read.
Answer(stage, data) == IF stage = "hello" THEN ServerHello ELSE Reverse(data)

\* Mutant: a client that has closed is not noticed.
ExchangeIgnoresEof(c) ==
    /\ setup.type = "tcp" /\ thread[c].pc \in Stages
    /\ \/ \E data \in Parts(conn[c].up) :
             /\ conn' = [conn EXCEPT
                    ![c].up = Rest(@, data),
                    ![c].down = IF conn[c].cln THEN @ \o Answer(thread[c].pc, data) ELSE @,
                    ![c].srv = IF thread[c].pc = "second" THEN "closed" ELSE @]
             /\ thread' = [thread EXCEPT ![c].pc = After(@)]
             /\ cut' = Cut(c, conn[c].up, data)
       \/ /\ UNCHANGED cut
          /\ conn[c].reset
          /\ conn' = [conn EXCEPT ![c].srv = "closed"]
          /\ thread' = [thread EXCEPT ![c].pc = "done"]
    /\ UNCHANGED <<setup, server, client, net, shared, faults>>

exchange_data_tcp(c) ==
    /\ setup.type = "tcp" /\ thread[c].pc \in Stages
    /\ \/ \E data \in Parts(conn[c].up) :
             /\ conn' = [conn EXCEPT
                    ![c].up = Rest(@, data),
                    ![c].down = IF conn[c].cln THEN @ \o Answer(thread[c].pc, data) ELSE @,
                    ![c].srv = IF thread[c].pc = "second" THEN "closed" ELSE @]
             /\ thread' = [thread EXCEPT ![c].pc = After(@)]
             /\ cut' = Cut(c, conn[c].up, data)
       \/ /\ UNCHANGED cut
          /\ conn[c].reset \/ (conn[c].up = << >> /\ ~conn[c].cln)
          /\ conn' = [conn EXCEPT ![c].srv = "closed"]
          /\ thread' = [thread EXCEPT ![c].pc = "done"]
    /\ UNCHANGED <<setup, server, client, net, shared, faults>>

\* getaddrinfo, socket and bind of the thread; when no address can be bound the
\* thread reads a descriptor that is closed and ends.
Bind(t) ==
    /\ thread[t].pc = "created"
    /\ \/ thread' = [thread EXCEPT ![t].pc = "hello"] /\ UNCHANGED faults
       \/ thread' = [thread EXCEPT ![t].pc = "done"] /\ Fault
    /\ UNCHANGED <<setup, server, client, conn, net, shared, cut>>

\* A datagram of any client goes to some thread bound to its port, which answers
\* whoever sent it.
exchange_data_udp(t, d) ==
    /\ thread[t].pc \in Stages
    /\ d \in net /\ d.way = "up" /\ d.port = thread[t].port
    /\ net' = (net \ {d}) \cup
          {Datagram(d.client, "down", d.sock, d.port, Answer(thread[t].pc, d.data))}
    /\ thread' = [thread EXCEPT ![t].pc = After(@)]
    /\ UNCHANGED <<setup, server, client, conn, shared, cut, faults>>

\* The process is killed: its connections are closed, its ports too.
ServerDies ==
    /\ Fault
    /\ server.pc = "serving"
    /\ server' = [server EXCEPT !.pc = "ended"]
    /\ thread' = [c \in Clients |-> [thread[c] EXCEPT !.pc = "done"]]
    /\ conn' = [c \in Clients |->
           CASE conn[c].srv = "none" -> conn[c]
             [] conn[c].srv = "backlog" -> [conn[c] EXCEPT !.srv = "closed", !.reset = TRUE]
             [] OTHER -> [conn[c] EXCEPT !.srv = "closed"]]
    /\ UNCHANGED <<setup, client, net, shared, cut>>
-----------------------------------------------------------------------------
\* The clients. What they have in common: a read waits for an outcome r, an
\* exchange goes through the stages and sends Out at the end of each.

NoClient == [pc |-> "idle", sock |-> 0, port |-> MainPort,
             answer |-> << >>, last |-> << >>]

Got(data) == [kind |-> "data", data |-> data]
Eof == [kind |-> "eof", data |-> << >>]
Failed == [kind |-> "failed", data |-> << >>]

TcpReads(c) ==
    IF conn[c].reset THEN {Failed}
    ELSE IF conn[c].down # << >> THEN {Got(data) : data \in Parts(conn[c].down)}
    ELSE IF conn[c].srv = "closed" THEN {Eof} ELSE {}

Inbox(c) == {d \in net : d.way = "down" /\ d.client = c /\ d.sock = client[c].sock}

UdpReads(c) == {Got(d.data) : d \in Inbox(c)}

\* The client after a read that brought data.
Advanced(k, data) ==
    CASE k.pc = "port" -> [k EXCEPT !.pc = "hello", !.sock = 2, !.port = Head(data)]
      [] k.pc = "hello" -> [k EXCEPT !.pc = "first", !.answer = data]
      [] k.pc = "first" -> [k EXCEPT !.pc = "second", !.answer = data]
      [] k.pc = "second" -> [k EXCEPT !.pc = "ok", !.sock = 0, !.last = data]

\* Mutant: the client does not send the answer back.
OutOnce(c, k) ==
    CASE k.pc \in {"port", "hello"} -> ClientHello
      [] k.pc = "first" -> Message[c]
      [] OTHER -> << >>

\* What the client sends when it gets to the stage it is now in.
Out(c, k) ==
    CASE k.pc \in {"port", "hello"} -> ClientHello
      [] k.pc = "first" -> Message[c]
      [] k.pc = "second" -> k.answer
      [] OTHER -> << >>

\* connect and the first send; a reset on a send to a closed peer comes back
\* before or after the next read.
TcpConnect(c) ==
    /\ client[c].pc = "idle" /\ server.pc # "down"
    /\ IF server.pc = "serving"
          THEN /\ client' = [client EXCEPT ![c].pc = "hello"]
               /\ conn' = [conn EXCEPT ![c] = [NoConnection EXCEPT !.up = ClientHello,
                                                   !.cln = TRUE, !.srv = "backlog"]]
          ELSE client' = [client EXCEPT ![c] = Broken(@)] /\ UNCHANGED conn
    /\ UNCHANGED <<setup, server, thread, net, shared, cut, faults>>

TcpStep(c, r, k) ==
    /\ client' = [client EXCEPT ![c] = k]
    /\ \E told \in BOOLEAN :
          /\ told => conn[c].srv = "closed"
          /\ conn' = [conn EXCEPT
                ![c].down = Rest(@, r.data),
                ![c].up = IF conn[c].srv = "closed" THEN @ ELSE @ \o Out(c, k),
                ![c].reset = @ \/ told,
                ![c].cln = ~Finished(k)]
    /\ cut' = IF r = Eof \/ r = Failed THEN cut ELSE Cut(c, conn[c].down, r.data)
    /\ UNCHANGED <<setup, server, thread, net, shared, faults>>

UdpConnect(c) ==
    /\ client[c].pc = "idle"
    /\ client' = [client EXCEPT ![c].pc = "port", ![c].sock = 1]
    /\ net' = net \cup {Datagram(c, "up", 1, MainPort, ClientHello)}
    /\ UNCHANGED <<setup, server, thread, conn, shared, cut, faults>>

UdpStep(c, r, k) ==
    /\ client' = [client EXCEPT ![c] = k]
    /\ net' = {d \in net : d \notin Inbox(c) \/ (k.sock = d.sock /\ Got(d.data) # r)} \cup
               (IF Finished(k) THEN {} ELSE {Datagram(c, "up", k.sock, k.port, Out(c, k))})
    /\ UNCHANGED <<setup, server, thread, conn, shared, cut, faults>>

\* socket_client_vs.cpp: every failed read ends the exchange with an error.
VsReacts(k, r) == IF r.kind = "data" THEN Advanced(k, r.data) ELSE Broken(k)

send_data_tcp(c) ==
    /\ setup.type = "tcp" /\ c \notin Android
    /\ \/ TcpConnect(c)
       \/ /\ ~Finished(client[c])
          /\ \E r \in TcpReads(c) : TcpStep(c, r, VsReacts(client[c], r))

VsAsksPort(c) ==
    \/ UdpConnect(c)
    \/ /\ client[c].pc = "port"
       /\ \E r \in UdpReads(c) : UdpStep(c, r, VsReacts(client[c], r))

VsExchanges(c) ==
    /\ client[c].pc \in Stages
    /\ \E r \in UdpReads(c) : UdpStep(c, r, VsReacts(client[c], r))

send_data_udp(c) ==
    /\ setup.type = "udp" /\ c \notin Android
    /\ VsAsksPort(c) \/ VsExchanges(c)

\* SocketClientActivity: a message of less than three characters is not sent.
run(c) ==
    /\ client[c].pc = "idle" /\ c \in Android /\ Len(Message[c]) < 3
    /\ client' = [client EXCEPT ![c] = Broken(@)]
    /\ UNCHANGED <<setup, server, thread, conn, net, shared, cut, faults>>

\* An end of file in place of the first or the second answer is logged, and the
\* exchange goes on with the answer it had.
AndroidReacts(k, r) ==
    CASE r.kind = "data" -> Advanced(k, r.data)
      [] r.kind = "eof" /\ k.pc = "first" -> [k EXCEPT !.pc = "second"]
      [] r.kind = "eof" /\ k.pc = "second" -> [k EXCEPT !.pc = "ok", !.sock = 0]
      [] OTHER -> Broken(k)

communicationTcp(c) ==
    /\ setup.type = "tcp" /\ c \in Android
    /\ \/ Len(Message[c]) >= 3 /\ TcpConnect(c)
       \/ /\ ~Finished(client[c])
          /\ \E r \in TcpReads(c) : TcpStep(c, r, AndroidReacts(client[c], r))

AndroidAsksPort(c) ==
    \/ Len(Message[c]) >= 3 /\ UdpConnect(c)
    \/ /\ client[c].pc = "port"
       /\ \E r \in UdpReads(c) : UdpStep(c, r, AndroidReacts(client[c], r))

AndroidExchanges(c) ==
    /\ client[c].pc \in Stages
    /\ \E r \in UdpReads(c) : UdpStep(c, r, AndroidReacts(client[c], r))

communicationUdp(c) ==
    /\ setup.type = "udp" /\ c \in Android
    /\ AndroidAsksPort(c) \/ AndroidExchanges(c)

\* The user ends the program, the system closes its socket.
ClientDies(c) ==
    /\ Fault
    /\ ~Finished(client[c])
    /\ client' = [client EXCEPT ![c] = Broken(@)]
    /\ conn' = [conn EXCEPT ![c].cln = FALSE]
    /\ UNCHANGED <<setup, server, thread, net, shared, cut>>
-----------------------------------------------------------------------------
Init ==
    /\ setup \in Setups
    /\ server = [pc |-> "down", port |-> MainPort]
    /\ thread = [c \in Clients |-> NoThread]
    /\ client = [c \in Clients |-> NoClient]
    /\ conn = [c \in Clients |-> NoConnection]
    /\ net = {} /\ shared = {}
    /\ cut = {} /\ faults = 0

Server(c) ==
    \/ start_server_tcp(c) \/ exchange_data_tcp(c) \/ Bind(c)
    \/ \E d \in net : start_server_udp(d) \/ exchange_data_udp(c, d)

Client(c) ==
    /\ c \in setup.clients
    /\ \/ send_data_tcp(c) \/ send_data_udp(c)
       \/ run(c) \/ communicationTcp(c) \/ communicationUdp(c)

Next ==
    \/ main \/ ServerDies \/ Lose
    \/ \E d \in net : Refuse(d)
    \/ \E c \in Clients : Server(c) \/ Client(c) \/ ClientDies(c) \/ Reset(c)

Spec == Init /\ [][Next]_vars

\* Over TCP each thread and each client is scheduled when it can go on; over UDP
\* nothing is asked of the system to happen.
FairSpec ==
    /\ Spec
    /\ \A c \in Clients :
          /\ WF_vars(start_server_tcp(c) \/ exchange_data_tcp(c))
          /\ WF_vars(c \in setup.clients /\ (send_data_tcp(c) \/ communicationTcp(c)))
-----------------------------------------------------------------------------
TypeOK ==
    /\ setup \in Setups
    /\ server \in [pc : {"down", "serving", "ended"}, port : {MainPort} \cup PortNumbers]
    /\ thread \in [Clients -> [pc : Stages \cup {"none", "missing", "created", "done"},
                               port : {MainPort} \cup PortNumbers]]
    /\ client \in [Clients -> [pc : Stages \cup {"idle", "port", "ok", "error"},
                               sock : 0 .. 2, port : {MainPort} \cup PortNumbers,
                               answer : Seq(Nat), last : Seq(Nat)]]
    /\ conn \in [Clients -> [up : Seq(Nat), down : Seq(Nat), cln : BOOLEAN,
                             srv : {"none", "backlog", "open", "closed"},
                             reset : BOOLEAN]]
    /\ net \subseteq [client : Clients, way : {"up", "down"}, sock : 1 .. 2,
                     port : {MainPort} \cup PortNumbers, data : Seq(Nat)]
    /\ shared \subseteq PortNumbers /\ cut \subseteq Clients /\ faults \in 0 .. MaxFaults

\* README: the last message the client receives is the one it sent first. True of
\* every exchange that ends, whatever the other clients do and fail to do, when each
\* read of its connection got a whole message, or nobody else was given its port.
MessageComesBack ==
    \A c \in Clients :
        client[c].last # << >> /\ c \notin cut /\ client[c].port \notin shared
            => client[c].last = Message[c]

\* A client over TCP gets to an end, of whatever kind, although neither side has a
\* timeout: every answer that is waited for is sent or its connection closed. (Not
\* so for a request whose thread could not be created, and not so over UDP.)
TcpClientsFinish ==
    \A c \in Clients :
        (setup.type = "tcp" /\ client[c].pc = "hello")
            ~> (Finished(client[c]) \/ thread[c].pc = "missing")

\* No thread of the TCP server outlives its client.
TcpThreadsEnd ==
    \A c \in Clients :
        (setup.type = "tcp" /\ thread[c].pc \in Stages /\ Finished(client[c]))
            ~> (thread[c].pc = "done")
=============================================================================
