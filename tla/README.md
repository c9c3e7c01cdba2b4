# Verification of the Android VPN Stack Suite

TLA+ specifications of sm_vpn_stack_suite, the TLC configurations that check
them and the TLAPS proofs about them. The centre is the VPN stack: a
user-space TCP/UDP/ICMP stack that takes an app's packets from a tun device,
talks to the servers over ordinary sockets, and writes the answers back as
packets (`src/vpn_stack/app/src/main/jni`, called "jni" below). Around it are
the socket server and its two clients, which exercise the stack, and two
libraries all of them share: the log library and the safe string library.

## 1. The system

| component | code | state | operations | modelled in |
|---|---|---|---|---|
| sequence arithmetic | `vpn/util.c` compare_u32, `vpn/tcp.c` get_send_window | none | compare, window | SeqArith |
| TCP sessions | `vpn/tcp.c` | tcp_session: state, remote_seq, local_seq, acked, windows, the queue `forward`; socket | handle_tcp, queue_tcp, check_tcp_socket, monitor_tcp_session, check_tcp_session, write_* | TcpSession |
| UDP sessions | `vpn/udp.c` | udp_session: ACTIVE, FINISHING, CLOSED; socket | handle_udp, check_udp_socket, check_udp_session, has_udp_session | DatagramSessions |
| ICMP sessions | `vpn/icmp.c` | icmp_session: stop, id; socket | handle_icmp, check_icmp_socket, check_icmp_session | DatagramSessions |
| IP dispatch | `vpn/ip.c` | none | check_tun, handle_ip, get_uid | DatagramSessions (limit, dispatch), VpnService (tun errors), PacketsIn (headers, get_uid) |
| event loop | `vpn/session.c` | g_vpn_session, stop_threads, the batch of epoll events | handle_events, check_allowed, clear | all three |
| service and JNI | `VpnStackAppService.java`, `vpn_stack.c` | vpnStarted, vpn, thread_id_handle_events, the pipe | onCreate, start, stop, onRevoke, onDestroy; jni_init, jni_start, jni_stop, jni_done | VpnService |
| DNS parser | `vpn/dns.c` | none | get_qname, get_dns_query, parse_dns_response | PacketsIn |
| DHCP responder | `vpn/dhcp.c` | none | check_dhcp | not modelled, see section 6 |
| socket protection | `vpn/vpn.c` | none | protect_socket | its failure, as one of opening a socket |
| user interface | `VpnStackAppActivity.java` | the status it shows | start and stop buttons, broadcasts | VpnService |
| log library | `sm_log_lib` (three copies) | mutex, file, level, m_start | init, start, print, printf, stop, close; paths | SmLog, LogPaths |
| log service of the app | `log_service.c`, `LogService.java` | the log's configuration | logInit, logPrint, logClose | SmLog |
| socket server | `socket_server.cpp` | a thread per client, a socket per thread | main, start_server_tcp, start_server_udp, exchange_data_tcp, exchange_data_udp | SocketSuite |
| socket clients | `socket_client_vs.cpp`, `SocketClientActivity.java` | one exchange | send_data_tcp, send_data_udp; communicationTcp, communicationUdp | SocketSuite |
| safe string library | `sstring_lib` (three copies) | none | mem*, wmem*, str*, stp*, wcs*, snprintf_s_* | SafeMemory, SafeStrings, SafeStringQueries, SafeFormats |

### How they interact

The service's main thread calls jni_start, which creates one native thread
running handle_events. That thread owns the list of sessions. Each round it
counts the sessions and monitors the TCP ones (which events to ask epoll for),
checks all of them (timeouts, closing, freeing), waits in epoll_wait, and
handles the reported batch: the pipe (stop), the tun device (packets of the
app, through check_tun and handle_ip to handle_tcp, handle_udp, handle_icmp) and
the sockets of the sessions. jni_stop writes a byte to the pipe, joins the
thread, and frees the list. Service and thread share the statics
thread_id_handle_events and stop_threads without a lock. The service tells the
activity by broadcasts what to show. Every program logs through the log library,
from all of its threads at once, with one configuration and one recursive mutex
in it; the log library and the programs use the string library for every copy.
A socket client makes one exchange with the socket server: hello, a message,
its inverse sent back, and the message again; over UDP the server first names
the port of a socket of its own, which a new thread then opens.

### What is hard

* Events of one batch are handled in order, each able to change the session a
  later one points to; a session's socket may be gone when its event comes up.
* Packets of the app are lost, repeated, reordered and cut differently when
  they are sent again; sequence numbers wrap around.
* A FIN is confirmed at three places; SYN, FIN and data advance the same two
  counters, only when a write to the tun has succeeded.
* Every system call fails, and most failures are logged and passed over.
* The number of sessions is counted once and used for a whole batch.
* Thread identity, stop flag and stop byte outlive the thread they were for.
* A print waits for the mutex while another thread stops the log and starts it
  again; formatting takes the mutex, and printing what was formatted takes it again.
* recv returns a part of what was sent, a datagram is lost or refused, threads
  cannot be created and programs die, and nobody has a timeout.
* Copies overlap, sizes end in the middle of a word, strings do not end.

`PROJECT.json` lists the hazards at their lines with the properties that would
catch them.

### What makes each component correct

* arithmetic: the order is RFC 1982's; the window left neither wraps nor opens
  beyond what was advertised.
* TCP: the server gets a prefix of the app's stream and the app a prefix of
  the server's; nothing unsent is acknowledged; SYN and FIN count once; a
  session that was opened owns exactly one socket as long as it may use it and gives it
  back once; a closing session never comes back and is freed.
* UDP and ICMP: the same for sockets and freeing; one session per flow; no
  growth at the limit.
* service: as long as a stop can write to the pipe, at most one serving thread, and it
  is the known one; stopped means stopped; the sessions are freed, and only while no
  thread uses them; and always: calls return, the activity shows what is so.
* log: lines are whole and in the order of their times, those of a group stay
  together, nothing is written to a log that is stopped, calls return.
* server and clients: the last message a client gets is the one it sent
  (`README.md`); over TCP both ends finish.
* libraries: a call touches nothing outside of its destination, does all or
  nothing, and agrees with what it is about; a path stays below its root.
* packets: what the app receives has valid checksums and lengths, what it sends
  reaches the handler of its protocol, and DNS names are read to the end.

## 2. The modules

| module | stands for |
|---|---|
| `SeqArith` | compare_u32 and get_send_window over 2 * Half numbers, RFC 1982 as reference |
| `MCSeqArith` | every pair of numbers as the states of a walk, and the two properties |
| `AlgorithmProofs` | proofs about SeqArith, SafeMemory and PacketsOut: numbers, memory calls, sealed packets |
| `TcpSession` | one TCP session, the thread that serves it, the app's kernel and the server |
| `TcpLifecycle` | abstract specification of a TCP session: phases and one socket |
| `MCTcpSession` | root of the TCP runs |
| `TcpSessionProofs` | proofs about TcpSession: types, sockets and events, closing; shapes of its operators |
| `TcpUpstreamProofs` | proofs about the app's stream, and the refinement of TcpLifecycle |
| `TcpDownstreamProofs` | proofs about the server's stream, its windows and ACKs |
| `VpnService` | the activity, the service, the JNI calls, the native thread and the pipe |
| `VpnServiceProofs` | proofs about VpnService |
| `DatagramSessions` | UDP and ICMP sessions, the session limit, and the thread that serves them |
| `DatagramSessionsProofs` | proofs about DatagramSessions |
| `PacketsOut` | bytes: checksums and the packets written |
| `PacketsIn` | bytes: the headers read, get_uid, DNS messages |
| `MCPackets` | what a receiver makes of a packet written, from the RFCs, and the packets tried |
| `PacketReference` | what a packet read is, and what a sender makes a DNS message of |
| `SmLog` | the log library and its threads: one configuration, the mutex, the log file |
| `SmLogProofs` | proofs about SmLog |
| `LogPaths` | sm_files_tools.c: paths split, joined, made absolute, and their directories |
| `PathReference` | where a path leads, told without the steps of the code |
| `SafeMemory` | the memory half of the string library: checks and primitives |
| `MCMemory` | every place, length and overlap in a small memory, and what the calls promise |
| `SafeStrings` | the functions that change strings |
| `SafeStringQueries` | the functions that compare, search and classify strings |
| `SafeFormats` | the conversions a format asks for, and the snprintf_s_* checks |
| `MCStrings` | the walk over the texts of a small memory, what the calls on strings promise and what the queries have to say |
| `MCAlgorithms` | bounded inputs of what else is pure (paths, packets, formats), and the properties against the references |
| `SocketSuite` | the server with a thread per exchange, the two clients, TCP and UDP between them |
| `MCSocketSuite` | who talks to whom and with which messages |
| `SocketSuiteProofs` | proofs about SocketSuite |

`LogPaths` extends `SafeStrings` extends `SafeMemory`, as the libraries are built
on each other. `TcpSession` extends `SeqArith` and instantiates `TcpLifecycle`. The three
parts of the system that the modules split (one TCP session, the other
sessions, the life of the thread) meet only in handle_events: the list of
sessions makes no session depend on another, except by their number (the limit,
in `DatagramSessions`) and by who may touch the list (`VpnService`).

### TcpSession

`s` is the vpn_session; `socket` is "s->socket >= 0", `events` is ev.events and
`watched` says that epoll knows the socket. `pc` is the place of the thread:
monitor, check, wait, batch. `tun` holds the packets the app has written and
the thread has not read; what the thread writes reaches the app at once, as
write() on the tun device is synchronous. Each way handle_tcp and
check_tcp_socket can take is an action: a packet is taken by exactly one of
NewSession, UnknownSession, WasClosed, DataAfterClose, ReceivedReset,
RepeatedSyn, FinBehindQueue, FinConfirmed, FinIgnored, AckAll and AckOther; an
event by SocketError, SocketConnected or SocketTransfers (forward, acknowledge,
read, in that order, as one action, as the code does it without letting anyone
in between).

Abstracted: a byte is its offset in the app's stream; a segment of the server's
data is its length; PSH, URG (dropped by the code), MSS and window scale are
left out; a timeout may or may not have expired when it is looked at; the room
in a socket's buffer is any. `app.faults`, `taken` are history variables: what
the app's kernel saw that it should not, and what was given to send(). So is `leaked`:
an open that failed behind socket() has left its descriptor open (tcp.c:903, 911, 935);
no session ever has it, and nothing closes it.

The app (Post, AppConnects, AppSends, AppAborts) and the server are external.
They are as wild as a correct kernel can be: it sends new data or sends again
from the first unacknowledged byte in any pieces, within its own stream. It
keeps its initial sequence number and does not reuse the 5-tuple after an
abort.

### VpnService

`call[c]` is where a caller is within start, stop or onDestroy, `thread[k]`
where the k-th native thread is. Everything between two accesses of shared state
is one step. Thread ids and tun devices are named by the number of the start,
and so are sessions, by the thread that opened them. `broadcasts` are on their way
to the activity, which the main thread delivers when no call is under way; `shown`
is the status it shows. An activity that is created anew gets only what is sent from
then on. `piped` says that pipe() has succeeded, `pipe` counts the bytes in it, and
`watches` of a thread that its epoll has it. A stop without a pipe writes to whatever the
numbers in pipefds name (zeros at first), so the write may succeed or fail; where it
fails the thread is not joined. Left out is that such a number names another file that
can be polled or read, as an old pipe's may after an onDestroy: without `piped` no thread
gets past its epoll_ctl. `silent` and `abandoned` are history variables: onDestroy has
stopped the VPN and told nobody; a stop could not write and has not waited.

### DatagramSessions

`session` is the list by slot, `flow` stands for the addresses and ports (for
pings the addresses alone, as handle_icmp looks them up). `icmp.stop` is
FINISHING. The thread is that of TcpSession without the stop. `leaked` is a history
variable: an open that failed behind socket() has left it open (udp.c:389, icmp.c:294).
`failed` of the batch are the sockets reported with an error. The validation of
headers and the reading of DNS messages are in `PacketsIn`. Left out: the DHCP
answer, block_udp (never called).

### PacketsOut and PacketsIn

A packet is a sequence of bytes where the property is about bytes (checksums,
lengths, names, addresses in /proc/net) and a record of header fields where the
code only decides on them (handle_ip). Numbers lie in memory low byte first, as on
the processors Android runs on, so htons swaps. write_udp, write_tcp and
write_icmp give the whole packet; Sealed of MCPackets looks at it as RFC
1071's receiver does, over words in network order, which no step of the code
computes. Names of a reply may be pointers; the length of the message bounds a
cycle of them.

### SmLog

A call in progress is a stack of frames: sm_log_printf below sm_log_print below a
write. Each frame does one step at a time: the checks before the mutex, taking it,
the checks and the time behind it, the line, releasing it. `config` is
sm_log_config, `mutex` its recursive mutex with the depth, `lines` and `console` what
was written. A program may hold the mutex around several prints (Group,
PrintOfGroup), as sm_log_types.h describes. Only the owner starts, stops and
closes; it closes when no other thread is inside a call, as the programs do. The
names of directories and the text of a line are left out.

### LogPaths

A path is a sequence of characters, the operating system a parameter, since the
three copies differ only in what is compiled for Windows. A buffer that is too
small, an array that is full and a directory that cannot be made give the error
the code gives.

### SafeMemory, SafeStrings, SafeStringQueries, SafeFormats

Memory is a function from addresses to cells; a function of the library takes the
memory and gives the memory after it with the error. The words the primitives
move at once, the alignment they look for and the directions they run in are
kept, the unrolling of loops is not. Wide strings have the smaller limits. The
build leaves SAFECLIB_STR_NULL_SLACK out. A constraint handler is the one
that is installed, the one that ignores.

### SocketSuite

`thread[c]` is the server thread that the request of client c created, `client[c]`
the client's exchange, `conn[c]` its TCP connection as two streams, `net` the
datagrams on their way. A read takes any non-empty part of a stream, or a whole
datagram. The message is a short sequence, so that reversing it is what the code
does, and a hello is a value of its own. A port is handed out after ten others
(PortCount), and a socket bound with SO_REUSEADDR shares its datagrams. `cut` and
`shared` are history variables: who was given a part of a message by a read, and
which ports were handed out while a thread or a client still used them. Failures (a lost
datagram, a reset, a thread or socket that cannot be had, a program that is
killed) are bounded by MaxFaults.

## 3. Runs

| run | bounds | shows |
|---|---|---|
| algorithms | 16 numbers, windows 0, 1, 3, 8, both builds; 16 cells for the memory calls at every offset and size; strings in every memory of 5 cells over three characters; paths of up to 5 of 6 characters | NumbersAndWindowAgree, MemoryCallsKeepTheirPromise, StringCallsStayInside, QueriesAgreeWithStrings, PathsStayPut, PacketsAreSealed, InputsAreRead |
| tcp_upstream | ISN 30 of 32, so that the stream crosses zero; 2 bytes, on the SYN or behind it, 2 packets in the tun, which may drop | TypeOK, SynAndFinCountedOnce, ForwardedInOrder, NoAckOfUnsent |
| tcp_downstream | local ISN 30; the server sends 2 bytes, windows 0 and 2; tun writes fail | SocketMatchesState, EventsNameLiveSessions, NoGapForApp, WithinAppWindow, NothingAfterReset, NoFutureAck, ClosingIsFinal |
| tcp_eventually | 1 byte, data on the SYN, one packet in the tun, tun writes fail | EveryClosingSessionIsFreed, ImplementsLifecycle |
| vpn_service | one caller, two starts, pipe() and every write to it may fail, buttons pressed with fewer than two broadcasts on their way | TypeOK, ClearsAlone, ServingThreadIsKnown, StoppedMeansStopped, ShownIsTrue, CallsReturn |
| datagrams | one UDP, one DNS and one ping flow, two slots, limit 1, queues of 1 | TypeOK, SocketsMatchStates, EventsNameLiveSessions, OneSessionPerFlow, NoGrowthAtLimit, FinishedSessionsAreFreed |
| log | the owner and another thread, three calls after the opening, a clock of two times | TimesInOrder, GroupsStayTogether, WritesWhileStarted, CallsReturn |
| sockets | over TCP a Windows and an Android client, or an Android client; over UDP three clients for two ports; one failure | TypeOK, MessageComesBack, TcpClientsFinish, TcpThreadsEnd |

Why these bounds are enough to be of interest. Two bytes and two packets in
flight give overlap, repetition, reordering and loss between two segments, and a
FIN before, with and after its data. Two bytes of the server and a window of
two reach a window that closes in flight. Sequence numbers cross zero in the
run whose direction counts them; they never cross Half, where compare_u32 is
wrong with `Wraps = TRUE`, the build that wraps around (below, util.c:35).
Two starts make a thread see what the one before it has left, and let a thread that was
not joined meet the next (with three, 12.8 million states, the safety properties hold as
well); one flow of each kind per two slots reaches the limit and one beyond it.

A word of four cells makes 16 cells hold every alignment of both ends with words
between them. Five cells hold two strings that overlap, abut or lack an end; five
characters hold a drive, a parent directory and a trailing slash. A third client
takes the first one's port again. Three calls of two threads let a print wait
while the log is stopped and started again.

Four more runs expect a violation: each states what a comment or a message of the
program says and finds that the code does otherwise.

| run | property | what the code does |
|---|---|---|
| tcp_unsent | UnsentBytesAreRetried | `sent > len` (tcp.c:284) compares -1 as a size_t: a send() that failed counts as complete, "Retry later" is never reached |
| tcp_stuck | QueueIsNeverStuck | a queue head below remote_seq is never forwarded (tcp.c:266) |
| vpn_stale_stop | StartedMeansServed | the stop byte of a thread that failed stops the next one (session.c:277) |
| datagrams_echo_id | OriginalIdRestored | a reply carries the identifier of the session's first ping (icmp.c:118) |

Other differences were met while translating. No run is about them; the models
do what the code does, and where a property would not hold it says what it exempts.

* util.c:35: the subtraction of compare_u32 overflows for numbers far apart, which C
  leaves undefined (`Wraps` is what the build makes of it). The property of the run
  algorithms is about numbers it can compare. What comes of the others TLC shows on the
  run tcp_downstream with LocalISNs = {14} in place of {30}: the app's ACK of a part of
  the data sent across Half is taken for a "future ACK" (tcp.c:801), which resets the
  connection, and NoFutureAck is violated.
* tcp.c:727: a FIN is counted without a look at its sequence number, so its ACK may
  confirm data that was lost on the way.
* tcp.c:1080: the MSS option is written without htons; icmp.c:126: the length in the
  ICMPv6 pseudo header is not the message's. Neither is part of a property.
* ip.c:115: IP_MF is tested without ntohs, so the first fragment passes as a packet;
  ip.c:374: with no line that fits, get_uid_sub returns the uid of the last line with the
  local port.
* ip.c:151: under the comment "Skip extension headers" (ip.c:144) the loop goes on only
  while another lower layer follows, so it ends before the upper one, and a packet with
  IPv6 extension headers is handed to nobody. InputsAreRead asks of such packets only
  that none is handed on at a wrong byte, and nothing of fragments.
* tcp.c:903, 911, 935, udp.c:389, icmp.c:294: when protect, fcntl or connect fails the
  socket is not closed. The models keep it as `leaked`; the properties about sockets
  speak of those of sessions, and no property says that no descriptor is lost.
* vpn_stack.c:91: a failure of pipe() is only logged. Every thread then fails in
  epoll_ctl (session.c:74) before it serves; but where it is still on its way and the
  write of jni_stop fails (vpn_stack.c:167), clear() runs without a join. The next start
  resets the stop_threads that was to end the first thread, so two may be under way, and
  the "thread_id_handle_events = 0" of the first (session.c:299) hides the second from the
  next stop. ClearsAlone, ServingThreadIsKnown and StoppedMeansStopped
  exempt what follows such a write (`abandoned`), and nothing else: with pipe() failing
  and the write going through they hold.
* dns.c:45: behind a name of labels that ends in a pointer parsing goes on at the
  wrong byte. The names tried are whole labels or one pointer.
* VpnStackAppActivity.java:105: the intent "vpn_is_started" is answered by nobody: an
  activity created anew shows "Not Started" while the VPN runs. ShownIsTrue begins with
  the first broadcast.
* sm_log.c:653: for a text that does not fit, length_res is the length it would have
  had, not that of the buffer. sm_sync_type_try_lock always returns OK; nothing calls it.
* sm_files_tools.c:778: sm_create_dpath returns SM_RES_OK when a file has the name of
  the directory; :85: the -1 of readlink is used as a size; :264 in the Windows copy: a
  path of two characters that is no drive is an error.
* safe_snprintf_support.c:73: the second % of "%%" begins another conversion, 'L' is
  never skipped, and %lld counts as an int. safe_strcmpfld.c:138: equal fields are
  compared one cell beyond, and that cell decides the result: the property asks that
  fields are equal where it is 0, not the converse. safe_strremovews of blanks only leaves
  the last.
* safe_strcpyfldin.c:48 says "copies at most slen characters", but its loops (:154, :176)
  look at dmax and the end of src only. safe_strpbrk.c:63 calls slen the "restricted length
  of string src", but its inner loop ends with src alone (:147). StringCallsStayInside and
  QueriesAgreeWithStrings ask of the two what is promised where slen holds all of src, and
  of safe_strcpyfldin otherwise only that it keeps to dest.
* safe_memcmp32.c:64 gives the sign of the answer, but the difference of two uint32_t wraps
  around. The property tells 0 from the rest only.
* SocketClientActivity.java:248: an end of file in place of an answer is logged, and the
  exchange goes on with the answer before.
* socket_server.cpp:652: the client is told a port before it is bound: its next datagram
  may be refused.

One more is seen only with an assumption about Android: with `Callers =
{"main", "binder"}`, that is with onTransact running onRevoke on a binder thread,
ClearsAlone fails: two callers write the pipe and join, the second pthread_join
fails at once, and clear() runs beside the thread. Which thread Android uses is
not decided by this code, so no run asserts it.

### Fairness

Safety is checked without any. `FairSpec` of TcpSession and DatagramSessions
assumes that the loop of handle_events runs (weak fairness: it has its thread to
itself), that the tun device is empty again and again when the thread looks
(strong: `while (is_readable(tun))` has no bound, so an app that never pauses
would keep the thread there), that the check of the sessions is not skipped for
ever (it is skipped only within EPOLL_MIN_CHECK, 100 ms, of the last), and that
a session whose time nothing renews meets a check after its timeout. For
datagrams also that a socket's error does not come back before every read.
Nothing is assumed of the app, the server, or the success of any call.
`FairSpec` of VpnService assumes that a call that has begun goes on, that the
thread goes on, and that epoll_wait is not interrupted for ever (strong); nothing of
the activity or its user. `Spec` of SmLog assumes that a thread inside a call goes on
when it can (weak, per thread: a thread that waits for the mutex cannot, and a mutex
that is released often enough reaches it within the bounded calls). `FairSpec` of
SocketSuite assumes, over TCP, that each server thread and each client is scheduled
when it can go on (weak), and that an accepted request is served; nothing over UDP,
where a datagram may be lost and nobody has a timeout, and nothing of failures.

## 4. Proofs

Every safety invariant and every action property that a run checks on a state machine
is a theorem for every value of the constants, from the named assumption of its module
and, where one is named below, a hypothesis of the theorem. Each is proved in the same
way: an inductive invariant, one lemma per action, and for the actions that change a
record in several ways a lemma first about the shape of what they leave. The
assumptions of the modules only type the constants (and say that a set is finite or
not empty); TLC evaluates them in every run.

`AlgorithmProofs`, sequence numbers (HalfAssumption: Half \in Nat, Half > 2)
* CompareIsRfc1982, SendWindowBounded: facts about the operators, by case
  analysis over the signs of the two ints.
* NumbersCorrect: so NumbersAndWindowAgree holds for every Half, 2^31 among them.

`AlgorithmProofs`, memory (MemoryAssumption: MaxMem a positive multiple of four,
Numbers a positive even number)
* MoveIsACopy. The loops of safe_mem_prim_move are a function over their rounds
  (`Upwards`, `Downwards`), `Done` says how many bytes are moved after each. That after
  round i the first (or last) done[i] bytes of dest hold what src held before the
  call, and the rest of src is still as it was, is shown for every i by the least i for
  which it would fail: the library's induction rules take an operator as a
  parameter, but that a set of numbers has a least one does not. The direction
  is what keeps the unread part of src.
* CopiesAreKept, SetsAreKept, ComparesAreKept: the promise of each call for every memory
  and all arguments, from MoveIsACopy and the order of the checks. For the 32-bit
  comparisons: a difference modulo Numbers is 0 only for equal cells.
* MemoryIsKept: so MemoryCallsKeepTheirPromise holds for every MaxMem and Numbers, the
  code's 256 MB and 2^32 among them.

`AlgorithmProofs`, strings (StringAssumption: MaxStr a positive multiple of four;
WalkAssumption types the walk)
* A loop stops in its first round that meets its condition (`FirstRound`), which exists as
  the last round does. The induction over the rounds is MoveIsACopy's once more: LengthIs
  says what a loop has read when it stops, CopyRoundsIs that it has copied that many cells of
  what src held before the call (CopyCellsIs).
* The crux is what a copy may read of what it has written. Whichever of dest and src comes
  first, the loop stops where it would reach the other's beginning (`Bumped`), so up to there each
  cell it reads is as it was before the call (GapIs, CopyCellsIs), the string it copies is the
  one that was there, and where it stops short of that, the first cell of dest is ended
  (LoopKept). Of the strings it is asked that they end within the memory and do not
  begin in the same place: overlap of either kind and strings without an end in dest are
  among the cases.
* StringCopiesAreKept: strcpy, strncpy, stpcpy, stpncpy, strcat, strncat, the wide ones and the
  field copies keep their promise for every memory, room and limit: all of it and its end
  inside of dest or an error and an empty string; and where the cells that are needed have
  nothing in common, no error. FieldLoopIs is the loop of the fields, which copies through
  zeros or up to one.
* StringsChangeInPlace: terminating, zeroing, changing case, moving a text to the left and
  removing the blanks around it. The last shifts the text onto itself, reading ahead of what
  it writes (ShiftedIs), and clears back from its end (StripEndIs).
* StringsStayInside: so StringCallsStayInside holds in every state of the walk for memories of
  any size, with any characters and any RSIZE_MAX_STR. TextTypes is its invariant.
* Of safe_strcpyfldin FieldsKept says what its loops copy, for every slen; the property, and
  so the theorems, take it as a promise only where slen holds all of src (section 3).

`AlgorithmProofs`, the queries on strings (the same assumptions)
* ComparisonsAgree. Two strings that end within dmax are looked at up to the end of the
  shorter one (BothIs), and strcmp answers with the characters at the first offset where they
  differ, or there (PlaceOfDifference, StrcmpIs). So 0 means equal, the sign turns with
  the strings, the first difference decides it, none is behind the last one, a prefix
  leaves none; strcasecmp is strcmp of the capitals, and a field that compares equal is equal.
* SearchesAgree. The inner loop of strstr finds its string at an offset exactly where it occurs
  (BeginsIs), the 0 behind dest keeping it inside, so the first such offset is the first
  occurrence; strcasestr is strstr of the capitals. A span is the first offset of what
  stops it (SpanIs). Asked for is a string that ends within dmax, not that the one
  searched for does.
* ClassesAgree: what strisalphanumeric and its relatives say of each other and of the string
  with its case changed; CharactersAgree and LengthsKept.
* QueriesAgree: so QueriesAgreeWithStrings holds in every state of the walk, for memories
  of any size, with any characters and any RSIZE_MAX_STR. Strings that have no end within dmax
  are left out by the property itself, but for the two lengths: there some queries look at
  the cell behind dmax (the comparisons) or walk on to the end wherever it is (strisdigit,
  strismixedcase, strisuppercase).

`AlgorithmProofs`, checksums and packets (no assumption; a session is any that has
addresses of its version's length, ports, window and MSS of 16 bits, IsSession)
* The argument is that of RFC 1071. Folding leaves the remainder of the sum in ones'
  complement, `Rest`: between 1 and 65535 unless the sum is 0 (again by the least sum for
  which it would not). So a checksum continued over four blocks is the Rest of the sum
  over all (ContinuedChecksum), the sum over a concatenation is that of its parts
  where the first has an even length (NativeConcat), writing the complement into a
  field that is 0 makes the sum a multiple of 65535 (ComplementSeals, SealedByItself),
  and a sum over bytes swapped is 256 times the sum modulo 65535 (SumSwapped), so that a
  receiver that sums in network order finds the same (OnesAreAccepted). The pseudo header the
  code sums has source and destination, and over IPv6 the bytes of the length, in
  other places than the receiver's: PseudosAgree.
* UdpIsSealed, TcpIsSealed, PingIsSealed: hence the packets written are accepted, for every
  session, payload, sequence number and flag. TriedPacketsAreSealed: PacketsAreSealed.
* UdpIsBytes, TcpIsBytes: where the packet fits an IP packet, no field of it overflows: the
  model's numbers are the code's uint8_t and uint16_t.
* Not proved of packets: that a reply over IPv6 is accepted, which it is not ("Untested" in the
  code; its pseudo header has the wrong length), and the reading half (PacketsIn). The
  receiver meant is one that sums: write_udp stores ~csum also where that is 0 (udp.c:513),
  which to RFC 768 says that there is no checksum, and what the app's kernel makes of it
  is outside of this code.

`TcpSessionProofs` (TcpAssumption)
* TypeCorrect: `Spec => []TypeOK`. Inductive as it stands.
* SocketsMatchStates, EventsNameLive, from SocketInvInductive: the sockets are those of
  sessions; a failed open may lose one (`leaked`). SocketMatchesState is
  not inductive: that a session with events has its socket depends on what the batch
  may hold in each place of the loop, and that NONE has neither socket nor events on
  the freeing of a CLOSE session. SocketInv adds how `batch` relates to `pc` (no events
  outside the batch, each one once) and to the session.
* ClosingStays: `Spec => ClosingIsFinal`, every action keeps the two closing states.
* The lemmas on numbers (Mod..., DistanceAdd, SameNumbers) and on the operators
  (HandleTcpShape, TransfersShape, ...) serve the next two modules too.

`TcpDownstreamProofs`
* NothingFollowsReset, without a hypothesis, from ResetInv: a SYN still to be read
  after a reset finds the old session, which answers it with nothing, because a closed
  session is freed only at a check and the tun is drained before the next.
* StreamHasNoGap (RemoteFits: the server's stream fits the number space), from
  StreamInv: local_seq, the bytes the server has left and what the app has received
  add up; while the app is open and the session sends, local_seq is what it expects.
* WithinWindow, NoAckOfFuture (RemoteComparable: the server's stream is shorter than
  half the space, and with `Wraps` does not pass from below Half to above it), from
  WindowInv on top of StreamInv: the ACKs on their way are in order, cover what was
  received, and the window of each, counted from its own number, ends before the edge
  the app has announced; so does the one the session holds.
* Why RemoteComparable: without it NoAckOfFuture is false (section 3, util.c:35).

`TcpUpstreamProofs` (extends TcpDownstreamProofs for ResetInv; StreamFits: the stream
with its SYN and FIN is shorter than the number space)
* StreamInOrder, AcksAreOfSent, CountedOnce, from UpInvInductive. UpInv says that all
  there is of the app's stream is a piece of it at its own number: each packet in the
  tun (PacketOK), each segment of the queue (SegmentOK), and remote_seq, which is what
  was forwarded, one less before the SYN is counted and one more once the FIN is, by
  state (CountOK). That a FIN is counted only once all is forwarded needs the state,
  as it is counted at three places.
* Data on the SYN is queued under the SYN's own number, one less than its first byte's
  (PieceOK). Once the SYN is counted, that segment is behind remote_seq and is never
  sent, nor is what the app sends after it; so the stream that is sent stays a prefix,
  and may stay empty. It is sent from only in a session that was reset before its
  connect completed, whose queue then holds nothing else (CountOK, Counted). That no
  other data is queued before the SYN is counted is ResetInv's: an app that has opened
  has its session out of LISTEN.
* LifecycleImplemented: every step is one of TcpLifecycle's or changes nothing of it,
  by the action's change of phase, socket and bytes forwarded.
* Why StreamFits: a number that stands for two bytes says nothing of the order: the
  code itself relies on streams that do not lap it within the packets on their way;
  the theorem asks it of the whole.

`VpnServiceProofs` (VpnServiceAssumption; all but TypeCorrect with `Callers = {"main"}`)
* TypeCorrect for any callers, then ClearsOnlyAlone, ServingIsKnown, StoppedIsStopped,
  ShownIsSo, from InvInductive: where the main thread's call is decides what is known
  of the threads (ThreadInv: a thread that runs is the one thread_id names, and none
  runs behind the join), of device and sessions (ServiceInv), and of what the activity
  will show when the broadcasts have arrived (ScreenInv).
* ThreadInv holds until a stop's write to the pipe fails: Inv has it behind ~abandoned,
  which only ever becomes true (AbandonedStays), so the step that sets it owes nothing;
  that pipe() has failed is no exemption. So ClearsOnlyAlone, ServingIsKnown and the thread
  part of StoppedIsStopped say nothing of what follows such a write, where they are in fact
  false (section 3). The device and the screen need none of this: ShownIsSo and the part on
  devices hold of it as well.
* Why `Callers = {"main"}`: start, stop and onDestroy are called on the main thread;
  with onRevoke on another, ClearsAlone is false (section 3).

`DatagramSessionsProofs` (DatagramAssumption)
* TypeCorrect, SocketsWithStates, EventsAreLive, FlowsAreUnique, LimitHolds, from
  InvInductive, the properties together with: a session exists exactly if it has a flow,
  a ping's event that is not an error has a reply to read, and the packets in the tun
  find free slots. Sockets are again those of sessions.
* LimitHolds begins where the count has reached the limit. How far a batch grows that
  began below it nothing bounds.

`SmLogProofs` (LogAssumption)
* MutexExcludes, LinesInOrder, GroupsTogether, WritesStarted, from InvInductive: the
  count of the mutex is the number of its owner's frames that are past their lock, and
  nobody else has such a frame; who is about to write has a time no earlier than any
  line's, in a log that is started; the lines of an open group are the last ones.

`SocketSuiteProofs` (SuiteAssumption)
* TypeCorrect and MessageReturns, from InvInductive: over TCP, what a thread has to read
  of a connection no read has cut is what its client sends in this stage, and what the
  client has to read is the answer, with the thread at least as far (TcpInStep); over
  UDP there is one datagram per client, and of the users of a port handed out to nobody
  else one at most is not over (OwnPort). ReverseTwice, that the inverse of the inverse
  is the message, is proved of the community modules' Reverse.
* The proof found that the history `shared` was too narrow: with one port a thread
  answers a client whose own thread was never created. It counts such clients now.

Only model-checked. Liveness and ENABLED are out of the prover's reach:
EveryClosingSessionIsFreed, CallsReturn (twice), FinishedSessionsAreFreed,
TcpClientsFinish, TcpThreadsEnd, and the fairness of TcpLifecycle in
ImplementsLifecycle stay with TLC. So does what the recursive operators of
SafeFormats, LogPaths and PacketsIn compute (PathsStayPut, InputsAreRead): no module with
proofs reaches one of them.

## 5. Plan

1. Done: one TCP session with its abstract specification, datagram sessions, the
   service with its activity and thread, arithmetic; the bytes of the packets, the log
   library, the string library, the server and its clients.
2. Done: all safety properties of the state machines, and the safety part of the
   refinement of TcpLifecycle, proved; the app's stream with data on the SYN included.
3. Done: the memory half of the string library, the functions that change strings and those
   that look at them, their loops written as functions over their rounds, and the packets
   written, proved for every size of their data.
4. Left: proofs about paths, formats and the reading of packets, whose loops are recursive
   operators; and the DHCP responder, should its undefined write be repaired.

## 6. Not modelled

* The copies. Of the 51,000 lines of the repository's implementation some 40,000 are the
  string library and the log library, each kept three times: the string library byte
  for byte, the log library but for what Windows needs. A definition stands for the
  lines of one copy (that of the socket server; IsDrive for the Windows copy), and
  holds for the other two. About 23,000 lines are different from each other; more than
  half of these are doc comments, declarations and the unrolled loops that one definition
  stands for.
* The DHCP responder. check_dhcp writes options at `response + sizeof(struct dhcp_packet)`,
  where response points to struct dhcp_packet: 240 structures further on, beyond the 500
  bytes allocated. What follows is undefined, so there is no outcome to state.
* block_udp, which nothing calls, and the directory for temporary files of the log
  library (sm_get_temp_dpath).
* The constraint handlers of the string library: the one installed does nothing, abort
  ends the process. safe_fopen and safe_gets, thin calls of the C library.
* A close of the log while another thread is inside a call: the memory of the mutex is
  zeroed under it, which is undefined; no program does so.
* Real time: how long a timeout lasts and how it shrinks with the number of sessions
  (tcp.c:28) is left open, every timeout may have expired whenever it is looked at.
* Text: what is logged, toasts, preferences, layout, help texts.
