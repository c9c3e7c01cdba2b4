----------------------------- MODULE VpnService -----------------------------
(***************************************************************************)
(* The life of the VPN: the Android service (VpnStackAppService.java), the *)
(* JNI calls it makes (vpn_stack.c) and the native thread they start and   *)
(* stop (handle_events in session.c), with the activity whose buttons call *)
(* it (VpnStackAppActivity.java). The callers and the thread share the     *)
(* statics thread_id_handle_events and stop_threads, the pipe that tells   *)
(* the thread to stop, and the list of sessions; what the thread does with *)
(* a session is in TcpSession.                                             *)
(*                                                                         *)
(* Everything runs in one process. onCreate, onStartCommand and onDestroy  *)
(* run on its main thread, and so does the activity, which learns by       *)
(* broadcasts, delivered when the main thread is free, what to show;       *)
(* onRevoke (VpnRstServiceBinder.onTransact) may run on a binder thread,   *)
(* and does where Callers has one.                                         *)
(***************************************************************************)
EXTENDS Integers, Sequences

CONSTANTS
  Callers,   \* the threads that call the service
  MaxStarts, \* bound: how often the VPN is started
  MaxBroadcasts \* bound: the buttons are not pressed while so many are on their way

ASSUME VpnServiceAssumption ==
  /\ "main" \in Callers
  /\ MaxStarts \in Nat /\ MaxBroadcasts \in Nat

VARIABLES
  created,       \* the service exists: between onCreate and onDestroy
  vpnStarted,    \* the service's field
  vpn,           \* the tun device it holds: a start's number, 0 for null
  tuns,          \* the tun devices that are open
  call,          \* what each caller is doing
  starts,        \* bound: starts so far; names the tun devices and threads
  thread_id,     \* thread_id_handle_events
  stop_threads,
  piped,         \* pipefds is an open pipe
  pipe,          \* bytes in the pipe
  sessions,      \* g_vpn_session: the threads whose sessions are in the list
  thread,        \* the native threads
  broadcasts,    \* on their way to the activity: the VPN was started or stopped
  shown,         \* the status the activity shows, and whether it was told so
  silent,        \* history: the VPN was stopped and nobody told
  abandoned      \* history: a stop could not write to the pipe and did not wait

screen == <<broadcasts, shown, silent>>

vars == <<created, vpnStarted, vpn, tuns, call, starts, thread_id,
          stop_threads, piped, pipe, sessions, thread, abandoned, screen>>

service == <<created, vpnStarted, vpn, tuns, starts, screen>>
signal  == <<piped, pipe, abandoned>>
native  == <<thread_id, stop_threads, signal, sessions, thread>>

Threads == 1 .. MaxStarts

\* A caller is in the service, or in one of the steps of start or stop; t is
\* the thread jni_stop found; destroy says that onDestroy called.
Call == [pc : {"idle", "establish", "start", "create", "started",
               "kill", "write", "join", "clear", "close", "done"},
         t : 0 .. MaxStarts, destroy : BOOLEAN]

Idle == [pc |-> "idle", t |-> 0, destroy |-> FALSE]

\* watches: its epoll has the pipe; failed: an error ended the thread, or kept
\* it from starting.
Thread == [pc : {"none", "born", "setup", "loop", "work", "wait", "batch",
                 "ending", "over"},
           watches : BOOLEAN, told : BOOLEAN, joined : BOOLEAN, failed : BOOLEAN]

TypeOK ==
  /\ created \in BOOLEAN /\ vpnStarted \in BOOLEAN /\ stop_threads \in BOOLEAN
  /\ vpn \in 0 .. MaxStarts /\ starts \in 0 .. MaxStarts
  /\ thread_id \in 0 .. MaxStarts
  /\ tuns \subseteq Threads /\ sessions \subseteq Threads
  /\ call \in [Callers -> Call]
  /\ piped \in BOOLEAN /\ pipe \in Nat /\ abandoned \in BOOLEAN
  /\ thread \in [Threads -> Thread]
  /\ vpnStarted => vpn # 0
  /\ broadcasts \in Seq({"started", "stopped"})
  /\ shown \in [status : {"started", "stopped"}, told : BOOLEAN] /\ silent \in BOOLEAN

\* pthread_kill(k, 0) == 0.
Running(k) == thread[k].pc \notin {"none", "over"}

\* The caller's next step.
Goes(c, pc) == call' = [call EXCEPT ![c].pc = pc]
Returns(c)  == call' = [call EXCEPT ![c] = Idle]

\* The thread's next step.
Steps(k, pc) == thread' = [thread EXCEPT ![k].pc = pc]
Fails(k, pc) == thread' = [thread EXCEPT ![k].pc = pc, ![k].failed = TRUE]

\* sendBroadcast.
Tells(what) ==
  broadcasts' = Append(broadcasts, what) /\ silent' = FALSE /\ UNCHANGED shown

-----------------------------------------------------------------------------
(* Starting: all on the main thread                                        *)

\* onCreate, with jni_init: no sessions; a new object; a new pipe, or none: a
\* failure of pipe() is only logged.
onCreate ==
  /\ ~created /\ \A c \in Callers : call[c].pc = "idle"
  /\ created' = TRUE /\ vpnStarted' = FALSE /\ vpn' = 0
  /\ piped' \in BOOLEAN /\ pipe' = 0 /\ sessions' = {}
  /\ UNCHANGED <<tuns, call, starts, thread_id, stop_threads, thread, abandoned, screen>>

\* ACTION_START; when it is started already the user is only told so.
start ==
  /\ created /\ call["main"].pc = "idle"
  /\ \/ /\ ~vpnStarted /\ starts < MaxStarts
        /\ Goes("main", "establish")
        /\ UNCHANGED screen
     \/ vpnStarted /\ Tells("started") /\ UNCHANGED call
  /\ UNCHANGED <<created, vpnStarted, vpn, tuns, starts, native>>

\* Going on with null.
StartVPNUnchecked ==
  /\ call["main"].pc = "establish"
  /\ starts' = starts + 1
  /\ \/ vpn' = starts + 1 /\ tuns' = tuns \cup {starts + 1} /\ Goes("main", "start")
     \/ vpn' = 0 /\ UNCHANGED tuns /\ Goes("main", "started")
  /\ UNCHANGED <<created, vpnStarted, native, screen>>

\* startVPN: establish() gives a new tun device, or null, or throws; with null
\* startNative throws.
startVPN ==
  /\ call["main"].pc = "establish"
  /\ starts' = starts + 1
  /\ \/ /\ vpn' = starts + 1 /\ tuns' = tuns \cup {starts + 1}
        /\ Goes("main", "start")
        /\ UNCHANGED screen
     \/ /\ vpn' \in {0, vpn} /\ UNCHANGED tuns
        /\ Tells("stopped")
        /\ Returns("main")
  /\ UNCHANGED <<created, vpnStarted, native>>

\* jni_start: with a thread running it changes nothing.
jni_start ==
  /\ call["main"].pc = "start"
  /\ IF thread_id # 0 /\ Running(thread_id)
     THEN Goes("main", "started") /\ UNCHANGED stop_threads
     ELSE Goes("main", "create") /\ stop_threads' = FALSE
  /\ UNCHANGED <<service, thread_id, signal, sessions, thread>>

\* pthread_create; when it fails that is only logged.
CreateThread ==
  /\ call["main"].pc = "create"
  /\ \/ thread_id' = vpn /\ Steps(vpn, "born")
     \/ UNCHANGED thread_id /\ Fails(vpn, "none")
  /\ Goes("main", "started")
  /\ UNCHANGED <<service, stop_threads, signal, sessions>>

Started ==
  /\ call["main"].pc = "started"
  /\ vpnStarted' = TRUE
  /\ Tells("started")
  /\ Returns("main")
  /\ UNCHANGED <<created, vpn, tuns, starts, native>>

-----------------------------------------------------------------------------
(* Stopping                                                                *)

\* ACTION_STOP or onRevoke; when it is stopped already the user is only told so.
stop(c) ==
  /\ created /\ call[c].pc = "idle"
  /\ IF vpnStarted THEN Goes(c, "kill") /\ UNCHANGED screen
     ELSE Tells("stopped") /\ UNCHANGED call
  /\ UNCHANGED <<created, vpnStarted, vpn, tuns, starts, native>>

\* onDestroy stops the VPN as well, and goes on to jni_done.
onDestroy ==
  /\ created /\ call["main"].pc = "idle"
  /\ call' = [call EXCEPT !["main"].pc = IF vpnStarted THEN "kill" ELSE "done",
                          !["main"].destroy = TRUE]
  /\ UNCHANGED <<service, native>>

\* jni_stop looks whether the thread is running.
jni_stop(c) ==
  /\ call[c].pc = "kill"
  /\ IF thread_id # 0 /\ Running(thread_id)
     THEN call' = [call EXCEPT ![c].pc = "write", ![c].t = thread_id]
     ELSE Goes(c, "close")
  /\ UNCHANGED <<service, native>>

\* Telling the thread to stop without waiting for it.
WritePipeNoJoin(c) ==
  /\ call[c].pc = "write"
  /\ pipe' = IF piped THEN pipe + 1 ELSE pipe
  /\ Goes(c, "clear")
  /\ UNCHANGED <<service, thread_id, stop_threads, piped, sessions, thread, abandoned>>

\* It tells the thread to stop, and joins it; pthread_join fails for a thread
\* someone else joins. Without a pipe the byte goes to whatever file the numbers
\* in pipefds name (zeros at first: /dev/null in an app), or the write fails: then
\* nobody waits for the thread.
WritePipe(c) ==
  LET t == call[c].t IN
  /\ call[c].pc = "write"
  /\ \/ /\ pipe' = IF piped THEN pipe + 1 ELSE pipe
        /\ Goes(c, IF thread[t].joined THEN "clear" ELSE "join")
        /\ thread' = [thread EXCEPT ![t].joined = TRUE]
        /\ UNCHANGED abandoned
     \/ /\ ~piped
        /\ Goes(c, "clear")
        /\ abandoned' = TRUE
        /\ UNCHANGED <<pipe, thread>>
  /\ UNCHANGED <<service, thread_id, stop_threads, piped, sessions>>

\* Not waiting for the thread that was told.
JoinedAtOnce(c) ==
  /\ call[c].pc = "join"
  /\ Goes(c, "clear")
  /\ UNCHANGED <<service, native>>

\* pthread_join returns.
Joined(c) ==
  /\ call[c].pc = "join" /\ ~Running(call[c].t)
  /\ Goes(c, "clear")
  /\ UNCHANGED <<service, native>>

\* clear(), and the thread is forgotten.
Clear(c) ==
  /\ call[c].pc = "clear"
  /\ sessions' = {} /\ thread_id' = 0
  /\ Goes(c, "close")
  /\ UNCHANGED <<service, stop_threads, signal, thread>>

\* Stopping without closing the device.
StopVPNLeaks(c) ==
  /\ call[c].pc = "close"
  /\ vpnStarted' = FALSE
  /\ IF call[c].destroy
     THEN Goes(c, "done") /\ silent' = TRUE /\ UNCHANGED <<broadcasts, shown>>
     ELSE Returns(c) /\ Tells("stopped")
  /\ UNCHANGED <<created, vpn, tuns, starts, native>>

\* Stopping without telling the activity.
StopVPNSilently(c) ==
  /\ call[c].pc = "close"
  /\ tuns' = tuns \ {vpn} /\ vpnStarted' = FALSE
  /\ IF call[c].destroy
     THEN Goes(c, "done") /\ silent' = TRUE /\ UNCHANGED <<broadcasts, shown>>
     ELSE Returns(c) /\ UNCHANGED screen
  /\ UNCHANGED <<created, vpn, starts, native>>

\* stopVPN closes the tun device; stop tells the activity, onDestroy does not.
stopVPN(c) ==
  /\ call[c].pc = "close"
  /\ tuns' = tuns \ {vpn} /\ vpnStarted' = FALSE
  /\ IF call[c].destroy
     THEN Goes(c, "done") /\ silent' = TRUE /\ UNCHANGED <<broadcasts, shown>>
     ELSE Returns(c) /\ Tells("stopped")
  /\ UNCHANGED <<created, vpn, starts, native>>

\* jni_done: clear(), and the pipe is closed, which takes it out of every epoll.
jni_done(c) ==
  /\ call[c].pc = "done"
  /\ created' = FALSE /\ sessions' = {} /\ piped' = FALSE /\ pipe' = 0
  /\ thread' = [k \in Threads |-> [thread[k] EXCEPT !.watches = FALSE]]
  /\ Returns(c)
  /\ UNCHANGED <<vpnStarted, vpn, tuns, starts, thread_id, stop_threads, abandoned, screen>>

Service ==
  \/ onCreate \/ startVPN \/ jni_start \/ CreateThread \/ Started \/ onDestroy
  \/ \E c \in Callers : \/ jni_stop(c) \/ WritePipe(c) \/ Joined(c)
                        \/ Clear(c) \/ stopVPN(c) \/ jni_done(c)

-----------------------------------------------------------------------------
(* The activity                                                            *)

\* The user presses a button, and consents to a VPN; or consents to another
\* app's VPN, which revokes this one.
Buttons ==
  /\ Len(broadcasts) < MaxBroadcasts
  /\ start \/ \E c \in Callers : stop(c)

\* It is opened, or created anew. It asks by the intent "vpn_is_started", which
\* nobody answers, and gets only the broadcasts sent from now on.
OpenActivity ==
  /\ call["main"].pc = "idle"
  /\ shown' = [status |-> "stopped", told |-> FALSE] /\ broadcasts' = << >>
  /\ UNCHANGED <<created, vpnStarted, vpn, tuns, starts, silent, call, native>>

onReceive ==
  /\ call["main"].pc = "idle" /\ broadcasts # << >>
  /\ shown' = [status |-> Head(broadcasts), told |-> TRUE]
  /\ broadcasts' = Tail(broadcasts)
  /\ UNCHANGED <<created, vpnStarted, vpn, tuns, starts, silent, call, native>>

Activity == Buttons \/ OpenActivity \/ onReceive

-----------------------------------------------------------------------------
(* handle_events                                                           *)

\* AttachCurrentThread; without it the thread returns and stays known.
Attach(k) ==
  /\ thread[k].pc = "born"
  /\ Steps(k, "setup") \/ Fails(k, "over")
  /\ UNCHANGED <<service, call, thread_id, stop_threads, signal, sessions>>

\* check_allowed ends the sessions an earlier thread has left, which stay in
\* the list; a failure of epoll, with the pipe added or not, sets stop_threads.
Setup(k) ==
  /\ thread[k].pc = "setup"
  /\ \/ /\ piped
        /\ thread' = [thread EXCEPT ![k].pc = "loop", ![k].watches = TRUE]
        /\ UNCHANGED stop_threads
     \/ /\ \E added \in {FALSE, piped} :
             thread' = [thread EXCEPT ![k].pc = "loop", ![k].failed = TRUE,
                                      ![k].watches = added]
        /\ stop_threads' = TRUE
  /\ UNCHANGED <<service, call, thread_id, signal, sessions>>

LoopTest(k) ==
  /\ thread[k].pc = "loop"
  /\ Steps(k, IF stop_threads THEN "ending" ELSE "work")
  /\ UNCHANGED <<service, call, thread_id, stop_threads, signal, sessions>>

\* Counting, monitoring and checking the sessions, which may free them.
CheckSessions(k) ==
  /\ thread[k].pc = "work"
  /\ Steps(k, "wait")
  /\ sessions' \in SUBSET sessions
  /\ UNCHANGED <<service, call, thread_id, stop_threads, signal>>

\* epoll_wait times out, only with nothing to report, or is interrupted.
NoEvents(k) ==
  /\ thread[k].pc = "wait"
  /\ Steps(k, "loop")
  /\ UNCHANGED <<service, call, thread_id, stop_threads, signal, sessions>>

EpollFails(k) ==
  /\ thread[k].pc = "wait"
  /\ Fails(k, "ending")
  /\ UNCHANGED <<service, call, thread_id, stop_threads, signal, sessions>>

\* epoll_wait reports events: the pipe's as long as a byte is in it.
Reports(k) ==
  /\ thread[k].pc = "wait"
  /\ thread' = [thread EXCEPT ![k].pc = "batch",
                              ![k].told = thread[k].watches /\ pipe > 0]
  /\ UNCHANGED <<service, call, thread_id, stop_threads, signal, sessions>>

\* Events of the tun device, which may open a session, and of sockets.
HandleEvents(k) ==
  /\ thread[k].pc = "batch" /\ ~thread[k].told
  /\ Steps(k, "loop")
  /\ sessions' \in {sessions, sessions \cup {k}}
  /\ UNCHANGED <<service, call, thread_id, stop_threads, signal>>

\* The byte is read but the loop goes on.
HandleStopIgnored(k) ==
  /\ thread[k].pc = "batch" /\ thread[k].told
  /\ thread' = [thread EXCEPT ![k].pc = "loop", ![k].told = FALSE]
  /\ pipe' = IF pipe > 0 THEN pipe - 1 ELSE pipe
  /\ UNCHANGED <<service, call, thread_id, stop_threads, piped, sessions, abandoned>>

\* The pipe's event, perhaps behind others: one byte is read.
HandleStop(k) ==
  /\ thread[k].pc = "batch" /\ thread[k].told
  /\ thread' = [thread EXCEPT ![k].pc = "loop", ![k].told = FALSE]
  /\ stop_threads' = TRUE
  /\ pipe' = IF pipe > 0 THEN pipe - 1 ELSE pipe
  /\ sessions' \in {sessions, sessions \cup {k}}
  /\ UNCHANGED <<service, call, thread_id, piped, abandoned>>

\* check_tun fails: the rest of the batch, the pipe's event too, is left.
TunFails(k) ==
  /\ thread[k].pc = "batch"
  /\ thread' = [thread EXCEPT ![k].pc = "ending", ![k].told = FALSE, ![k].failed = TRUE]
  /\ UNCHANGED <<service, call, thread_id, stop_threads, signal, sessions>>

\* The thread closes its epoll, forgets itself and returns.
Ends(k) ==
  /\ thread[k].pc = "ending"
  /\ thread' = [thread EXCEPT ![k].pc = "over", ![k].watches = FALSE]
  /\ thread_id' = 0
  /\ UNCHANGED <<service, call, stop_threads, signal, sessions>>

handle_events(k) ==
  \/ Attach(k) \/ Setup(k) \/ LoopTest(k) \/ CheckSessions(k)
  \/ NoEvents(k) \/ EpollFails(k) \/ Reports(k)
  \/ HandleEvents(k) \/ HandleStop(k) \/ TunFails(k) \/ Ends(k)

-----------------------------------------------------------------------------

Init ==
  /\ created = FALSE /\ vpnStarted = FALSE /\ vpn = 0 /\ tuns = {}
  /\ call = [c \in Callers |-> Idle]
  /\ starts = 0 /\ thread_id = 0 /\ stop_threads = FALSE
  /\ piped = FALSE /\ pipe = 0 /\ sessions = {} /\ abandoned = FALSE
  /\ thread = [k \in Threads |-> [pc |-> "none", watches |-> FALSE, told |-> FALSE,
                                  joined |-> FALSE, failed |-> FALSE]]
  /\ broadcasts = << >> /\ shown = [status |-> "stopped", told |-> FALSE]
  /\ silent = FALSE

Next == Service \/ Activity \/ \E k \in Threads : handle_events(k)

Spec == Init /\ [][Next]_vars

\* A call of the service that has begun goes on, and so does the thread:
\* epoll_wait waits at most EPOLL_TIMEOUT and is not interrupted for ever.
FairSpec ==
  /\ Spec
  /\ \A c \in Callers : WF_vars(call[c].pc # "idle" /\ Service)
  /\ \A k \in Threads : WF_vars(handle_events(k)) /\ SF_vars(Reports(k))

-----------------------------------------------------------------------------
(* Properties *)

\* The list of sessions may be touched by thread k at any moment.
Serves(k) == thread[k].pc \in {"born", "setup", "loop", "work", "wait", "batch"}

\* vpn_stack.c:167-176, 204: clear() frees the sessions without the lock, so
\* no thread may be about to use them; joining it first is all that sees to it.
\* One way out there is: the write to the pipe has failed, in this stop or in an
\* earlier one, and the thread was not waited for. However else a start, a stop or
\* a thread fails, also with no pipe at all, clear() is alone.
ClearsAlone ==
  \A c \in Callers : call[c].pc \in {"clear", "done"} =>
    \A k \in Threads : Serves(k) => abandoned

\* vpn_stack.c:129, session.c:299: a thread that serves the tun device is the
\* one thread_id_handle_events names, or jni_stop could not stop it: no late
\* "thread_id_handle_events = 0" of a thread before it hits its entry. Only a
\* stop that could not write to the pipe forgets a thread that runs.
ServingThreadIsKnown ==
  \A k \in Threads : Serves(k) => thread_id = k \/ abandoned

\* VpnStackAppService.java:143-164, 370-383: stopped means stopped: no tun device
\* is open, whatever failed on the way; no thread serves one any more, and a
\* service that is gone has left no session, also none of a failed thread, unless a
\* stop could not write to the pipe and left its thread alone.
StoppedMeansStopped ==
  /\ ~vpnStarted /\ (\A c \in Callers : call[c].pc = "idle")
       => tuns = {} /\ \A k \in Threads : Serves(k) => abandoned
  /\ ~created => sessions = {} \/ abandoned

\* VpnStackAppActivity.java:66-77, 107-113: what the activity shows is so, once it
\* was told anything at all and every broadcast has arrived: none is missing for
\* any way in which a start or a stop may end, and none overtakes another.
\* Exempt is a VPN that onDestroy has stopped, which tells nobody.
ShownIsTrue ==
  (\A c \in Callers : call[c].pc = "idle") /\ broadcasts = << >> /\ shown.told /\ ~silent
    => (shown.status = "started") = vpnStarted

\* vpn_stack.c:171: joining the thread ends, so stopping does: the main
\* thread is not blocked for ever.
CallsReturn == \A c \in Callers : call[c].pc # "idle" ~> call[c].pc = "idle"

\* strings.xml:18, "VPN is Started...": the VPN is started and nothing has
\* failed since: the thread serves it.
StartedMeansServed ==
  vpnStarted /\ (\A c \in Callers : call[c].pc = "idle") /\ ~thread[vpn].failed
    => Serves(vpn)
=============================================================================
