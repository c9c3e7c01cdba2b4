-------------------------- MODULE VpnServiceProofs --------------------------
(***************************************************************************)
(* Type correctness of VpnService for any callers; and, where the main     *)
(* thread alone calls the service, that, as long as no stop has failed to  *)
(* write to the pipe, sessions are freed only when no thread uses them,    *)
(* the thread that serves is the one jni_stop knows and none serves once   *)
(* the VPN is stopped; and, whatever has failed, that a stopped VPN has no *)
(* device open and that the activity shows what is so, for every number of *)
(* starts.                                                                 *)
(***************************************************************************)
EXTENDS VpnService, SequenceTheorems, TLAPS

\* Only the main thread starts the VPN, with a device and a start to spend;
\* who writes or joins has a thread to do it to.
CallInv ==
  /\ \A c \in Callers : call[c].pc \in {"establish", "start", "create", "started"} => c = "main"
  /\ call["main"].pc \in {"start", "create", "started"} => vpn # 0
  /\ call["main"].pc \in {"establish", "start", "create", "started"} => ~vpnStarted
  /\ call["main"].pc = "establish" => starts < MaxStarts
  /\ \A c \in Callers : call[c].pc \in {"write", "join"} => call[c].t # 0

TypeInv == TypeOK /\ CallInv

\* While no stop has given up on a thread: a thread that runs is known; it runs
\* only while the VPN is started or about to be, and not behind its join. A thread
\* is joined once, by the call that waits for it, and only after it was created. A
\* service that is gone has left no session.
ThreadInv ==
  LET pc == call["main"].pc IN
  /\ \A k \in Threads : Running(k) => thread_id = k
  /\ \A k \in Threads : Running(k) => vpnStarted \/ pc = "started"
  /\ pc \in {"create", "clear", "close", "done"} => \A k \in Threads : ~Running(k)
  /\ pc \in {"write", "join"} => \A k \in Threads : Running(k) => call["main"].t = k
  /\ \A k \in Threads : thread[k].joined =>
       thread[k].pc # "none" /\ (Running(k) => pc = "join")
  /\ pc = "write" => LET t == call["main"].t IN thread[t].pc # "none" /\ ~thread[t].joined
  /\ \A k \in Threads : k > starts => thread[k].pc = "none"
  /\ pc \in {"start", "create"} => vpn = starts /\ thread[starts].pc = "none"
  /\ ~created => sessions = {}

\* Where a call is says whether the VPN is started; the device is open only
\* then; a service that is gone has not started any.
ServiceInv ==
  LET pc == call["main"].pc IN
  /\ pc \in {"kill", "write", "join", "clear", "close"} => vpnStarted
  /\ pc \in {"establish", "start", "create", "started", "done"} => ~vpnStarted
  /\ pc # "idle" => created
  /\ ~created => ~vpnStarted
  /\ tuns \subseteq {vpn}
  /\ ~vpnStarted /\ pc \notin {"start", "create", "started"} => tuns = {}

\* What the activity will show when all broadcasts have arrived.
ScreenInv ==
  call["main"].pc \in {"idle", "done"} /\ ~silent =>
    /\ broadcasts # << >> => (broadcasts[Len(broadcasts)] = "started") = vpnStarted
    /\ broadcasts = << >> /\ shown.told => (shown.status = "started") = vpnStarted

Inv == TypeInv /\ (~abandoned => ThreadInv) /\ ServiceInv /\ ScreenInv

-----------------------------------------------------------------------------
(* Types *)

\* A broadcast sent or received leaves a queue of broadcasts.
LEMMA BroadcastsType ==
  ASSUME broadcasts \in Seq({"started", "stopped"})
  PROVE  /\ Append(broadcasts, "started") \in Seq({"started", "stopped"})
         /\ Append(broadcasts, "stopped") \in Seq({"started", "stopped"})
         /\ << >> \in Seq({"started", "stopped"})
         /\ broadcasts # << >> => /\ Tail(broadcasts) \in Seq({"started", "stopped"})
                                 /\ Head(broadcasts) \in {"started", "stopped"}
OBVIOUS

\* Caller c goes on to pc, thread k does; nothing else of them changes that matters.
CallerAt(c, pc) ==
  /\ call' \in [Callers -> Call] /\ call'[c].pc = pc
  /\ pc # "idle" => call'[c].t = call[c].t /\ call'[c].destroy = call[c].destroy
  /\ \A d \in Callers : d # c => call'[d] = call[d]

ThreadAt(k, pc) ==
  /\ thread' \in [Threads -> Thread] /\ thread'[k].pc = pc
  /\ thread'[k].joined = thread[k].joined
  /\ \A j \in Threads : j # k => thread'[j] = thread[j]

LEMMA GoesShape ==
  ASSUME TypeOK, NEW c \in Callers, NEW pc,
         pc \in {"idle", "establish", "start", "create", "started",
                "kill", "write", "join", "clear", "close", "done"},
         Goes(c, pc)
  PROVE  CallerAt(c, pc)
BY DEF TypeOK, Goes, Call, CallerAt

LEMMA ReturnsShape ==
  ASSUME TypeOK, NEW c \in Callers, Returns(c)
  PROVE  CallerAt(c, "idle")
BY VpnServiceAssumption DEF TypeOK, Returns, Call, Idle, CallerAt

LEMMA StepsShape ==
  ASSUME TypeOK, NEW k \in Threads, NEW pc,
         pc \in {"none", "born", "setup", "loop", "work", "wait", "batch", "ending", "over"},
         Steps(k, pc) \/ Fails(k, pc)
  PROVE  ThreadAt(k, pc)
<1>1. CASE Steps(k, pc)
  BY <1>1 DEF TypeOK, Steps, Thread, ThreadAt
<1>2. CASE Fails(k, pc)
  BY <1>2 DEF TypeOK, Fails, Thread, ThreadAt
<1> QED
  BY <1>1, <1>2

\* Several fields of a thread at once.
LEMMA FieldsShape ==
  ASSUME NEW x \in Thread
  PROVE  /\ \A told \in BOOLEAN :
              LET r == [x EXCEPT !.pc = "batch", !.told = told] IN
              r \in Thread /\ r.pc = "batch" /\ r.joined = x.joined
         /\ LET r == [x EXCEPT !.pc = "loop", !.told = FALSE] IN
              r \in Thread /\ r.pc = "loop" /\ r.joined = x.joined
         /\ LET r == [x EXCEPT !.pc = "ending", !.told = FALSE, !.failed = TRUE] IN
              r \in Thread /\ r.pc = "ending" /\ r.joined = x.joined
         /\ LET r == [x EXCEPT !.pc = "over", !.watches = FALSE] IN
              r \in Thread /\ r.pc = "over" /\ r.joined = x.joined
         /\ LET r == [x EXCEPT !.pc = "loop", !.watches = TRUE] IN
              r \in Thread /\ r.pc = "loop" /\ r.joined = x.joined
         /\ \A added \in BOOLEAN :
              LET r == [x EXCEPT !.pc = "loop", !.failed = TRUE, !.watches = added] IN
              r \in Thread /\ r.pc = "loop" /\ r.joined = x.joined
BY DEF Thread

LEMMA ThreadShape ==
  ASSUME TypeOK, NEW k \in Threads, NEW r \in Thread, r.joined = thread[k].joined,
         thread' = [thread EXCEPT ![k] = r]
  PROVE  ThreadAt(k, r.pc)
BY DEF TypeOK, ThreadAt

\* Two fields at once.
LEMMA TwoFieldsShape ==
  ASSUME NEW x \in Call
  PROVE  /\ \A pc \in {"kill", "done"} :
              LET r == [x EXCEPT !.pc = pc, !.destroy = TRUE] IN r \in Call /\ r.pc = pc
         /\ \A t \in 0 .. MaxStarts :
              LET r == [x EXCEPT !.pc = "write", !.t = t] IN
              r \in Call /\ r.pc = "write" /\ r.t = t
BY DEF Call

LEMMA CallShape ==
  ASSUME TypeOK, NEW c \in Callers, NEW r \in Call, call' = [call EXCEPT ![c] = r]
  PROVE  /\ call' \in [Callers -> Call] /\ call'[c] = r
         /\ \A d \in Callers : d # c => call'[d] = call[d]
BY DEF TypeOK

\* Closing the pipe takes it out of every epoll and changes nothing else.
LEMMA UnwatchedShape ==
  ASSUME TypeOK, thread' = [k \in Threads |-> [thread[k] EXCEPT !.watches = FALSE]]
  PROVE  /\ thread' \in [Threads -> Thread]
         /\ \A k \in Threads : thread'[k].pc = thread[k].pc /\ thread'[k].joined = thread[k].joined
<1>1. thread \in [Threads -> Thread]
  BY DEF TypeOK
<1>2. \A x \in Thread : LET r == [x EXCEPT !.watches = FALSE] IN
        r \in Thread /\ r.pc = x.pc /\ r.joined = x.joined
  BY DEF Thread
<1> QED
  BY <1>1, <1>2

\* A caller that goes on within a call, or returns, keeps what CallInv says of it.
LEMMA CallInvKept ==
  ASSUME TypeInv, NEW c \in Callers,
         NEW pc \in {"idle", "started", "clear", "join", "close", "done"}, CallerAt(c, pc),
         pc = "started" => c = "main" /\ vpn # 0 /\ ~vpnStarted,
         pc = "join" => call[c].t # 0,
         vpn' = vpn, starts' = starts,
         vpnStarted' => vpnStarted \/ (c = "main" /\ pc = "idle")
  PROVE  CallInv'
<1>1. ASSUME NEW d \in Callers, call'[d].pc \in {"establish", "start", "create", "started"}
      PROVE  d = "main"
  BY <1>1 DEF CallerAt, TypeInv, CallInv
<1>2. ASSUME NEW d \in Callers, call'[d].pc \in {"write", "join"}
      PROVE  call'[d].t # 0
  BY <1>2 DEF CallerAt, TypeInv, CallInv
<1>3. call'["main"].pc \in {"start", "create", "started"} => vpn' # 0
  BY VpnServiceAssumption DEF CallerAt, TypeInv, CallInv
<1>4. call'["main"].pc = "establish" => starts' < MaxStarts
  BY VpnServiceAssumption DEF CallerAt, TypeInv, CallInv
<1>5. call'["main"].pc \in {"establish", "start", "create", "started"} => ~vpnStarted'
  BY VpnServiceAssumption DEF CallerAt, TypeInv, CallInv
<1> QED
  BY <1>1, <1>2, <1>3, <1>4, <1>5 DEF CallInv

\* The service's steps keep the types.
LEMMA ServiceType ==
  ASSUME TypeInv, Service
  PROVE  TypeInv'
<1>0. TypeOK /\ "main" \in Callers
  BY VpnServiceAssumption DEF TypeInv
<1>1. CASE onCreate
  <2>1. TypeOK'
    <3>1. /\ created' = TRUE /\ vpnStarted' = FALSE /\ vpn' = 0 /\ pipe' = 0 /\ sessions' = {}
          /\ piped' \in BOOLEAN
          /\ UNCHANGED <<tuns, call, starts, thread_id, stop_threads, thread, abandoned>>
          /\ UNCHANGED <<broadcasts, shown, silent>>
      BY <1>1 DEF onCreate, screen
    <3>2. 0 \in 0 .. MaxStarts /\ 0 \in Nat
      BY VpnServiceAssumption
    <3> QED
      BY <1>0, <3>1, <3>2 DEF TypeOK, Threads
  <2>2. CallInv'
    BY <1>1, <1>0, VpnServiceAssumption DEF onCreate, TypeInv, CallInv
  <2> QED
    BY <2>1, <2>2 DEF TypeInv
<1>2. CASE startVPN
  <2>1. starts' \in 1 .. MaxStarts /\ starts' = starts + 1
    BY <1>2, VpnServiceAssumption DEF startVPN, TypeInv, TypeOK, CallInv
  <2>2. \/ CallerAt("main", "start") /\ vpn' = starts' /\ tuns' = tuns \cup {starts'} /\ UNCHANGED screen
        \/ CallerAt("main", "idle") /\ vpn' \in {0, vpn} /\ UNCHANGED tuns /\ Tells("stopped")
    BY <1>2, <1>0, <2>1, GoesShape, ReturnsShape DEF startVPN
  <2>3. UNCHANGED <<created, vpnStarted, native>>
    BY <1>2 DEF startVPN
  <2>4. ~vpnStarted
    BY <1>2 DEF startVPN, TypeInv, CallInv
  <2>5. TypeOK'
    <3>1. starts' \in Threads /\ 0 \in 0 .. MaxStarts /\ Threads \subseteq 0 .. MaxStarts
      BY <2>1, VpnServiceAssumption DEF Threads
    <3>3. vpn' \in 0 .. MaxStarts /\ starts' \in 0 .. MaxStarts /\ tuns' \subseteq Threads
      BY <2>2, <1>0, <3>1 DEF TypeOK
    <3>4. call' \in [Callers -> Call]
      BY <2>2 DEF CallerAt
    <3>2. broadcasts' \in Seq({"started", "stopped"}) /\ silent' \in BOOLEAN /\ shown' = shown
      BY <2>2, <1>0, BroadcastsType DEF TypeOK, Tells, screen
    <3> QED
      BY <1>0, <2>3, <2>4, <3>2, <3>3, <3>4 DEF TypeOK, native, signal, Threads
  <2>6. CallInv'
    <3>1. CASE CallerAt("main", "idle")
      BY <1>0, <2>1, <2>3, <2>4, <3>1 DEF TypeInv, CallInv, CallerAt
    <3>2. CASE CallerAt("main", "start") /\ vpn' = starts'
      BY <1>0, <2>1, <2>3, <2>4, <3>2, VpnServiceAssumption DEF TypeInv, CallInv, CallerAt
    <3> QED
      BY <2>2, <3>1, <3>2
  <2> QED
    BY <2>5, <2>6 DEF TypeInv
<1>3. CASE jni_start
  <2>1. PICK pc \in {"started", "create"} : CallerAt("main", pc)
    BY <1>3, <1>0, GoesShape DEF jni_start
  <2>2. /\ call["main"].pc = "start" /\ stop_threads' \in {stop_threads, FALSE}
        /\ UNCHANGED <<service, thread_id, signal, sessions, thread>>
    BY <1>3 DEF jni_start
  <2>3. TypeOK'
    BY <2>1, <2>2 DEF TypeInv, TypeOK, CallerAt, service, screen, signal, Threads
  <2>4. CallInv'
    BY <2>1, <2>2, <1>0 DEF TypeInv, CallInv, CallerAt, service
  <2> QED
    BY <2>3, <2>4 DEF TypeInv
<1>4. CASE CreateThread
  <2>1. call["main"].pc = "create" /\ CallerAt("main", "started")
    BY <1>4, <1>0, GoesShape DEF CreateThread
  <2>2. vpn \in Threads
    BY <2>1, VpnServiceAssumption DEF TypeInv, TypeOK, CallInv, Threads
  <2>3. /\ ThreadAt(vpn, "born") \/ ThreadAt(vpn, "none") 
        /\ thread_id' \in {vpn, thread_id}
    BY <1>4, <1>0, <2>2, StepsShape DEF CreateThread
  <2>4. UNCHANGED <<service, stop_threads, signal, sessions>>
    BY <1>4 DEF CreateThread
  <2>5. TypeOK'
    BY <2>1, <2>2, <2>3, <2>4 DEF TypeInv, TypeOK, CallerAt, ThreadAt, service, screen, signal, Threads
  <2>6. CallInv'
    BY <2>1, <2>2, <2>4, CallInvKept, <1>0 DEF TypeInv, CallInv, service
  <2> QED
    BY <2>5, <2>6 DEF TypeInv
<1>5. CASE Started
  <2>1. call["main"].pc = "started" /\ CallerAt("main", "idle")
    BY <1>5, <1>0, ReturnsShape DEF Started
  <2>2. /\ vpnStarted' = TRUE /\ Tells("started")
        /\ UNCHANGED <<created, vpn, tuns, starts, native>>
    BY <1>5 DEF Started
  <2>3. TypeOK'
    BY <2>1, <2>2, BroadcastsType DEF TypeInv, TypeOK, CallInv, CallerAt, native, signal, Tells, Threads
  <2>4. CallInv'
    BY <2>1, <2>2, <1>0, CallInvKept
  <2> QED
    BY <2>3, <2>4 DEF TypeInv
<1>6. CASE onDestroy
  <2>1. PICK pc \in {"kill", "done"} :
          call' = [call EXCEPT !["main"].pc = pc, !["main"].destroy = TRUE]
    BY <1>6 DEF onDestroy
  <2>2. /\ call' \in [Callers -> Call] /\ call'["main"].pc = pc
        /\ \A d \in Callers : d # "main" => call'[d] = call[d]
    <3> DEFINE r == [call["main"] EXCEPT !.pc = pc, !.destroy = TRUE]
    <3>1. call["main"] \in Call
      BY <1>0 DEF TypeOK
    <3>2. r \in Call /\ r.pc = pc
      BY <3>1, TwoFieldsShape
    <3>3. call' = [call EXCEPT !["main"] = r]
      BY <2>1
    <3> HIDE DEF r
    <3> QED
      BY <1>0, <3>2, <3>3, CallShape
  <2>3. UNCHANGED <<service, native>>
    BY <1>6 DEF onDestroy
  <2>4. TypeOK'
    BY <2>2, <2>3 DEF TypeInv, TypeOK, service, screen, native, signal, Threads
  <2>5. CallInv'
    BY <2>2, <2>3 DEF TypeInv, CallInv, service
  <2> QED
    BY <2>4, <2>5 DEF TypeInv
<1>7. ASSUME NEW c \in Callers, jni_stop(c) PROVE TypeInv'
  <2>1. CASE Goes(c, "close")
    <3>1. CallerAt(c, "close") /\ UNCHANGED <<service, native>>
      BY <1>7, <1>0, <2>1, GoesShape DEF jni_stop
    <3>2. TypeOK'
      BY <3>1 DEF TypeInv, TypeOK, CallerAt, service, screen, native, signal, Threads
    <3>3. CallInv'
      BY <3>1, <1>0, CallInvKept DEF TypeInv, CallInv, service
    <3> QED
      BY <3>2, <3>3 DEF TypeInv
  <2>2. CASE thread_id # 0 /\ call' = [call EXCEPT ![c].pc = "write", ![c].t = thread_id]
    <3>1. /\ call' \in [Callers -> Call] /\ call'[c].pc = "write" /\ call'[c].t = thread_id
          /\ \A d \in Callers : d # c => call'[d] = call[d]
      <4> DEFINE r == [call[c] EXCEPT !.pc = "write", !.t = thread_id]
      <4>1. call[c] \in Call /\ thread_id \in 0 .. MaxStarts
        BY <1>0 DEF TypeOK
      <4>2. r \in Call /\ r.pc = "write" /\ r.t = thread_id
        BY <4>1, TwoFieldsShape
      <4>3. call' = [call EXCEPT ![c] = r]
        BY <2>2
      <4> HIDE DEF r
      <4> QED
        BY <1>0, <4>2, <4>3, CallShape
    <3>2. UNCHANGED <<service, native>>
      BY <1>7 DEF jni_stop
    <3>3. TypeOK'
      BY <3>1, <3>2 DEF TypeInv, TypeOK, service, screen, native, signal, Threads
    <3>4. CallInv'
      BY <3>1, <3>2, <2>2, <1>0 DEF TypeInv, CallInv, service
    <3> QED
      BY <3>3, <3>4 DEF TypeInv
  <2> QED
    BY <1>7, <2>1, <2>2 DEF jni_stop
<1>8. ASSUME NEW c \in Callers, WritePipe(c) PROVE TypeInv'
  <2>1. PICK pc \in {"clear", "join"} : CallerAt(c, pc)
    BY <1>8, <1>0, GoesShape DEF WritePipe
  <2>2. /\ call[c].pc = "write" /\ pipe' \in {pipe, pipe + 1}
        /\ thread' \in {thread, [thread EXCEPT ![call[c].t].joined = TRUE]}
        /\ abandoned' \in {abandoned, TRUE}
        /\ UNCHANGED <<service, thread_id, stop_threads, piped, sessions>>
    BY <1>8 DEF WritePipe
  <2>3. thread' \in [Threads -> Thread]
    <3>1. CASE thread' = thread
      BY <3>1, <1>0 DEF TypeOK
    <3>2. CASE thread' = [thread EXCEPT ![call[c].t].joined = TRUE]
      <4>1. call[c].t \in Threads
        BY <2>2, <1>0, VpnServiceAssumption DEF TypeOK, Call, TypeInv, CallInv, Threads
      <4> QED
        BY <3>2, <4>1, <1>0 DEF TypeOK, Thread
    <3> QED
      BY <2>2, <3>1, <3>2
  <2>4. TypeOK'
    <3>0. pipe \in Nat /\ abandoned \in BOOLEAN
      BY <1>0 DEF TypeOK
    <3>1. call' \in [Callers -> Call]
      BY <2>1 DEF CallerAt
    <3>2. pipe' \in Nat
      BY <2>2, <3>0
    <3>3. abandoned' \in BOOLEAN
      BY <2>2, <3>0, Zenon
    <3> QED
      BY <2>2, <2>3, <3>1, <3>2, <3>3, <1>0 DEF TypeOK, service, screen, Threads
  <2>5. CallInv'
    BY <2>1, <2>2, <1>0, CallInvKept DEF TypeInv, CallInv, service
  <2> QED
    BY <2>4, <2>5 DEF TypeInv
<1>9. ASSUME NEW c \in Callers, Joined(c) PROVE TypeInv'
  <2>1. CallerAt(c, "clear") /\ UNCHANGED <<service, native>>
    BY <1>9, <1>0, GoesShape DEF Joined
  <2>2. TypeOK'
    BY <2>1 DEF TypeInv, TypeOK, CallerAt, service, screen, native, signal, Threads
  <2>3. CallInv'
    BY <2>1, <1>0, CallInvKept DEF TypeInv, CallInv, service
  <2> QED
    BY <2>2, <2>3 DEF TypeInv
<1>10. ASSUME NEW c \in Callers, Clear(c) PROVE TypeInv'
  <2>1. CallerAt(c, "close")
    BY <1>10, <1>0, GoesShape DEF Clear
  <2>2. sessions' = {} /\ thread_id' = 0 /\ UNCHANGED <<service, stop_threads, signal, thread>>
    BY <1>10 DEF Clear
  <2>3. TypeOK'
    BY <2>1, <2>2, VpnServiceAssumption DEF TypeInv, TypeOK, CallerAt, service, screen, signal, Threads
  <2>4. CallInv'
    BY <2>1, <2>2, <1>0, CallInvKept DEF TypeInv, CallInv, service
  <2> QED
    BY <2>3, <2>4 DEF TypeInv
<1>11. ASSUME NEW c \in Callers, stopVPN(c) PROVE TypeInv'
  <2>1. PICK pc \in {"done", "idle"} : CallerAt(c, pc)
    BY <1>11, <1>0, GoesShape, ReturnsShape DEF stopVPN
  <2>2. /\ tuns' = tuns \ {vpn} /\ vpnStarted' = FALSE
        /\ UNCHANGED <<created, vpn, starts, native>>
    BY <1>11 DEF stopVPN
  <2>3. /\ broadcasts' \in {broadcasts, Append(broadcasts, "stopped")}
        /\ silent' \in BOOLEAN /\ shown' = shown
    BY <1>11 DEF stopVPN, Tells, screen
  <2>4. TypeOK'
    BY <2>1, <2>2, <2>3, BroadcastsType DEF TypeInv, TypeOK, CallerAt, native, signal, Threads
  <2>5. CallInv'
    BY <2>1, <2>2, CallInvKept
  <2> QED
    BY <2>4, <2>5 DEF TypeInv
<1>12. ASSUME NEW c \in Callers, jni_done(c) PROVE TypeInv'
  <2>1. CallerAt(c, "idle")
    BY <1>12, <1>0, ReturnsShape DEF jni_done
  <2>2. /\ created' = FALSE /\ sessions' = {} /\ piped' = FALSE /\ pipe' = 0
        /\ UNCHANGED <<vpnStarted, vpn, tuns, starts, thread_id, stop_threads, abandoned, screen>>
    BY <1>12 DEF jni_done
  <2>0. thread' \in [Threads -> Thread]
    BY <1>12, <1>0, UnwatchedShape DEF jni_done
  <2>3. TypeOK'
    BY <2>0, <2>1, <2>2 DEF TypeInv, TypeOK, CallerAt, screen, Threads
  <2>4. CallInv'
    BY <2>1, <2>2, CallInvKept
  <2> QED
    BY <2>3, <2>4 DEF TypeInv
<1> QED
  BY <1>1, <1>2, <1>3, <1>4, <1>5, <1>6, <1>7, <1>8, <1>9, <1>10, <1>11, <1>12 DEF Service

\* Steps of the activity leave the service's state but for the call that begins.
LEMMA ActivityShape ==
  ASSUME TypeInv, Activity
  PROVE  /\ broadcasts' \in Seq({"started", "stopped"}) /\ silent' \in BOOLEAN
         /\ shown' \in [status : {"started", "stopped"}, told : BOOLEAN]
         /\ UNCHANGED <<created, vpnStarted, vpn, tuns, starts, native>>
         /\ \/ UNCHANGED call
            \/ /\ UNCHANGED screen
               /\ \/ /\ CallerAt("main", "establish") /\ call["main"].pc = "idle"
                     /\ created /\ ~vpnStarted /\ starts < MaxStarts
                  \/ \E c \in Callers : /\ CallerAt(c, "kill") /\ call[c].pc = "idle"
                                        /\ created /\ vpnStarted
<1>0. TypeOK /\ "main" \in Callers
  BY VpnServiceAssumption DEF TypeInv
<1>1. CASE start
  <2>1. CASE Goes("main", "establish") /\ ~vpnStarted /\ starts < MaxStarts /\ UNCHANGED screen
    BY <1>0, <1>1, <2>1, GoesShape DEF start, screen, TypeOK
  <2>2. CASE Tells("started") /\ UNCHANGED call
    BY <1>0, <1>1, <2>2, BroadcastsType DEF start, Tells, TypeOK
  <2> QED
    BY <1>1, <2>1, <2>2 DEF start
<1>2. ASSUME NEW c \in Callers, stop(c)
      PROVE  /\ broadcasts' \in Seq({"started", "stopped"}) /\ silent' \in BOOLEAN
             /\ shown' \in [status : {"started", "stopped"}, told : BOOLEAN]
             /\ UNCHANGED <<created, vpnStarted, vpn, tuns, starts, native>>
             /\ \/ UNCHANGED call
                \/ /\ CallerAt(c, "kill") /\ call[c].pc = "idle"
                   /\ created /\ vpnStarted /\ UNCHANGED screen
  <2>1. CASE Goes(c, "kill") /\ vpnStarted /\ UNCHANGED screen
    BY <1>0, <1>2, <2>1, GoesShape DEF stop, screen, TypeOK
  <2>2. CASE Tells("stopped") /\ UNCHANGED call
    BY <1>0, <1>2, <2>2, BroadcastsType DEF stop, Tells, TypeOK
  <2> QED
    BY <1>2, <2>1, <2>2 DEF stop
<1>3. CASE OpenActivity
  <2>1. [status |-> "stopped", told |-> FALSE] \in [status : {"started", "stopped"}, told : BOOLEAN]
    OBVIOUS
  <2> QED
    BY <1>0, <1>3, <2>1, BroadcastsType DEF OpenActivity, TypeOK
<1>4. CASE onReceive
  <2>1. [status |-> Head(broadcasts), told |-> TRUE]
          \in [status : {"started", "stopped"}, told : BOOLEAN]
    BY <1>0, <1>4, BroadcastsType DEF onReceive, TypeOK
  <2> QED
    BY <1>0, <1>4, <2>1, BroadcastsType DEF onReceive, TypeOK
<1> QED
  BY <1>1, <1>2, <1>3, <1>4 DEF Activity, Buttons

\* What a step of the native thread k may do.
LEMMA NativeShape ==
  ASSUME TypeOK, NEW k \in Threads, handle_events(k)
  PROVE  /\ Running(k)
         /\ thread' \in [Threads -> Thread]
         /\ thread'[k].pc # "none" /\ thread'[k].joined = thread[k].joined
         /\ \A j \in Threads : j # k => thread'[j] = thread[j]
         /\ UNCHANGED <<service, call>>
         /\ pipe' \in Nat /\ stop_threads' \in BOOLEAN /\ UNCHANGED <<piped, abandoned>>
         /\ sessions' \subseteq sessions \cup {k}
         /\ thread_id' = thread_id \/ (thread_id' = 0 /\ thread'[k].pc = "over")
<1>0. pipe \in Nat /\ stop_threads \in BOOLEAN
  BY DEF TypeOK
<1>1. CASE Attach(k)
  <2>1. ThreadAt(k, "setup") \/ ThreadAt(k, "over")
    BY <1>1, StepsShape DEF Attach
  <2> QED
    BY <1>0, <1>1, <2>1 DEF Attach, ThreadAt, Running, signal
<1>2. CASE Setup(k)
  <2>0. thread[k] \in Thread /\ {FALSE, piped} \subseteq BOOLEAN
    BY DEF TypeOK
  <2>1. ASSUME thread' = [thread EXCEPT ![k].pc = "loop", ![k].watches = TRUE]
        PROVE  ThreadAt(k, "loop")
    <3> DEFINE r == [thread[k] EXCEPT !.pc = "loop", !.watches = TRUE]
    <3>1. thread' = [thread EXCEPT ![k] = r]
      BY <2>1
    <3>2. r \in Thread /\ r.pc = "loop" /\ r.joined = thread[k].joined
      BY <2>0, FieldsShape
    <3> HIDE DEF r
    <3> QED
      BY <3>1, <3>2, ThreadShape
  <2>2. ASSUME NEW added \in {FALSE, piped},
               thread' = [thread EXCEPT ![k].pc = "loop", ![k].failed = TRUE, ![k].watches = added]
        PROVE  ThreadAt(k, "loop")
    <3> DEFINE r == [thread[k] EXCEPT !.pc = "loop", !.failed = TRUE, !.watches = added]
    <3>1. thread' = [thread EXCEPT ![k] = r]
      BY <2>2
    <3>3. added \in BOOLEAN
      BY <2>0
    <3>2. r \in Thread /\ r.pc = "loop" /\ r.joined = thread[k].joined
      BY <2>0, <3>3, FieldsShape
    <3> HIDE DEF r
    <3> QED
      BY <3>1, <3>2, ThreadShape
  <2>3. ThreadAt(k, "loop")
    BY <1>2, <2>1, <2>2 DEF Setup
  <2> QED
    BY <1>0, <1>2, <2>3 DEF Setup, ThreadAt, Running, signal
<1>3. CASE LoopTest(k)
  <2>1. ThreadAt(k, "ending") \/ ThreadAt(k, "work")
    BY <1>3, StepsShape DEF LoopTest
  <2> QED
    BY <1>0, <1>3, <2>1 DEF LoopTest, ThreadAt, Running, signal
<1>4. CASE CheckSessions(k)
  <2>1. ThreadAt(k, "wait")
    BY <1>4, StepsShape DEF CheckSessions
  <2> QED
    BY <1>0, <1>4, <2>1 DEF CheckSessions, ThreadAt, Running, signal
<1>5. CASE NoEvents(k)
  <2>1. ThreadAt(k, "loop")
    BY <1>5, StepsShape DEF NoEvents
  <2> QED
    BY <1>0, <1>5, <2>1 DEF NoEvents, ThreadAt, Running, signal
<1>6. CASE EpollFails(k)
  <2>1. ThreadAt(k, "ending")
    BY <1>6, StepsShape DEF EpollFails
  <2> QED
    BY <1>0, <1>6, <2>1 DEF EpollFails, ThreadAt, Running, signal
<1>7. CASE Reports(k)
  <2> DEFINE r == [thread[k] EXCEPT !.pc = "batch", !.told = thread[k].watches /\ pipe > 0]
  <2>1. thread' = [thread EXCEPT ![k] = r]
    BY <1>7 DEF Reports
  <2>2. r \in Thread /\ r.pc = "batch" /\ r.joined = thread[k].joined
    <3>1. thread[k] \in Thread /\ (thread[k].watches /\ pipe > 0) \in BOOLEAN
      BY DEF TypeOK
    <3> QED
      BY <3>1, FieldsShape
  <2> HIDE DEF r
  <2>3. ThreadAt(k, "batch")
    BY <2>1, <2>2, ThreadShape
  <2> QED
    BY <1>0, <1>7, <2>3 DEF Reports, ThreadAt, Running, signal
<1>8. CASE HandleEvents(k)
  <2>1. ThreadAt(k, "loop")
    BY <1>8, StepsShape DEF HandleEvents
  <2> QED
    BY <1>0, <1>8, <2>1 DEF HandleEvents, ThreadAt, Running, signal
<1>9. CASE HandleStop(k)
  <2> DEFINE r == [thread[k] EXCEPT !.pc = "loop", !.told = FALSE]
  <2>1. thread' = [thread EXCEPT ![k] = r]
    BY <1>9 DEF HandleStop
  <2>2. r \in Thread /\ r.pc = "loop" /\ r.joined = thread[k].joined
    <3>1. thread[k] \in Thread
      BY DEF TypeOK
    <3> QED
      BY <3>1, FieldsShape
  <2> HIDE DEF r
  <2>3. ThreadAt(k, "loop")
    BY <2>1, <2>2, ThreadShape
  <2>4. pipe' \in Nat
    BY <1>0, <1>9 DEF HandleStop
  <2> QED
    BY <1>0, <1>9, <2>3, <2>4 DEF HandleStop, ThreadAt, Running, signal
<1>10. CASE TunFails(k)
  <2> DEFINE r == [thread[k] EXCEPT !.pc = "ending", !.told = FALSE, !.failed = TRUE]
  <2>1. thread' = [thread EXCEPT ![k] = r]
    BY <1>10 DEF TunFails
  <2>2. r \in Thread /\ r.pc = "ending" /\ r.joined = thread[k].joined
    <3>1. thread[k] \in Thread
      BY DEF TypeOK
    <3> QED
      BY <3>1, FieldsShape
  <2> HIDE DEF r
  <2>3. ThreadAt(k, "ending")
    BY <2>1, <2>2, ThreadShape
  <2> QED
    BY <1>0, <1>10, <2>3 DEF TunFails, ThreadAt, Running, signal
<1>11. CASE Ends(k)
  <2> DEFINE r == [thread[k] EXCEPT !.pc = "over", !.watches = FALSE]
  <2>1. thread' = [thread EXCEPT ![k] = r]
    BY <1>11 DEF Ends
  <2>2. r \in Thread /\ r.pc = "over" /\ r.joined = thread[k].joined
    <3>1. thread[k] \in Thread
      BY DEF TypeOK
    <3> QED
      BY <3>1, FieldsShape
  <2> HIDE DEF r
  <2>3. ThreadAt(k, "over")
    BY <2>1, <2>2, ThreadShape
  <2> QED
    BY <1>0, <1>11, <2>3 DEF Ends, ThreadAt, Running, signal
<1> QED
  BY <1>1, <1>2, <1>3, <1>4, <1>5, <1>6, <1>7, <1>8, <1>9, <1>10, <1>11 DEF handle_events

\* At first every variable has its type.
LEMMA TypeInvAtFirst ==
  ASSUME Init
  PROVE  TypeInv
<1>1. 0 \in 0 .. MaxStarts /\ 0 \in Nat /\ << >> \in Seq({"started", "stopped"})
  BY VpnServiceAssumption
<1>2. Idle \in Call /\ Idle.pc = "idle"
  BY <1>1 DEF Idle, Call
<1>3. call \in [Callers -> Call] /\ \A c \in Callers : call[c].pc = "idle"
  BY <1>2 DEF Init
<1>4. thread \in [Threads -> Thread]
  BY DEF Init, Thread
<1>5. shown \in [status : {"started", "stopped"}, told : BOOLEAN]
  BY DEF Init
<1>6. TypeOK
  BY <1>1, <1>3, <1>4, <1>5 DEF Init, TypeOK
<1> QED
  BY <1>3, <1>6, VpnServiceAssumption DEF TypeInv, CallInv

\* The types and what CallInv adds to them are inductive.
THEOREM TypeInvInductive == Spec => []TypeInv
<1>1. Init => TypeInv
  BY TypeInvAtFirst
<1>2. TypeInv /\ [Next]_vars => TypeInv'
  <2> SUFFICES ASSUME TypeInv, [Next]_vars PROVE TypeInv'
    OBVIOUS
  <2>0. TypeOK /\ "main" \in Callers
    BY VpnServiceAssumption DEF TypeInv
  <2>1. CASE Service
    BY <2>1, ServiceType
  <2>2. CASE Activity
    <3>1. /\ broadcasts' \in Seq({"started", "stopped"}) /\ silent' \in BOOLEAN
          /\ shown' \in [status : {"started", "stopped"}, told : BOOLEAN]
          /\ UNCHANGED <<created, vpnStarted, vpn, tuns, starts, native>>
      BY <2>2, ActivityShape
    <3>2. CASE UNCHANGED call
      BY <2>0, <3>1, <3>2 DEF TypeInv, TypeOK, CallInv, native, signal, Threads
    <3>3. CASE CallerAt("main", "establish") /\ ~vpnStarted /\ starts < MaxStarts
      <4>1. TypeOK'
        BY <2>0, <3>1, <3>3 DEF TypeOK, CallerAt, native, signal, Threads
      <4>2. CallInv'
        BY <2>0, <3>1, <3>3 DEF TypeInv, CallInv, CallerAt, native
      <4> QED
        BY <4>1, <4>2 DEF TypeInv
    <3>4. ASSUME NEW c \in Callers, CallerAt(c, "kill") PROVE TypeInv'
      <4>1. TypeOK'
        BY <2>0, <3>1, <3>4 DEF TypeOK, CallerAt, native, signal, Threads
      <4>2. CallInv'
        BY <2>0, <3>1, <3>4 DEF TypeInv, CallInv, CallerAt, native
      <4> QED
        BY <4>1, <4>2 DEF TypeInv
    <3> QED
      BY <2>2, <3>2, <3>3, <3>4, ActivityShape
  <2>3. ASSUME NEW k \in Threads, handle_events(k) PROVE TypeInv'
    <3>1. /\ thread' \in [Threads -> Thread] /\ UNCHANGED <<service, call>>
          /\ pipe' \in Nat /\ stop_threads' \in BOOLEAN /\ UNCHANGED <<piped, abandoned>>
          /\ sessions' \subseteq Threads /\ thread_id' \in 0 .. MaxStarts
      BY <2>0, <2>3, NativeShape, VpnServiceAssumption DEF TypeOK
    <3>2. TypeOK'
      BY <2>0, <3>1 DEF TypeOK, service, screen, signal, Threads
    <3>3. CallInv'
      BY <3>1 DEF TypeInv, CallInv, service
    <3> QED
      BY <3>2, <3>3 DEF TypeInv
  <2>4. CASE UNCHANGED vars
    BY <2>0, <2>4 DEF vars, screen, TypeInv, TypeOK, CallInv, Threads
  <2> QED
    BY <2>1, <2>2, <2>3, <2>4 DEF Next
<1> QED
  BY <1>1, <1>2, PTL DEF Spec

\* VpnStackAppService.java, vpn_stack.c, session.c: whoever calls the service, at
\* whatever moment, every variable keeps its type, and a VPN that is started has
\* had a device.
THEOREM TypeCorrect == Spec => []TypeOK
<1>1. TypeInv => TypeOK
  BY DEF TypeInv
<1> QED
  BY <1>1, TypeInvInductive, PTL

-----------------------------------------------------------------------------
(* One caller: the main thread                                             *)

\* What was told last is the last to arrive.
LEMMA LastTold ==
  ASSUME TypeOK, NEW what \in {"started", "stopped"}, Tells(what)
  PROVE  broadcasts' # << >> /\ broadcasts'[Len(broadcasts')] = what
<1>1. broadcasts \in Seq({"started", "stopped"}) /\ broadcasts' = Append(broadcasts, what)
  BY DEF TypeOK, Tells
<1> QED
  BY <1>1

\* A step of the service keeps the invariant.
\* What a step does to the threads, as long as no stop gives up on one.
ThreadKept == ThreadInv /\ ~abandoned' => ThreadInv'

LEMMA ServiceInvariant ==
  ASSUME Callers = {"main"}, Inv, Service
  PROVE  ThreadKept /\ ServiceInv' /\ ScreenInv'
<1>0. /\ TypeOK /\ TypeInv /\ ServiceInv /\ ScreenInv /\ MaxStarts \in Nat
      /\ "main" \in Callers /\ \A c \in Callers : c = "main"
  BY VpnServiceAssumption DEF Inv, TypeInv
<1> USE <1>0
<1>1. CASE onCreate
  <2>1. /\ ~created /\ call["main"].pc = "idle" /\ call' = call
        /\ created' /\ vpnStarted' = FALSE /\ vpn' = 0
        /\ UNCHANGED <<tuns, starts, thread_id, thread, broadcasts, shown, silent>>
    BY <1>1 DEF onCreate, screen
  <2>2. vpnStarted = FALSE /\ tuns = {}
    BY <2>1 DEF ServiceInv, TypeOK
  <2> QED
    <3>1. ThreadKept
      BY <2>1, <2>2 DEF ThreadKept, ThreadInv, Running
    <3>2. ServiceInv'
      BY <2>1, <2>2 DEF ServiceInv
    <3>3. ScreenInv'
      BY <2>1, <2>2 DEF ScreenInv
    <3> QED
      BY <3>1, <3>2, <3>3
<1>2. CASE startVPN
  <2>1. call["main"].pc = "establish" /\ starts' = starts + 1 /\ starts \in Nat /\ starts' \in Threads
    BY <1>2 DEF startVPN, TypeInv, CallInv, TypeOK, Threads
  <2>2. \/ CallerAt("main", "start") /\ vpn' = starts' /\ tuns' = {starts'}
        \/ CallerAt("main", "idle") /\ tuns' = {} /\ Tells("stopped")
    <3>1. tuns = {}
      BY <2>1 DEF ServiceInv
    <3> QED
      BY <1>2, <3>1, <2>1, GoesShape, ReturnsShape DEF startVPN
  <2>3. /\ ~vpnStarted /\ created
        /\ UNCHANGED <<created, vpnStarted, thread_id, stop_threads, signal, sessions, thread>>
    BY <1>2, <2>1 DEF startVPN, ServiceInv, native
  <2>4. ThreadInv => \A k \in Threads : ~Running(k)
    BY <2>1, <2>3 DEF ThreadInv
  <2>5. ThreadInv => thread[starts'].pc = "none" /\ \A k \in Threads : k > starts' => thread[k].pc = "none"
    BY <2>1 DEF ThreadInv, Threads
  <2>6. ThreadKept
    BY <2>1, <2>2, <2>3, <2>4, <2>5 DEF ThreadKept, ThreadInv, CallerAt, Running
  <2>7. ServiceInv'
    BY <2>1, <2>2, <2>3 DEF ServiceInv, CallerAt
  <2>8. ScreenInv'
    BY <2>2, <2>3 DEF ScreenInv, CallerAt, Tells, TypeOK
  <2> QED
    BY <2>6, <2>7, <2>8
<1>3. CASE jni_start
  <2>1. /\ call["main"].pc = "start"
        /\ UNCHANGED <<created, vpnStarted, vpn, tuns, starts, thread_id, signal, sessions, thread>>
        /\ UNCHANGED <<broadcasts, shown, silent>>
    BY <1>3 DEF jni_start, service, screen
  <2>2. CallerAt("main", "create") \/ CallerAt("main", "started")
    BY <1>3, GoesShape DEF jni_start
  <2>3. ThreadInv => \A k \in Threads : ~Running(k)
    BY <2>1 DEF ThreadInv, ServiceInv
  <2>4. ThreadKept
    BY <2>1, <2>2, <2>3 DEF ThreadKept, ThreadInv, CallerAt, Running
  <2>5. ServiceInv'
    BY <2>1, <2>2 DEF ServiceInv, CallerAt
  <2>6. ScreenInv'
    BY <2>2 DEF ScreenInv, CallerAt
  <2> QED
    BY <2>4, <2>5, <2>6
<1>4. CASE CreateThread
  <2>1. /\ call["main"].pc = "create" /\ CallerAt("main", "started")
        /\ UNCHANGED <<created, vpnStarted, vpn, tuns, starts, stop_threads, signal, sessions>>
        /\ UNCHANGED <<broadcasts, shown, silent>>
    BY <1>4, GoesShape DEF CreateThread, service, screen
  <2>2. /\ vpn \in Threads
        /\ ThreadInv => vpn = starts /\ thread[vpn].pc = "none" /\ ~thread[vpn].joined
    <3>1. vpn \in Threads
      BY <2>1 DEF TypeInv, CallInv, TypeOK, Threads
    <3> QED
      BY <2>1, <3>1 DEF ThreadInv
  <2>3. \/ thread_id' = vpn /\ ThreadAt(vpn, "born")
        \/ thread_id' = thread_id /\ ThreadAt(vpn, "none")
    BY <1>4, <2>2, StepsShape DEF CreateThread
  <2>4. ThreadInv => \A k \in Threads : ~Running(k)
    BY <2>1 DEF ThreadInv
  <2>5. \A k \in Threads : k # vpn => thread'[k] = thread[k]
    BY <2>3 DEF ThreadAt
  <2>6. ThreadInv => \A k \in Threads : k > starts => k # vpn
    BY <2>2 DEF TypeOK, Threads
  <2>7. ThreadKept
    BY <2>1, <2>2, <2>3, <2>4, <2>5, <2>6 DEF ThreadKept, ThreadInv, CallerAt, ThreadAt, Running
  <2>8. ServiceInv'
    BY <2>1 DEF ServiceInv, CallerAt
  <2>9. ScreenInv'
    BY <2>1 DEF ScreenInv, CallerAt
  <2> QED
    BY <2>7, <2>8, <2>9
<1>5. CASE Started
  <2>1. /\ call["main"].pc = "started" /\ CallerAt("main", "idle")
        /\ vpnStarted' /\ Tells("started")
        /\ UNCHANGED <<created, vpn, tuns, starts, thread_id, stop_threads, signal, sessions, thread>>
    BY <1>5, ReturnsShape DEF Started, native
  <2>2. ThreadKept
    BY <2>1 DEF ThreadKept, ThreadInv, CallerAt, Running
  <2>3. ServiceInv'
    BY <2>1 DEF ServiceInv, CallerAt
  <2>4. ScreenInv'
    BY <2>1, LastTold DEF ScreenInv
  <2> QED
    BY <2>2, <2>3, <2>4
<1>6. CASE onDestroy
  <2>1. /\ created /\ call["main"].pc = "idle"
        /\ UNCHANGED <<created, vpnStarted, vpn, tuns, starts, thread_id, stop_threads, signal>>
        /\ UNCHANGED <<sessions, thread, broadcasts, shown, silent>>
    BY <1>6 DEF onDestroy, service, native, screen
  <2>2. call'["main"].pc = IF vpnStarted THEN "kill" ELSE "done"
    BY <1>6 DEF onDestroy, TypeOK, Call
  <2>3. ThreadKept
    BY <2>1, <2>2 DEF ThreadKept, ThreadInv, Running
  <2>4. ServiceInv'
    BY <2>1, <2>2 DEF ServiceInv
  <2>5. ScreenInv'
    BY <2>1, <2>2 DEF ScreenInv
  <2> QED
    BY <2>3, <2>4, <2>5
<1>7. ASSUME NEW c \in Callers, jni_stop(c) PROVE ThreadKept /\ ServiceInv' /\ ScreenInv'
  <2>1. /\ call["main"].pc = "kill"
        /\ UNCHANGED <<created, vpnStarted, vpn, tuns, starts, thread_id, stop_threads, signal>>
        /\ UNCHANGED <<sessions, thread, broadcasts, shown, silent>>
    BY <1>7 DEF jni_stop, service, native, screen
  <2>2. \/ /\ thread_id \in Threads /\ Running(thread_id)
           /\ call'["main"].pc = "write" /\ call'["main"].t = thread_id
        \/ /\ ThreadInv => \A k \in Threads : ~Running(k)
           /\ call'["main"].pc = "close"
    BY <1>7 DEF jni_stop, TypeOK, Call, Goes, ThreadInv, Threads
  <2>3. ThreadKept
    BY <2>1, <2>2 DEF ThreadKept, ThreadInv, Running
  <2>4. ServiceInv'
    BY <2>1, <2>2 DEF ServiceInv
  <2>5. ScreenInv'
    BY <2>1, <2>2 DEF ScreenInv
  <2> QED
    BY <2>3, <2>4, <2>5
<1>8. ASSUME NEW c \in Callers, WritePipe(c) PROVE ThreadKept /\ ServiceInv' /\ ScreenInv'
  <2> DEFINE t == call["main"].t
  <2>1. /\ call["main"].pc = "write" /\ t \in Threads
        /\ UNCHANGED <<created, vpnStarted, vpn, tuns, starts, thread_id, stop_threads>>
        /\ UNCHANGED <<sessions, broadcasts, shown, silent>>
    BY <1>8 DEF WritePipe, service, screen, TypeInv, CallInv, TypeOK, Call, Threads
  <2>2. CallerAt("main", "join") \/ CallerAt("main", "clear")
    BY <1>8, GoesShape DEF WritePipe
  <2>3. ASSUME ThreadInv, ~abandoned'
        PROVE  /\ ~thread[t].joined /\ CallerAt("main", "join")
               /\ thread' = [thread EXCEPT ![t].joined = TRUE]
    <3>1. ~thread[t].joined
      BY <2>1, <2>3 DEF ThreadInv
    <3>2. Goes("main", "join") /\ thread' = [thread EXCEPT ![t].joined = TRUE]
      BY <1>8, <2>3, <3>1 DEF WritePipe
    <3> QED
      BY <3>1, <3>2, GoesShape
  <2>4. ThreadKept
    <3> SUFFICES ASSUME ThreadInv, ~abandoned' PROVE ThreadInv'
      BY DEF ThreadKept
    <3>1. call'["main"].pc = "join" /\ call'["main"].t = t
      BY <2>3 DEF CallerAt
    <3>2. \A k \in Threads : /\ thread'[k].pc = thread[k].pc
                             /\ thread'[k].joined => k = t \/ thread[k].joined
      BY <2>1, <2>3 DEF TypeOK, Thread
    <3>3. thread[t].pc # "none"
      BY <2>1 DEF ThreadInv
    <3> HIDE DEF t
    <3> QED
      BY <2>1, <3>1, <3>2, <3>3 DEF ThreadInv, Running, t
  <2> HIDE DEF t
  <2>7. ServiceInv'
    BY <2>1, <2>2 DEF ServiceInv, CallerAt
  <2>8. ScreenInv'
    BY <2>1, <2>2 DEF ScreenInv, CallerAt
  <2> QED
    BY <2>4, <2>7, <2>8
<1>9. ASSUME NEW c \in Callers, Joined(c) PROVE ThreadKept /\ ServiceInv' /\ ScreenInv'
  <2>1. /\ call["main"].pc = "join" /\ ~Running(call["main"].t) /\ CallerAt("main", "clear")
        /\ UNCHANGED <<created, vpnStarted, vpn, tuns, starts, thread_id, stop_threads, signal>>
        /\ UNCHANGED <<sessions, thread, broadcasts, shown, silent>>
    BY <1>9, GoesShape DEF Joined, service, native, screen
  <2>2. ThreadInv => \A k \in Threads : ~Running(k)
    BY <2>1 DEF ThreadInv
  <2>3. ThreadKept
    BY <2>1, <2>2 DEF ThreadKept, ThreadInv, Running, CallerAt
  <2>4. ServiceInv'
    BY <2>1 DEF ServiceInv, CallerAt
  <2>5. ScreenInv'
    BY <2>1 DEF ScreenInv, CallerAt
  <2> QED
    BY <2>3, <2>4, <2>5
<1>10. ASSUME NEW c \in Callers, Clear(c) PROVE ThreadKept /\ ServiceInv' /\ ScreenInv'
  <2>1. /\ call["main"].pc = "clear" /\ CallerAt("main", "close") /\ sessions' = {}
        /\ UNCHANGED <<created, vpnStarted, vpn, tuns, starts, stop_threads, signal>>
        /\ UNCHANGED <<thread, broadcasts, shown, silent>>
    BY <1>10, GoesShape DEF Clear, service, screen
  <2>2. ThreadInv => \A k \in Threads : ~Running(k)
    BY <2>1 DEF ThreadInv
  <2>3. ThreadKept
    BY <2>1, <2>2 DEF ThreadKept, ThreadInv, Running, CallerAt
  <2>4. ServiceInv'
    BY <2>1 DEF ServiceInv, CallerAt
  <2>5. ScreenInv'
    BY <2>1 DEF ScreenInv, CallerAt
  <2> QED
    BY <2>3, <2>4, <2>5
<1>11. ASSUME NEW c \in Callers, stopVPN(c) PROVE ThreadKept /\ ServiceInv' /\ ScreenInv'
  <2>1. /\ call["main"].pc = "close" /\ tuns' = tuns \ {vpn} /\ vpnStarted' = FALSE
        /\ UNCHANGED <<created, vpn, starts, thread_id, stop_threads, signal, sessions, thread>>
    BY <1>11 DEF stopVPN, native
  <2>2. \/ CallerAt("main", "done") /\ silent'
        \/ CallerAt("main", "idle") /\ Tells("stopped")
    BY <1>11, GoesShape, ReturnsShape DEF stopVPN
  <2>3. ThreadInv => \A k \in Threads : ~Running(k)
    BY <2>1 DEF ThreadInv
  <2>4. tuns' = {} /\ created
    BY <2>1 DEF ServiceInv
  <2>5. ThreadKept
    BY <2>1, <2>2, <2>3 DEF ThreadKept, ThreadInv, Running, CallerAt
  <2>6. ServiceInv'
    BY <2>1, <2>2, <2>4 DEF ServiceInv, CallerAt
  <2>7. ScreenInv'
    <3>1. CASE CallerAt("main", "done") /\ silent'
      BY <3>1 DEF ScreenInv
    <3>2. CASE Tells("stopped")
      <4>1. broadcasts' # << >> /\ broadcasts'[Len(broadcasts')] = "stopped"
        BY <3>2, LastTold
      <4> QED
        BY <2>1, <4>1 DEF ScreenInv
    <3> QED
      BY <2>2, <3>1, <3>2
  <2> QED
    BY <2>5, <2>6, <2>7
<1>12. ASSUME NEW c \in Callers, jni_done(c) PROVE ThreadKept /\ ServiceInv' /\ ScreenInv'
  <2>1. /\ call["main"].pc = "done" /\ CallerAt("main", "idle") /\ ~created' /\ sessions' = {}
        /\ UNCHANGED <<vpnStarted, vpn, tuns, starts, thread_id, stop_threads>>
        /\ UNCHANGED <<broadcasts, shown, silent>>
    BY <1>12, ReturnsShape DEF jni_done, screen
  <2>6. \A k \in Threads : thread'[k].pc = thread[k].pc /\ thread'[k].joined = thread[k].joined
    BY <1>12, UnwatchedShape DEF jni_done
  <2>2. ThreadInv => \A k \in Threads : ~Running(k)
    BY <2>1 DEF ThreadInv
  <2>3. ThreadKept
    BY <2>1, <2>2, <2>6 DEF ThreadKept, ThreadInv, Running, CallerAt, TypeOK, Threads
  <2>4. ServiceInv'
    BY <2>1 DEF ServiceInv, CallerAt
  <2>5. ScreenInv'
    BY <2>1 DEF ScreenInv, CallerAt
  <2> QED
    BY <2>3, <2>4, <2>5
<1> QED
  BY <1>1, <1>2, <1>3, <1>4, <1>5, <1>6, <1>7, <1>8, <1>9, <1>10, <1>11, <1>12 DEF Service

\* So does a step of the activity.
LEMMA ActivityInvariant ==
  ASSUME Callers = {"main"}, Inv, Activity
  PROVE  ThreadKept /\ ServiceInv' /\ ScreenInv'
<1>0. /\ TypeOK /\ TypeInv /\ ServiceInv /\ ScreenInv
      /\ "main" \in Callers /\ \A c \in Callers : c = "main"
  BY DEF Inv, TypeInv
<1>1. /\ call["main"].pc = "idle"
      /\ UNCHANGED <<created, vpnStarted, vpn, tuns, starts>>
      /\ UNCHANGED <<thread_id, stop_threads, signal, sessions, thread>>
  <2>1. UNCHANGED <<created, vpnStarted, vpn, tuns, starts, native>>
    BY <1>0, ActivityShape
  <2> QED
    BY <1>0, <2>1 DEF Activity, Buttons, start, stop, OpenActivity, onReceive, native
<1>2. \/ UNCHANGED call
      \/ /\ UNCHANGED <<broadcasts, shown, silent>> /\ created
         /\ \/ CallerAt("main", "establish") /\ ~vpnStarted
            \/ CallerAt("main", "kill") /\ vpnStarted
  BY <1>0, ActivityShape DEF screen
<1>3. ThreadKept
  BY <1>0, <1>1, <1>2 DEF ThreadKept, ThreadInv, CallerAt, Running
<1>4. ServiceInv'
  BY <1>0, <1>1, <1>2 DEF ServiceInv, CallerAt
<1>5. ScreenInv'
  <2>1. CASE CallerAt("main", "establish") \/ CallerAt("main", "kill")
    BY <2>1 DEF ScreenInv, CallerAt
  <2>2. CASE Tells("started") /\ vpnStarted /\ UNCHANGED call
    <3>1. broadcasts' # << >> /\ broadcasts'[Len(broadcasts')] = "started"
      BY <1>0, <2>2, LastTold
    <3>2. vpnStarted' = TRUE
      BY <1>0, <1>1, <2>2 DEF TypeOK
    <3> QED
      BY <3>1, <3>2 DEF ScreenInv
  <2>3. CASE Tells("stopped") /\ ~vpnStarted /\ UNCHANGED call
    <3>1. broadcasts' # << >> /\ broadcasts'[Len(broadcasts')] = "stopped"
      BY <1>0, <2>3, LastTold
    <3>2. vpnStarted' = FALSE
      BY <1>0, <1>1, <2>3 DEF TypeOK
    <3> QED
      BY <3>1, <3>2 DEF ScreenInv
  <2>4. CASE OpenActivity
    BY <2>4 DEF OpenActivity, ScreenInv
  <2>5. CASE onReceive
    <3>1. /\ broadcasts \in Seq({"started", "stopped"}) /\ broadcasts # << >>
          /\ broadcasts' = Tail(broadcasts) /\ silent' = silent /\ call' = call
          /\ shown' = [status |-> Head(broadcasts), told |-> TRUE]
      BY <1>0, <2>5 DEF onReceive, TypeOK
    <3>2. ~silent => (broadcasts[Len(broadcasts)] = "started") = vpnStarted
      BY <1>0, <1>1, <3>1 DEF ScreenInv
    <3>3. CASE Len(broadcasts) = 1
      <4>1. broadcasts' = << >> /\ shown'.status = broadcasts[Len(broadcasts)]
        BY <3>1, <3>3
      <4> QED
        BY <1>1, <3>1, <3>2, <4>1 DEF ScreenInv
    <3>4. CASE Len(broadcasts) # 1
      <4>1. broadcasts' # << >> /\ broadcasts'[Len(broadcasts')] = broadcasts[Len(broadcasts)]
        <5>0. Len(broadcasts) \in Nat \ {0}
          BY <3>1, EmptySeq, Zenon
        <5>1. Len(broadcasts) \in Nat /\ Len(broadcasts) > 1
          <6>1. \A n \in Nat \ {0} : n # 1 => n \in Nat /\ n > 1
            OBVIOUS
          <6> QED
            BY <3>4, <5>0, <6>1, Zenon
        <5>2. Len(Tail(broadcasts)) = Len(broadcasts) - 1
          BY <3>1
        <5>3. Tail(broadcasts)[Len(broadcasts) - 1] = broadcasts[Len(broadcasts)]
          BY <3>1, <5>1
        <5> QED
          BY <3>1, <5>1, <5>2, <5>3
      <4> QED
        BY <1>1, <3>1, <3>2, <4>1 DEF ScreenInv
    <3> QED
      BY <3>3, <3>4
  <2>6. CASE start
    <3>1. CASE Goes("main", "establish")
      BY <1>0, <2>1, <3>1, GoesShape
    <3> QED
      BY <2>2, <2>6, <3>1 DEF start
  <2>7. ASSUME NEW c \in Callers, stop(c) PROVE ScreenInv'
    <3>1. CASE Goes("main", "kill")
      BY <1>0, <2>1, <3>1, GoesShape
    <3> QED
      BY <1>0, <2>3, <2>7, <3>1 DEF stop
  <2> QED
    BY <2>4, <2>5, <2>6, <2>7 DEF Activity, Buttons
<1> QED
  BY <1>3, <1>4, <1>5

\* And a step of the native thread.
LEMMA NativeThreads ==
  ASSUME Inv, ThreadInv, NEW k \in Threads, handle_events(k)
  PROVE  ThreadInv'
<1>0. TypeOK /\ ServiceInv /\ ThreadInv
  BY DEF Inv, TypeInv
<1>1. /\ Running(k)
      /\ thread'[k].pc # "none" /\ thread'[k].joined = thread[k].joined
      /\ \A j \in Threads : j # k => thread'[j] = thread[j]
      /\ UNCHANGED <<created, vpnStarted, vpn, tuns, starts, broadcasts, shown, silent, call>>
      /\ sessions' \subseteq sessions \cup {k}
      /\ thread_id' = thread_id \/ thread'[k].pc = "over"
  BY <1>0, NativeShape DEF service, screen
<1>2. \A j \in Threads : j # k => ~Running(j)
  BY <1>0, <1>1 DEF ThreadInv
<1>3. /\ ~Running(k)' \/ thread_id' = k
      /\ \A j \in Threads : j # k => ~Running(j)'
  BY <1>0, <1>1, <1>2 DEF ThreadInv, Running
<1>4. created
  <2>1. vpnStarted \/ call["main"].pc = "started"
    BY <1>0, <1>1 DEF ThreadInv
  <2> QED
    BY <1>0, <2>1 DEF ServiceInv
<1>5. ThreadInv'
  <2> DEFINE c == call["main"]
  <2>1. \A j \in Threads : Running(j)' => j = k /\ thread_id' = j
    BY <1>3
  <2>2. Running(k) => vpnStarted \/ c.pc = "started"
    BY <1>0 DEF ThreadInv
  <2>3. c.pc \notin {"create", "clear", "close", "done"}
    BY <1>0, <1>1 DEF ThreadInv
  <2>4. c.pc \in {"write", "join"} => c.t = k
    BY <1>0, <1>1 DEF ThreadInv
  <2>5. \A j \in Threads : thread'[j].joined => thread'[j].pc # "none" /\ (Running(j)' => c.pc = "join")
    BY <1>0, <1>1, <1>3 DEF ThreadInv
  <2>6. c.pc = "write" => thread'[c.t].pc # "none" /\ ~thread'[c.t].joined
    BY <1>0, <1>1, <2>4 DEF ThreadInv
  <2>7. k <= starts /\ \A j \in Threads : j > starts => thread'[j].pc = "none"
    BY <1>0, <1>1 DEF ThreadInv, Running, TypeOK, Threads
  <2>8. c.pc \in {"start", "create"} => vpn = starts /\ thread'[starts].pc = "none"
    BY <1>0, <1>1, <2>2 DEF ServiceInv
  <2> QED
    BY <1>1, <1>4, <2>1, <2>2, <2>3, <2>4, <2>5, <2>6, <2>7, <2>8 DEF ThreadInv
<1> QED
  BY <1>5

\* Of what the service and the activity hold it changes nothing.
LEMMA NativeInvariant ==
  ASSUME Inv, NEW k \in Threads, handle_events(k)
  PROVE  ThreadKept /\ ServiceInv' /\ ScreenInv'
<1>1. /\ TypeOK /\ ServiceInv /\ ScreenInv
      /\ UNCHANGED <<created, vpnStarted, vpn, tuns, starts, broadcasts, shown, silent, call>>
  BY NativeShape DEF Inv, TypeInv, service, screen
<1>2. ServiceInv' /\ ScreenInv'
  BY <1>1 DEF ServiceInv, ScreenInv
<1> QED
  BY <1>2, NativeThreads DEF ThreadKept

\* A stop that has given up on a thread stays on record.
LEMMA AbandonedStays ==
  ASSUME TypeInv, [Next]_vars, abandoned
  PROVE  abandoned'
<1>0. TypeOK
  BY DEF TypeInv
<1>1. CASE Service
  BY <1>1 DEF Service, onCreate, startVPN, jni_start, CreateThread, Started, onDestroy, jni_stop,
              WritePipe, Joined, Clear, stopVPN, jni_done, native, signal
<1>2. CASE Activity
  BY <1>2, ActivityShape DEF native, signal
<1>3. ASSUME NEW k \in Threads, handle_events(k) PROVE abandoned'
  BY <1>0, <1>3, NativeShape
<1>4. CASE UNCHANGED vars
  BY <1>4 DEF vars
<1> QED
  BY <1>1, <1>2, <1>3, <1>4 DEF Next

\* The inductive invariant holds.
THEOREM InvInductive == ASSUME Callers = {"main"} PROVE Spec => []Inv
<1>1. Init => Inv
  <2> SUFFICES ASSUME Init PROVE Inv
    OBVIOUS
  <2>1. TypeInv
    BY TypeInvAtFirst
  <2>2. call["main"].pc = "idle"
    BY DEF Init, Idle
  <2>3. \A k \in Threads : thread[k].pc = "none" /\ ~thread[k].joined
    BY DEF Init
  <2>0. sessions = {}
    BY DEF Init
  <2>4. ThreadInv
    BY <2>0, <2>2, <2>3 DEF ThreadInv, Running
  <2>5. ServiceInv /\ ScreenInv
    BY <2>2 DEF Init, ServiceInv, ScreenInv
  <2> QED
    BY <2>1, <2>4, <2>5 DEF Inv
<1>2. Inv /\ TypeInv' /\ [Next]_vars => Inv'
  <2> SUFFICES ASSUME Inv, TypeInv', [Next]_vars PROVE Inv'
    OBVIOUS
  <2>0. ~abandoned' => ~abandoned
    BY AbandonedStays DEF Inv
  <2>1. CASE Service
    BY <2>0, <2>1, ServiceInvariant DEF Inv, ThreadKept
  <2>2. CASE Activity
    BY <2>0, <2>2, ActivityInvariant DEF Inv, ThreadKept
  <2>3. ASSUME NEW k \in Threads, handle_events(k) PROVE Inv'
    BY <2>0, <2>3, NativeInvariant DEF Inv, ThreadKept
  <2>4. CASE UNCHANGED vars
    BY <2>4 DEF Inv, vars, screen, ThreadInv, ServiceInv, ScreenInv, Running
  <2> QED
    BY <2>1, <2>2, <2>3, <2>4 DEF Next
<1> QED
  BY <1>1, <1>2, TypeInvInductive, PTL DEF Spec

\* vpn_stack.c:167-176, 204: with one caller, however often the VPN is started and
\* whatever fails, also pipe(), clear() frees the sessions under a thread that uses
\* them only after a stop's write to the pipe has failed: the error path that does
\* not join is the only way to it.
THEOREM ClearsOnlyAlone == ASSUME Callers = {"main"} PROVE Spec => []ClearsAlone
<1>1. Inv => ClearsAlone
  BY DEF Inv, ThreadInv, ClearsAlone, Serves, Running
<1> QED
  BY <1>1, InvInductive, PTL

\* vpn_stack.c:129, session.c:299: no thread serves the tun device that jni_stop
\* does not know, and in particular two never do, unless a stop's write to the pipe
\* has failed.
THEOREM ServingIsKnown == ASSUME Callers = {"main"} PROVE Spec => []ServingThreadIsKnown
<1>1. Inv => ServingThreadIsKnown
  BY DEF Inv, ThreadInv, ServingThreadIsKnown, Serves, Running
<1> QED
  BY <1>1, InvInductive, PTL

\* VpnStackAppService.java:143-164, 370-383: stopped means that no device is open,
\* whatever has failed; and that no thread serves and a service that is gone has
\* left no session, unless a stop's write to the pipe has failed.
THEOREM StoppedIsStopped == ASSUME Callers = {"main"} PROVE Spec => []StoppedMeansStopped
<1>1. Inv => StoppedMeansStopped
  BY DEF Inv, ThreadInv, ServiceInv, StoppedMeansStopped, Serves, Running
<1> QED
  BY <1>1, InvInductive, PTL

\* VpnStackAppActivity.java:66-77, 107-113: what the activity shows is so.
THEOREM ShownIsSo == ASSUME Callers = {"main"} PROVE Spec => []ShownIsTrue
<1>1. Inv => ShownIsTrue
  BY DEF Inv, ScreenInv, ShownIsTrue
<1> QED
  BY <1>1, InvInductive, PTL
=============================================================================
