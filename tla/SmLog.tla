-------------------------------- MODULE SmLog --------------------------------
(***************************************************************************)
(* The log library sm_log.c as its programs use it: one sm_log_config, a   *)
(* recursive mutex in it, threads that print, and the thread that opened   *)
(* the log, which may start and stop it and closes it when the others are  *)
(* gone.  A print looks at m_start before it takes the mutex and again     *)
(* after; sm_log_printf formats under the mutex and calls sm_log_print,    *)
(* which takes it a second time.  A program keeps lines together by        *)
(* holding the mutex itself (sm_log_types.h).                              *)
(*                                                                         *)
(* A call in progress is a stack of frames, innermost first.               *)
(***************************************************************************)
EXTENDS Naturals, Sequences, FiniteSets

CONSTANTS
    Threads,   \* the threads that log
    Owner,     \* the one that opens the log
    Prios,     \* Android's priorities used by the callers
    Outs,      \* log_out: a subset of {"file", "console"}
    MinLevel, MaxLevel,   \* the levels the log is opened with
    MaxCalls,  \* bound on the calls made
    MaxClock   \* bound on the clock

ASSUME LogAssumption ==
    /\ IsFiniteSet(Threads) /\ Owner \in Threads /\ "nobody" \notin Threads
    /\ Outs \subseteq {"file", "console"}
    /\ MinLevel \in Nat /\ MaxLevel \in Nat
    /\ MaxCalls \in Nat /\ MaxClock \in Nat

VARIABLES
    config,   \* the sm_log_config without its mutex
    mutex,    \* its mutex
    call,     \* per thread: the frames of its call
    lines,    \* the log file
    console,  \* what went to the console
    clock,    \* the time of day
    calls     \* the number of calls made

vars == <<config, mutex, call, lines, console, clock, calls>>

\* SM_LOG_LEVEL_*
Off == 0
Levels == {Off, 10, 20, 30, 40, 50, 60}
Info == 40

convert_log_prio(prio) ==
    CASE prio = "silent" -> Off
      [] prio = "fatal" -> 10
      [] prio = "error" -> 20
      [] prio = "warn" -> 30
      [] prio \in {"info", "default"} -> Info
      [] prio = "debug" -> 50
      [] OTHER -> 60

\* safe_memset(log_config, 0)
Zeroed == [start |-> FALSE, file |-> FALSE, out |-> {}, min |-> 0, max |-> 0]
Free == [owner |-> "nobody", count |-> 0]

\* kind: print, printf, group, start or stop; left: prints still to make in it.
Frame(kind, level, id, left) ==
    [kind |-> kind, level |-> level, id |-> id, left |-> left, pc |-> "lock", time |-> 0]

Top(t) == Head(call[t])
At(t, kind, pc) == call[t] # << >> /\ Top(t).kind = kind /\ Top(t).pc = pc
Goto(frames, pc) == <<[Head(frames) EXCEPT !.pc = pc]>> \o Tail(frames)

\* The tests made before the mutex is taken.
Printable(level) ==
    config.start /\ level # Off /\ config.min <= level /\ level <= config.max
-----------------------------------------------------------------------------
\* sm_init_log, logInit: initialize the configuration and its mutex, open the file
\* and, when that worked, start.
sm_log_init_dpath_fname ==
    /\ config = Zeroed /\ calls = 0 /\ call[Owner] = << >>
    /\ mutex' = Free /\ calls' = 1
    /\ \/ /\ config' = [start |-> FALSE, file |-> "file" \in Outs, out |-> Outs,
                        min |-> MinLevel, max |-> MaxLevel]
          /\ call' = [call EXCEPT ![Owner] = <<Frame("start", Off, 0, 0)>>]
       \/ "file" \in Outs /\ UNCHANGED <<config, call>>
    /\ UNCHANGED <<lines, console, clock>>

\* A thread calls the library, or takes the mutex to print lines that belong together.
logPrint(t) ==
    \E kind \in {"print", "printf"}, prio \in Prios :
        call' = [call EXCEPT ![t] =
                    IF Printable(convert_log_prio(prio))
                    THEN <<Frame(kind, convert_log_prio(prio), 0, 0)>> ELSE << >>]

Group(t) ==
    \E prio \in Prios :
        call' = [call EXCEPT ![t] = <<Frame("group", convert_log_prio(prio), calls, 2)>>]

StartStop(t) ==
    /\ t = Owner
    /\ \E kind \in {"start", "stop"} :
          call' = [call EXCEPT ![t] = <<Frame(kind, Off, 0, 0)>>]

Call(t) ==
    /\ calls \in 1 .. MaxCalls - 1 /\ calls' = calls + 1
    /\ call[t] = << >>
    /\ logPrint(t) \/ Group(t) \/ StartStop(t)
    /\ UNCHANGED <<config, mutex, lines, console, clock>>

\* Mutants: a mutex that is not recursive; one that is taken without waiting.
LockOnce(t) ==
    /\ call[t] # << >> /\ Top(t).pc = "lock" /\ mutex = Free
    /\ mutex' = [owner |-> t, count |-> 1]
    /\ call' = [call EXCEPT ![t] = Goto(@, "locked")]
    /\ UNCHANGED <<config, lines, console, clock, calls>>

LockAtOnce(t) ==
    /\ call[t] # << >> /\ Top(t).pc = "lock"
    /\ mutex' = [owner |-> t, count |-> mutex.count + 1]
    /\ call' = [call EXCEPT ![t] = Goto(@, "locked")]
    /\ UNCHANGED <<config, lines, console, clock, calls>>

sm_sync_type_lock(t) ==
    /\ call[t] # << >> /\ Top(t).pc = "lock"
    /\ mutex.owner \in {"nobody", t}
    /\ mutex' = [owner |-> t, count |-> mutex.count + 1]
    /\ call' = [call EXCEPT ![t] = Goto(@, "locked")]
    /\ UNCHANGED <<config, lines, console, clock, calls>>

\* Mutant: the mutex is free after the first unlock, however often it was taken.
UnlockAll(t) ==
    /\ call[t] # << >> /\ Top(t).pc = "unlock"
    /\ mutex' = Free /\ call' = [call EXCEPT ![t] = Tail(@)]
    /\ UNCHANGED <<config, lines, console, clock, calls>>

sm_sync_type_unlock(t) ==
    /\ call[t] # << >> /\ Top(t).pc = "unlock"
    /\ mutex' = IF mutex.count = 1 THEN Free ELSE [mutex EXCEPT !.count = @ - 1]
    /\ call' = [call EXCEPT ![t] = Tail(@)]
    /\ UNCHANGED <<config, lines, console, clock, calls>>

\* Mutant: m_start is not looked at again.
TakeTimeOnly(t) ==
    /\ At(t, "print", "locked")
    /\ call' = [call EXCEPT ![t] = <<[Top(t) EXCEPT !.pc = "write", !.time = clock]>> \o Tail(@)]
    /\ UNCHANGED <<config, mutex, lines, console, clock, calls>>

\* sm_log_print under the mutex: m_start again, the time, then the line.
TakeTime(t) ==
    /\ At(t, "print", "locked")
    /\ call' = [call EXCEPT ![t] =
                  IF config.start THEN <<[Top(t) EXCEPT !.pc = "write", !.time = clock]>> \o Tail(@)
                  ELSE Goto(@, "unlock")]
    /\ UNCHANGED <<config, mutex, lines, console, clock, calls>>

Line(t) == [by |-> t, id |-> Top(t).id, time |-> Top(t).time, level |-> Top(t).level]

sm_log_print(t) ==
    /\ At(t, "print", "write")
    /\ lines' = IF "file" \in config.out THEN Append(lines, Line(t)) ELSE lines
    /\ console' = IF "console" \in config.out /\ Top(t).level <= Info
                  THEN Append(console, Line(t)) ELSE console
    /\ call' = [call EXCEPT ![t] = Goto(@, "unlock")]
    /\ UNCHANGED <<config, mutex, clock, calls>>

\* The print inside a printf or a group: it makes the tests of any print.
Nested(t, frames) ==
    IF Printable(Top(t).level)
    THEN <<Frame("print", Top(t).level, Top(t).id, 0)>> \o frames ELSE frames

sm_log_printf(t) ==
    /\ At(t, "printf", "locked")
    /\ call' = [call EXCEPT ![t] =
                  IF config.start THEN Nested(t, Goto(@, "unlock")) ELSE Goto(@, "unlock")]
    /\ UNCHANGED <<config, mutex, lines, console, clock, calls>>

PrintOfGroup(t) ==
    /\ At(t, "group", "locked")
    /\ call' = [call EXCEPT ![t] =
                  IF Top(t).left = 0 THEN Goto(@, "unlock")
                  ELSE Nested(t, <<[Top(t) EXCEPT !.left = @ - 1]>>)]
    /\ UNCHANGED <<config, mutex, lines, console, clock, calls>>

sm_log_start(t) ==
    /\ At(t, "start", "locked")
    /\ config' = [config EXCEPT !.start = @ \/ ("file" \in config.out /\ config.file)
                                            \/ "console" \in config.out]
    /\ call' = [call EXCEPT ![t] = Goto(@, "unlock")]
    /\ UNCHANGED <<mutex, lines, console, clock, calls>>

sm_log_stop(t) ==
    /\ At(t, "stop", "locked")
    /\ config' = [config EXCEPT !.start = FALSE]
    /\ call' = [call EXCEPT ![t] = Goto(@, "unlock")]
    /\ UNCHANGED <<mutex, lines, console, clock, calls>>

\* sm_close_log, logClose: only when no other thread is in the library, whose mutex
\* it zeroes and destroys.
sm_log_close ==
    /\ config # Zeroed /\ \A t \in Threads : call[t] = << >>
    /\ config' = Zeroed /\ mutex' = Free
    /\ UNCHANGED <<call, lines, console, clock, calls>>

Tick ==
    /\ clock < MaxClock /\ clock' = clock + 1
    /\ UNCHANGED <<config, mutex, call, lines, console, calls>>
-----------------------------------------------------------------------------
Init ==
    /\ config = Zeroed /\ mutex = Free
    /\ call = [t \in Threads |-> << >>]
    /\ lines = << >> /\ console = << >> /\ clock = 0 /\ calls = 0

\* What a thread in the library does next.
Step(t) ==
    \/ sm_sync_type_lock(t) \/ sm_sync_type_unlock(t)
    \/ TakeTime(t) \/ sm_log_print(t) \/ sm_log_printf(t) \/ PrintOfGroup(t)
    \/ sm_log_start(t) \/ sm_log_stop(t)

Next ==
    \/ sm_log_init_dpath_fname \/ sm_log_close \/ Tick
    \/ \E t \in Threads : Call(t) \/ Step(t)

\* A thread that can go on is scheduled; the calls are bounded, so the mutex need
\* not be fair.
Spec == Init /\ [][Next]_vars /\ \A t \in Threads : WF_vars(Step(t))
-----------------------------------------------------------------------------
\* The times of the lines never go back: the time is taken under the mutex that is
\* held until the line is written.
TimesInOrder ==
    \A i, j \in 1 .. Len(lines) : i < j => lines[i].time <= lines[j].time

\* sm_log_types.h: the prints between sm_sync_type_lock and sm_sync_type_unlock are
\* synchronized: no line of another thread comes between those of a group.
GroupsStayTogether ==
    \A i, j, k \in 1 .. Len(lines) :
        i < j /\ j < k /\ lines[i].id = lines[k].id /\ lines[i].id # 0
            => lines[j].id = lines[i].id

\* A line is written only while the log is started, to a file that is open and at a
\* level it was opened for, although m_start is first read without the mutex.
WritesWhileStarted ==
    [][lines' # lines \/ console' # console =>
          /\ config.start /\ ("file" \in config.out => config.file)
          /\ \A i \in 1 .. Len(lines') : lines'[i].level \in MinLevel .. MaxLevel \ {Off}]_vars

\* Every call returns: the print inside a printf does not wait for the mutex its own
\* thread holds.
CallsReturn == \A t \in Threads : call[t] # << >> ~> call[t] = << >>
=============================================================================
