----------------------------- MODULE SmLogProofs -----------------------------
(***************************************************************************)
(* The safety of SmLog for any threads, levels and outputs: the depth of   *)
(* the recursive mutex is the number of frames of its owner that are past  *)
(* their lock, and nobody else has such a frame. Hence the times of the    *)
(* lines are in order, the lines of a group stay together, and lines are   *)
(* written only while the log is started.                                  *)
(***************************************************************************)
EXTENDS SmLog, SequenceTheorems, TLAPS

Frames ==
    [kind : {"print", "printf", "group", "start", "stop"}, level : Levels, id : Nat,
     left : 0 .. 2, pc : {"lock", "locked", "write", "unlock"}, time : Nat]

Prints == {f \in Frames : f.kind = "print" /\ f.level \in MinLevel .. MaxLevel \ {Off}}
Others == {f \in Frames : f.kind # "print" /\ f.pc # "write"}

\* The print f inside the printf or the group g, which has the mutex and whose
\* identifier the print has.
Inside(f, g) ==
    f \in Prints /\ g.pc # "lock" /\ g.kind \in {"printf", "group"} /\ f.id = g.id

\* A call is one frame, or the one inside the other.
Stacks ==
    {s \in Seq(Prints \cup Others) : Len(s) <= 2 /\ (Len(s) = 2 => Inside(s[1], s[2]))}

Lines == [by : Threads, id : Nat, time : Nat, level : MinLevel .. MaxLevel \ {Off}]

TypeInv ==
    /\ config \in [start : BOOLEAN, file : BOOLEAN, out : SUBSET Outs, min : Nat, max : Nat]
    /\ mutex \in [owner : Threads \cup {"nobody"}, count : Nat]
    /\ call \in [Threads -> Stacks]
    /\ lines \in Seq(Lines) /\ clock \in Nat /\ calls \in Nat

\* The configuration is zero, or that of the only opening.
ConfigInv ==
    /\ config = Zeroed
         \/ config = [start |-> config.start, file |-> "file" \in Outs, out |-> Outs,
                      min |-> MinLevel, max |-> MaxLevel]
    /\ config.start => config # Zeroed
    /\ calls = 0 => \A t \in Threads : call[t] = << >>

\* How often a call has taken the mutex.
Depth(frames) ==
    IF frames = << >> THEN 0
    ELSE IF Head(frames).pc = "lock" THEN Len(frames) - 1 ELSE Len(frames)

MutexInv ==
    /\ mutex.count = IF mutex.owner = "nobody" THEN 0 ELSE Depth(call[mutex.owner])
    /\ \A t \in Threads : Depth(call[t]) # 0 <=> mutex.owner = t

Writing(t) == call[t] # << >> /\ Top(t).pc = "write"

\* Who is about to write has a time no earlier than any line's, and the log is
\* still started.
TimeInv ==
    /\ TimesInOrder
    /\ \A i \in 1 .. Len(lines) : lines[i].time <= clock
    /\ \A t \in Threads : Writing(t) =>
         /\ config.start /\ Top(t).time <= clock
         /\ \A i \in 1 .. Len(lines) : lines[i].time <= Top(t).time

\* The identifier of a call is its own; it has no lines before it has the mutex,
\* and while it has it, no other lines after its own.
GroupInv ==
    /\ GroupsStayTogether
    /\ \A i \in 1 .. Len(lines) : lines[i].id # 0 => lines[i].id < calls
    /\ \A t \in Threads : call[t] # << >> /\ Top(t).id # 0 =>
         /\ Top(t).id < calls
         /\ \A u \in Threads \ {t} : call[u] # << >> => Top(u).id # Top(t).id
         /\ Depth(call[t]) = 0 => \A i \in 1 .. Len(lines) : lines[i].id # Top(t).id
         /\ \A i, j \in 1 .. Len(lines) :
              i < j /\ lines[i].id = Top(t).id => lines[j].id = Top(t).id

Inv == TypeInv /\ ConfigInv /\ MutexInv /\ TimeInv /\ GroupInv

-----------------------------------------------------------------------------
(* The frames of a call *)

\* A call of one frame.
LEMMA OneFrame ==
  ASSUME NEW f
  PROVE  /\ <<f>> # << >> /\ Len(<<f>>) = 1 /\ Head(<<f>>) = f /\ Tail(<<f>>) = << >>
         /\ <<f>> \o << >> = <<f>>
<1>1. <<f>> \in Seq({f}) /\ << >> \in Seq({f})
  OBVIOUS
<1>2. <<f>> \o << >> = <<f>>
  BY <1>1, ConcatEmptySeq, Zenon
<1>3. <<f>> # << >> /\ Len(<<f>>) = 1 /\ Head(<<f>>) = f
  OBVIOUS
<1>4. Tail(<<f>>) \in Seq({f}) /\ Len(Tail(<<f>>)) = 0
  BY <1>1, <1>3, HeadTailProperties
<1>5. Tail(<<f>>) = << >>
  BY <1>4, EmptySeq
<1> QED
  BY <1>2, <1>3, <1>5

\* One frame inside another.
LEMMA TwoFrames ==
  ASSUME NEW f, NEW g
  PROVE  /\ <<f, g>> # << >> /\ Len(<<f, g>>) = 2
         /\ Head(<<f, g>>) = f /\ Tail(<<f, g>>) = <<g>>
         /\ <<f>> \o <<g>> = <<f, g>> /\ <<f, g>>[1] = f /\ <<f, g>>[2] = g
<1>1. <<f, g>> \in Seq({f, g}) /\ <<f>> \in Seq({f, g}) /\ <<g>> \in Seq({f, g})
  OBVIOUS
<1>2. /\ <<f, g>> # << >> /\ Len(<<f, g>>) = 2 /\ Head(<<f, g>>) = f
      /\ <<f, g>>[1] = f /\ <<f, g>>[2] = g
  OBVIOUS
<1>3. Tail(<<f, g>>) = <<g>>
  <2>1. /\ Tail(<<f, g>>) \in Seq({f, g}) /\ Len(Tail(<<f, g>>)) = 1
        /\ \A i \in 1 .. Len(Tail(<<f, g>>)) : Tail(<<f, g>>)[i] = <<f, g>>[i + 1]
    BY <1>1, <1>2, HeadTailProperties
  <2>2. Tail(<<f, g>>)[1] = g
    BY <1>2, <2>1
  <2> QED
    BY <1>1, <2>1, <2>2, SeqEqual
<1>4. <<f>> \o <<g>> = <<f, g>>
  <2>1. /\ <<f>> \o <<g>> \in Seq({f, g}) /\ Len(<<f>> \o <<g>>) = 2
        /\ (<<f>> \o <<g>>)[1] = f /\ (<<f>> \o <<g>>)[2] = g
    BY <1>1, ConcatProperties
  <2>2. \A i \in 1 .. Len(<<f>> \o <<g>>) : (<<f>> \o <<g>>)[i] = <<f, g>>[i]
    BY <1>2, <2>1
  <2>3. Len(<<f>> \o <<g>>) = Len(<<f, g>>)
    BY <1>2, <2>1
  <2> QED
    BY <1>1, <2>1, <2>2, <2>3, SeqEqual, Zenon
<1> QED
  BY <1>2, <1>3, <1>4

\* What a call can look like.
LEMMA StackShape ==
  /\ << >> \in Stacks
  /\ \A f \in Prints \cup Others : <<f>> \in Stacks
  /\ \A f \in Prints, g \in Others : Inside(f, g) => <<f, g>> \in Stacks
  /\ \A s \in Stacks :
       \/ s = << >>
       \/ \E f \in Prints \cup Others : s = <<f>>
       \/ \E f \in Prints, g \in Others : Inside(f, g) /\ s = <<f, g>>
<1> DEFINE S == Prints \cup Others
<1>1. << >> \in Stacks
  BY EmptySeq DEF Stacks
<1>2. ASSUME NEW f \in S PROVE <<f>> \in Stacks
  <2>1. <<f>> \in Seq(S) /\ Len(<<f>>) = 1
    BY OneFrame
  <2> QED
    BY <2>1 DEF Stacks
<1>3. ASSUME NEW f \in Prints, NEW g \in Others, Inside(f, g) PROVE <<f, g>> \in Stacks
  <2>1. <<f, g>> \in Seq(S) /\ Len(<<f, g>>) = 2
    BY TwoFrames
  <2> QED
    BY <1>3, <2>1, TwoFrames DEF Stacks
<1>4. ASSUME NEW s \in Stacks
      PROVE  \/ s = << >>
             \/ \E f \in Prints \cup Others : s = <<f>>
             \/ \E f \in Prints, g \in Others : Inside(f, g) /\ s = <<f, g>>
  <2>1. s \in Seq(S) /\ Len(s) \in Nat /\ Len(s) <= 2
    BY LenProperties DEF Stacks
  <2>2. CASE Len(s) = 0
    BY <2>1, <2>2, EmptySeq
  <2>3. CASE Len(s) = 1
    <3>1. s[1] \in S
      BY <2>1, <2>3, ElementOfSeq
    <3>2. s = <<s[1]>>
      BY <2>1, <2>3, <3>1, SeqEqual
    <3> QED
      BY <3>1, <3>2
  <2>4. CASE Len(s) = 2
    <3>0. 1 \in 1 .. Len(s) /\ 2 \in 1 .. Len(s)
      BY <2>4
    <3>1. s[1] \in S /\ s[2] \in S
      BY <2>1, <3>0, ElementOfSeq, Zenon
    <3>2. s = <<s[1], s[2]>>
      <4>1. <<s[1], s[2]>> \in Seq(S) /\ Len(<<s[1], s[2]>>) = 2
        BY <3>1
      <4> QED
        BY <2>1, <2>4, <4>1, SeqEqual
    <3>3. Inside(s[1], s[2])
      BY <2>4 DEF Stacks
    <3>4. s[1] \in Prints /\ s[2] \in Others
      BY <3>1, <3>3 DEF Inside, Prints
    <3> QED
      BY <3>2, <3>3, <3>4
  <2>5. Len(s) \in {0, 1, 2}
    <3>1. \A n \in Nat : n <= 2 => n \in {0, 1, 2}
      OBVIOUS
    <3> QED
      BY <2>1, <3>1, Zenon
  <2> QED
    BY <2>2, <2>3, <2>4, <2>5, Zenon
<1> QED
  BY <1>1, <1>2, <1>3, <1>4

\* How deep the calls are.
LEMMA Depths ==
  /\ Depth(<< >>) = 0
  /\ \A f : Depth(<<f>>) = IF f.pc = "lock" THEN 0 ELSE 1
  /\ \A f, g : Depth(<<f, g>>) = IF f.pc = "lock" THEN 1 ELSE 2
BY OneFrame, TwoFrames DEF Depth

\* A frame that goes on stays the frame it is.
LEMMA FrameGoesOn ==
  ASSUME NEW f, NEW pc \in {"lock", "locked", "write", "unlock"},
         NEW time \in Nat, NEW left \in 0 .. 2
  PROVE  /\ f \in Prints => /\ [f EXCEPT !.pc = pc] \in Prints
                            /\ [f EXCEPT !.pc = pc, !.time = time] \in Prints
         /\ f \in Others /\ pc # "write" => [f EXCEPT !.pc = pc] \in Others
         /\ f \in Others => [f EXCEPT !.left = left] \in Others
BY DEF Prints, Others, Frames

-----------------------------------------------------------------------------
(* The steps of a call *)

\* Thread t goes on with its call, whose identifier stays.
Moves(t) ==
    /\ call[t] # << >> /\ call' \in [Threads -> Stacks]
    /\ \A u \in Threads \ {t} : call'[u] = call[u]
    /\ call'[t] # << >> => Head(call'[t]).id = Top(t).id
    /\ UNCHANGED <<clock, calls>>

WillWrite(t) == call'[t] # << >> /\ Head(call'[t]).pc = "write"

Locks(t) ==
    /\ Moves(t) /\ mutex.owner \in {"nobody", t}
    /\ mutex' = [owner |-> t, count |-> mutex.count + 1]
    /\ Depth(call'[t]) = Depth(call[t]) + 1
    /\ ~WillWrite(t) /\ UNCHANGED <<config, lines, console>>

Unlocks(t) ==
    /\ Moves(t)
    /\ mutex' = IF mutex.count = 1 THEN Free ELSE [mutex EXCEPT !.count = @ - 1]
    /\ Depth(call[t]) = Depth(call'[t]) + 1
    /\ call'[t] # << >> => Depth(call'[t]) # 0
    /\ ~WillWrite(t) /\ UNCHANGED <<config, lines, console>>

\* The mutex is held and kept; the log may be stopped, or started when it has
\* something to write to.
Works(t) ==
    /\ Moves(t) /\ UNCHANGED <<mutex, lines, console>>
    /\ Depth(call'[t]) = Depth(call[t]) /\ Depth(call[t]) # 0
    /\ \/ UNCHANGED config
       \/ \E b \in BOOLEAN : /\ config' = [config EXCEPT !.start = b]
                             /\ b => config.start \/ config.out # {}
    /\ WillWrite(t) => config.start /\ UNCHANGED config /\ Head(call'[t]).time = clock

Writes(t) ==
    /\ Moves(t) /\ UNCHANGED <<mutex, config>>
    /\ Depth(call'[t]) = Depth(call[t]) /\ Writing(t) /\ ~WillWrite(t)
    /\ Line(t) \in Lines /\ lines' \in {lines, Append(lines, Line(t))}

\* The frame or the two frames of a call.
LEMMA CallShape ==
  ASSUME TypeInv, NEW t \in Threads, call[t] # << >>
  PROVE  /\ Top(t) \in Prints \cup Others
         /\ \/ call[t] = <<Top(t)>>
            \/ \E g \in Others : Inside(Top(t), g) /\ call[t] = <<Top(t), g>>
<1>1. call[t] \in Stacks
  BY DEF TypeInv
<1>2. CASE \E f \in Prints \cup Others : call[t] = <<f>>
  BY <1>2, OneFrame DEF Top
<1>3. CASE \E f \in Prints, g \in Others : Inside(f, g) /\ call[t] = <<f, g>>
  <2>1. PICK f \in Prints, g \in Others : Inside(f, g) /\ call[t] = <<f, g>>
    BY <1>3
  <2>2. Top(t) = f
    BY <2>1, TwoFrames DEF Top
  <2> QED
    BY <2>1, <2>2
<1> QED
  BY <1>1, <1>2, <1>3, StackShape

\* A call whose top frame goes on.
LEMMA GotoShape ==
  ASSUME TypeInv, NEW t \in Threads, call[t] # << >>,
         NEW f \in Prints \cup Others, f.id = Top(t).id,
         Top(t) \in Prints <=> f \in Prints,
         NEW s, s = <<f>> \o Tail(call[t])
  PROVE  /\ s \in Stacks /\ s # << >> /\ Head(s) = f
         /\ Depth(s) = IF f.pc = "lock" THEN Len(call[t]) - 1 ELSE Len(call[t])
         /\ Len(call[t]) \in {1, 2}
<1>1. CASE call[t] = <<Top(t)>>
  BY <1>1, OneFrame, StackShape, Depths
<1>2. CASE \E g \in Others : Inside(Top(t), g) /\ call[t] = <<Top(t), g>>
  <2>1. PICK g \in Others : Inside(Top(t), g) /\ call[t] = <<Top(t), g>>
    BY <1>2
  <2>2. s = <<f, g>> /\ Inside(f, g) /\ f \in Prints
    BY <2>1, TwoFrames DEF Inside
  <2>3. s \in Stacks
    BY <2>1, <2>2, StackShape, Zenon
  <2>4. s # << >> /\ Head(s) = f /\ Len(call[t]) = 2
    BY <2>1, <2>2, TwoFrames
  <2>5. Depth(s) = IF f.pc = "lock" THEN 1 ELSE 2
    BY <2>2, Depths
  <2> QED
    BY <2>3, <2>4, <2>5
<1> QED
  BY <1>1, <1>2, CallShape

\* The mutex is taken.
LEMMA LockShape ==
  ASSUME TypeInv, NEW t \in Threads, sm_sync_type_lock(t)
  PROVE  Locks(t)
<1> DEFINE f == [Top(t) EXCEPT !.pc = "locked"]
<1>1. /\ call[t] # << >> /\ Top(t).pc = "lock" /\ mutex.owner \in {"nobody", t}
      /\ mutex' = [owner |-> t, count |-> mutex.count + 1]
      /\ call' = [call EXCEPT ![t] = <<f>> \o Tail(call[t])]
      /\ UNCHANGED <<config, lines, console, clock, calls>>
  BY DEF sm_sync_type_lock, Goto, Top
<1>2. Top(t) \in Prints \cup Others /\ call \in [Threads -> Stacks]
  BY <1>1, CallShape DEF TypeInv
<1>3. f \in Prints \cup Others /\ (Top(t) \in Prints <=> f \in Prints)
  BY <1>2, FrameGoesOn DEF Prints, Others, Frames
<1>4. f.id = Top(t).id /\ f.pc = "locked"
  BY <1>2 DEF Prints, Others, Frames
<1> HIDE DEF f
<1>5. /\ call'[t] \in Stacks /\ call'[t] # << >> /\ Head(call'[t]) = f
      /\ Depth(call'[t]) = Len(call[t]) /\ Len(call[t]) \in {1, 2}
  BY <1>1, <1>2, <1>3, <1>4, GotoShape
<1>6. Depth(call[t]) = Len(call[t]) - 1
  BY <1>1 DEF Depth, Top
<1>7. call' \in [Threads -> Stacks] /\ \A u \in Threads \ {t} : call'[u] = call[u]
  BY <1>1, <1>2, <1>5
<1> QED
  BY <1>1, <1>4, <1>5, <1>6, <1>7 DEF Locks, Moves, WillWrite

\* The mutex is released, and the innermost frame is gone.
LEMMA UnlockShape ==
  ASSUME TypeInv, NEW t \in Threads, sm_sync_type_unlock(t)
  PROVE  Unlocks(t)
<1>1. /\ call[t] # << >> /\ Top(t).pc = "unlock"
      /\ mutex' = IF mutex.count = 1 THEN Free ELSE [mutex EXCEPT !.count = @ - 1]
      /\ call' = [call EXCEPT ![t] = Tail(call[t])]
      /\ UNCHANGED <<config, lines, console, clock, calls>>
  BY DEF sm_sync_type_unlock
<1>2. call \in [Threads -> Stacks]
  BY DEF TypeInv
<1>3. /\ Tail(call[t]) \in Stacks /\ Depth(call[t]) = Depth(Tail(call[t])) + 1
      /\ Tail(call[t]) # << >> => /\ Head(Tail(call[t])).id = Top(t).id
                                  /\ Head(Tail(call[t])).pc # "write"
                                  /\ Depth(Tail(call[t])) # 0
  <2>1. CASE call[t] = <<Top(t)>>
    <3>1. Depth(call[t]) = 1 /\ Tail(call[t]) = << >>
      BY <1>1, <2>1, OneFrame, Depths
    <3>2. Depth(Tail(call[t])) = 0 /\ Tail(call[t]) \in Stacks
      BY <3>1, Depths, StackShape, Zenon
    <3> QED
      BY <3>1, <3>2
  <2>2. CASE \E g \in Others : Inside(Top(t), g) /\ call[t] = <<Top(t), g>>
    <3>1. PICK g \in Others : Inside(Top(t), g) /\ call[t] = <<Top(t), g>>
      BY <2>2
    <3>2. Tail(call[t]) = <<g>> /\ Depth(call[t]) = 2
      BY <1>1, <3>1, TwoFrames, Depths
    <3>3. Depth(<<g>>) = 1 /\ <<g>> \in Stacks /\ Head(<<g>>) = g
      BY <3>1, Depths, StackShape, OneFrame DEF Inside
    <3> QED
      BY <3>1, <3>2, <3>3 DEF Inside, Others
  <2> QED
    BY <1>1, <2>1, <2>2, CallShape
<1>4. call'[t] = Tail(call[t])
  BY <1>1, <1>2
<1>5. call' \in [Threads -> Stacks] /\ \A u \in Threads \ {t} : call'[u] = call[u]
  BY <1>1, <1>2, <1>3
<1> QED
  BY <1>1, <1>3, <1>4, <1>5 DEF Unlocks, Moves, WillWrite

\* A frame that has the mutex gives way to another that has it, or that waits
\* for it inside; nothing is written.
LEMMA WorkShape ==
  ASSUME TypeInv, NEW t \in Threads, call[t] # << >>, Top(t).pc = "locked",
         NEW s \in Stacks, s # << >>, call' = [call EXCEPT ![t] = s],
         Head(s).id = Top(t).id, Depth(s) = Len(call[t]),
         UNCHANGED <<mutex, lines, console, clock, calls>>
  PROVE  /\ Moves(t) /\ call'[t] = s
         /\ Depth(call'[t]) = Depth(call[t]) /\ Depth(call[t]) # 0
<1>1. call \in [Threads -> Stacks]
  BY DEF TypeInv
<1>2. call'[t] = s /\ call' \in [Threads -> Stacks]
      /\ \A u \in Threads \ {t} : call'[u] = call[u]
  BY <1>1
<1>3. Depth(call[t]) = Len(call[t])
  BY DEF Depth, Top
<1>4. Len(call[t]) # 0
  BY CallShape, OneFrame, TwoFrames
<1> QED
  BY <1>2, <1>3, <1>4 DEF Moves

\* The frame of a thread that is not inside another's call.
LEMMA SingleShape ==
  ASSUME TypeInv, NEW t \in Threads, call[t] # << >>, Top(t).kind # "print"
  PROVE  Top(t) \in Others /\ call[t] = <<Top(t)>> /\ Len(call[t]) = 1 /\ Tail(call[t]) = << >>
<1>1. Top(t) \in Others /\ call[t] = <<Top(t)>>
  BY CallShape DEF Prints, Inside
<1> QED
  BY <1>1, OneFrame

\* A print inside a printf or a group makes the tests of any print.
LEMMA NestedShape ==
  ASSUME TypeInv, ConfigInv, NEW t \in Threads, call[t] # << >>,
         NEW g \in Others, Top(t) \in Others, g.id = Top(t).id,
         g.kind \in {"printf", "group"}, g.pc # "lock",
         NEW s, s = Nested(t, <<g>>)
  PROVE  s \in Stacks /\ s # << >> /\ Head(s).id = Top(t).id /\ Depth(s) = 1
         /\ Head(s).pc # "write"
<1> DEFINE f == Frame("print", Top(t).level, Top(t).id, 0)
<1>1. CASE Printable(Top(t).level)
  <2>1. s = <<f>> \o <<g>>
    BY <1>1 DEF Nested
  <2>2. Top(t).level \in MinLevel .. MaxLevel \ {Off}
    <3>1. /\ config.start /\ Top(t).level # Off
          /\ config.min <= Top(t).level /\ Top(t).level <= config.max
      BY <1>1 DEF Printable
    <3>2. config.min = MinLevel /\ config.max = MaxLevel
      BY <3>1 DEF ConfigInv
    <3>3. Top(t).level \in Nat
      BY DEF Others, Frames, Levels, Off, Info
    <3> QED
      BY <3>1, <3>2, <3>3, LogAssumption
  <2>3. f \in Prints
    BY <2>2 DEF Frame, Prints, Others, Frames
  <2>4. f.id = g.id /\ f.pc = "lock"
    BY DEF Frame
  <2> HIDE DEF f
  <2>5. s = <<f, g>> /\ Inside(f, g)
    BY <2>1, <2>3, <2>4, TwoFrames DEF Inside
  <2>6. s \in Stacks
    BY <2>3, <2>5, StackShape
  <2>7. Head(s) = f /\ s # << >>
    BY <2>5, TwoFrames
  <2>8. Depth(s) = 1
    BY <2>4, <2>5, Depths
  <2> QED
    BY <2>4, <2>6, <2>7, <2>8
<1>2. CASE ~Printable(Top(t).level)
  <2>1. s = <<g>>
    BY <1>2 DEF Nested
  <2>2. s # << >> /\ Head(s) = g
    BY <2>1, OneFrame
  <2>3. s \in Stacks
    BY <2>1, StackShape
  <2>4. Depth(s) = 1
    BY <2>1, Depths
  <2> QED
    BY <2>2, <2>3, <2>4 DEF Others
<1> QED
  BY <1>1, <1>2

\* A call whose frame, which has the mutex, will release it.
LEMMA WillUnlock ==
  ASSUME TypeInv, NEW t \in Threads, call[t] # << >>, Top(t).pc # "lock"
  PROVE  LET s == Goto(call[t], "unlock") IN
         /\ s \in Stacks /\ s # << >> /\ Head(s).id = Top(t).id
         /\ Depth(s) = Len(call[t]) /\ Head(s).pc = "unlock"
<1> DEFINE f == [Top(t) EXCEPT !.pc = "unlock"]
<1>1. Goto(call[t], "unlock") = <<f>> \o Tail(call[t])
  BY DEF Goto, Top
<1>2. Top(t) \in Prints \cup Others
  BY CallShape
<1>3. f \in Prints \cup Others /\ (Top(t) \in Prints <=> f \in Prints)
  BY <1>2, FrameGoesOn DEF Prints, Others, Frames
<1>4. f.id = Top(t).id /\ f.pc = "unlock"
  BY <1>2 DEF Prints, Others, Frames
<1> HIDE DEF f
<1> QED
  BY <1>1, <1>3, <1>4, GotoShape

\* The time is taken, if the log is still started.
LEMMA TakeTimeShape ==
  ASSUME TypeInv, NEW t \in Threads, TakeTime(t)
  PROVE  Works(t)
<1> DEFINE f == [Top(t) EXCEPT !.pc = "write", !.time = clock]
<1>1. /\ call[t] # << >> /\ Top(t).kind = "print" /\ Top(t).pc = "locked"
      /\ call' = [call EXCEPT ![t] = IF config.start THEN <<f>> \o Tail(call[t])
                                     ELSE Goto(call[t], "unlock")]
      /\ UNCHANGED <<config, mutex, lines, console, clock, calls>>
  BY DEF TakeTime, At
<1>2. CASE config.start
  <2>1. Top(t) \in Prints /\ clock \in Nat
    BY <1>1, CallShape DEF Others, TypeInv
  <2>2. f \in Prints /\ f.id = Top(t).id /\ f.pc = "write" /\ f.time = clock
    BY <2>1, FrameGoesOn DEF Prints, Frames
  <2> DEFINE s == <<f>> \o Tail(call[t])
  <2>3. call' = [call EXCEPT ![t] = s]
    BY <1>1, <1>2
  <2> HIDE DEF f
  <2>4. s \in Stacks /\ s # << >> /\ Head(s) = f /\ Depth(s) = Len(call[t])
    BY <1>1, <2>1, <2>2, GotoShape
  <2> HIDE DEF s
  <2>5. /\ Moves(t) /\ call'[t] = s
        /\ Depth(call'[t]) = Depth(call[t]) /\ Depth(call[t]) # 0
    BY <1>1, <2>2, <2>3, <2>4, WorkShape
  <2> QED
    BY <1>1, <1>2, <2>2, <2>4, <2>5 DEF Works
<1>3. CASE ~config.start
  <2> DEFINE s == Goto(call[t], "unlock")
  <2>1. call' = [call EXCEPT ![t] = s]
    BY <1>1, <1>3
  <2>2. s \in Stacks /\ s # << >> /\ Head(s).id = Top(t).id /\ Depth(s) = Len(call[t])
        /\ Head(s).pc = "unlock"
    BY <1>1, WillUnlock
  <2> HIDE DEF s
  <2>3. /\ Moves(t) /\ call'[t] = s
        /\ Depth(call'[t]) = Depth(call[t]) /\ Depth(call[t]) # 0
    BY <1>1, <2>1, <2>2, WorkShape
  <2> QED
    BY <1>1, <2>2, <2>3 DEF Works, WillWrite
<1> QED
  BY <1>2, <1>3

\* A printf, a group, a start and a stop at work.
LEMMA WorksShape ==
  ASSUME TypeInv, ConfigInv, NEW t \in Threads,
         sm_log_printf(t) \/ PrintOfGroup(t) \/ sm_log_start(t) \/ sm_log_stop(t)
  PROVE  Works(t)
<1>1. /\ call[t] # << >> /\ Top(t).pc = "locked"
      /\ Top(t).kind \in {"printf", "group", "start", "stop"}
      /\ UNCHANGED <<mutex, lines, console, clock, calls>>
  BY DEF sm_log_printf, PrintOfGroup, sm_log_start, sm_log_stop, At
<1>2. /\ Top(t) \in Others /\ call[t] = <<Top(t)>> /\ Len(call[t]) = 1 /\ Tail(call[t]) = << >>
  BY <1>1, SingleShape
<1> DEFINE u == [Top(t) EXCEPT !.pc = "unlock"]
           s == call'[t]
<1>3. Goto(call[t], "unlock") = <<u>>
  BY <1>2, OneFrame DEF Goto, Top
<1>4. u \in Others /\ u.id = Top(t).id /\ u.kind = Top(t).kind /\ u.pc = "unlock"
  <2>1. u \in Others
    BY <1>2 DEF Others, Frames
  <2> QED
    BY <1>2, <2>1 DEF Others, Frames
<1> HIDE DEF u
<1>5. config \in [start : BOOLEAN, file : BOOLEAN, out : SUBSET Outs, min : Nat, max : Nat]
      /\ call \in [Threads -> Stacks]
  BY DEF TypeInv
<1>6. /\ call' = [call EXCEPT ![t] = s] /\ s \in Stacks /\ s # << >>
      /\ Head(s).id = Top(t).id /\ Depth(s) = 1 /\ Head(s).pc # "write"
  <2>1. /\ <<u>> \in Stacks /\ <<u>> # << >> /\ Head(<<u>>).id = Top(t).id
        /\ Depth(<<u>>) = 1 /\ Head(<<u>>).pc # "write"
    BY <1>4, OneFrame, StackShape, Depths
  <2>2. CASE call' = [call EXCEPT ![t] = <<u>>]
    <3>1. s = <<u>>
      BY <1>5, <2>2
    <3> QED
      BY <2>1, <2>2, <3>1
  <2>3. CASE sm_log_printf(t) /\ config.start
    <3> DEFINE n == Nested(t, <<u>>)
    <3>1. call' = [call EXCEPT ![t] = n] /\ Top(t).kind = "printf"
      BY <1>3, <2>3 DEF sm_log_printf, At
    <3>2. n \in Stacks /\ n # << >> /\ Head(n).id = Top(t).id /\ Depth(n) = 1
          /\ Head(n).pc # "write"
      BY <1>1, <1>2, <1>4, <3>1, NestedShape
    <3> HIDE DEF n
    <3>3. s = n
      BY <1>5, <3>1
    <3> QED
      BY <3>1, <3>2, <3>3
  <2>4. CASE PrintOfGroup(t) /\ Top(t).left # 0
    <3> DEFINE g == [Top(t) EXCEPT !.left = @ - 1]
               n == Nested(t, <<g>>)
    <3>1. call' = [call EXCEPT ![t] = n] /\ Top(t).kind = "group"
      BY <2>4 DEF PrintOfGroup, At
    <3>2. Top(t).left - 1 \in 0 .. 2
      BY <1>2, <2>4 DEF Others, Frames
    <3>3. g \in Others
      BY <1>2, <3>2 DEF Others, Frames
    <3>4. g.id = Top(t).id /\ g.kind = "group" /\ g.pc = "locked"
      BY <1>1, <1>2, <3>1 DEF Others, Frames
    <3> HIDE DEF g
    <3>5. n \in Stacks /\ n # << >> /\ Head(n).id = Top(t).id /\ Depth(n) = 1
          /\ Head(n).pc # "write"
      BY <1>1, <1>2, <3>3, <3>4, NestedShape
    <3> HIDE DEF n
    <3>6. s = n
      BY <1>5, <3>1
    <3> QED
      BY <3>1, <3>5, <3>6
  <2> QED
    BY <1>3, <2>2, <2>3, <2>4 DEF sm_log_printf, PrintOfGroup, sm_log_start, sm_log_stop
<1>7. \/ UNCHANGED config
      \/ \E b \in BOOLEAN : /\ config' = [config EXCEPT !.start = b]
                            /\ b => config.start \/ config.out # {}
  <2>1. CASE sm_log_start(t)
    <3> DEFINE b == config.start \/ ("file" \in config.out /\ config.file)
                                 \/ "console" \in config.out
    <3>1. config' = [config EXCEPT !.start = b]
      BY <1>5, <2>1 DEF sm_log_start
    <3>2. b \in BOOLEAN /\ (b => config.start \/ config.out # {})
      BY <1>5
    <3> QED
      BY <3>1, <3>2
  <2>2. CASE sm_log_stop(t)
    <3>1. config' = [config EXCEPT !.start = FALSE]
      BY <2>2 DEF sm_log_stop
    <3> QED
      BY <3>1
  <2> QED
    BY <2>1, <2>2 DEF sm_log_printf, PrintOfGroup
<1> HIDE DEF s
<1>8. /\ Moves(t) /\ call'[t] = s
      /\ Depth(call'[t]) = Depth(call[t]) /\ Depth(call[t]) # 0
  BY <1>1, <1>2, <1>6, WorkShape
<1> QED
  BY <1>1, <1>6, <1>7, <1>8 DEF Works, WillWrite

\* A line is written.
LEMMA WriteShape ==
  ASSUME TypeInv, NEW t \in Threads, sm_log_print(t)
  PROVE  Writes(t)
<1>1. /\ call[t] # << >> /\ Top(t).kind = "print" /\ Top(t).pc = "write"
      /\ lines' \in {lines, Append(lines, Line(t))}
      /\ call' = [call EXCEPT ![t] = Goto(call[t], "unlock")]
      /\ UNCHANGED <<config, mutex, clock, calls>>
  BY DEF sm_log_print, At
<1>2. Top(t) \in Prints /\ call \in [Threads -> Stacks]
  BY <1>1, CallShape DEF Others, TypeInv
<1> DEFINE s == Goto(call[t], "unlock")
<1>3. s \in Stacks /\ s # << >> /\ Head(s).id = Top(t).id /\ Depth(s) = Len(call[t])
      /\ Head(s).pc = "unlock"
  BY <1>1, WillUnlock
<1> HIDE DEF s
<1>4. call'[t] = s /\ call' \in [Threads -> Stacks]
      /\ \A u \in Threads \ {t} : call'[u] = call[u]
  BY <1>1, <1>2, <1>3 DEF s
<1>5. Depth(call[t]) = Len(call[t])
  BY <1>1 DEF Depth, Top
<1>6. Line(t) \in Lines
  BY <1>2 DEF Line, Lines, Prints, Frames
<1> QED
  BY <1>1, <1>3, <1>4, <1>5, <1>6 DEF Writes, Moves, Writing, WillWrite

\* What a thread in the library does is one of the four.
LEMMA StepShape ==
  ASSUME TypeInv, ConfigInv, NEW t \in Threads, Step(t)
  PROVE  Locks(t) \/ Unlocks(t) \/ Works(t) \/ Writes(t)
BY LockShape, UnlockShape, TakeTimeShape, WorksShape, WriteShape DEF Step

\* A call begins with a frame that waits for the mutex, under a new identifier
\* or none.
Begins(t) ==
    /\ call[t] = << >> /\ call' \in [Threads -> Stacks]
    /\ \A u \in Threads \ {t} : call'[u] = call[u]
    /\ call'[t] # << >> => /\ Head(call'[t]).pc = "lock" /\ Head(call'[t]).id \in {0, calls}
                           /\ Len(call'[t]) = 1

\* Frames that can begin a call.
LEMMA FrameType ==
  ASSUME NEW level \in Levels, NEW id \in Nat, NEW left \in 0 .. 2
  PROVE  /\ \A kind \in {"printf", "group", "start", "stop"} : Frame(kind, level, id, left) \in Others
         /\ level \in MinLevel .. MaxLevel \ {Off} => Frame("print", level, id, left) \in Prints
BY DEF Frame, Others, Prints, Frames

\* The calls of a thread.
LEMMA CallBegins ==
  ASSUME TypeInv, ConfigInv, NEW t \in Threads, Call(t)
  PROVE  /\ Begins(t) /\ calls' = calls + 1 /\ calls # 0
         /\ UNCHANGED <<config, mutex, lines, console, clock>>
<1>1. /\ call[t] = << >> /\ calls \in 1 .. MaxCalls - 1 /\ calls' = calls + 1
      /\ logPrint(t) \/ Group(t) \/ StartStop(t)
      /\ UNCHANGED <<config, mutex, lines, console, clock>>
  BY DEF Call
<1>2. calls \in Nat /\ calls # 0
  BY <1>1, LogAssumption
<1>3. call \in [Threads -> Stacks]
  BY DEF TypeInv
<1>4. ASSUME NEW f \in Prints \cup Others, f.pc = "lock", f.id \in {0, calls},
             call' = [call EXCEPT ![t] = <<f>>]
      PROVE  Begins(t)
  <2>1. <<f>> \in Stacks /\ Head(<<f>>) = f /\ Len(<<f>>) = 1
    BY <1>4, StackShape, OneFrame
  <2> QED
    BY <1>1, <1>3, <1>4, <2>1 DEF Begins
<1>5. ASSUME NEW prio \in Prios PROVE convert_log_prio(prio) \in Levels
  BY DEF convert_log_prio, Levels, Off, Info
<1>6. CASE logPrint(t)
  <2>1. PICK kind \in {"print", "printf"}, prio \in Prios :
          call' = [call EXCEPT ![t] =
                     IF Printable(convert_log_prio(prio))
                     THEN <<Frame(kind, convert_log_prio(prio), 0, 0)>> ELSE << >>]
    BY <1>6 DEF logPrint
  <2> DEFINE level == convert_log_prio(prio)
  <2>2. CASE Printable(level)
    <3>1. level \in MinLevel .. MaxLevel \ {Off}
      <4>1. config.min = MinLevel /\ config.max = MaxLevel
        BY <2>2 DEF ConfigInv, Printable
      <4>2. level \in Nat
        BY <1>5 DEF Levels, Off, Info
      <4> QED
        BY <2>2, <4>1, <4>2, LogAssumption DEF Printable
    <3>2. Frame(kind, level, 0, 0) \in Prints \cup Others
      BY <1>5, <3>1, FrameType
    <3>3. Frame(kind, level, 0, 0).pc = "lock" /\ Frame(kind, level, 0, 0).id = 0
      BY DEF Frame
    <3>4. call' = [call EXCEPT ![t] = <<Frame(kind, level, 0, 0)>>]
      BY <2>1, <2>2
    <3> QED
      BY <1>1, <1>2, <1>4, <3>2, <3>3, <3>4
  <2>3. CASE ~Printable(level)
    <3>1. call' = [call EXCEPT ![t] = << >>]
      BY <2>1, <2>3
    <3>2. call'[t] = << >> /\ call' \in [Threads -> Stacks]
          /\ \A u \in Threads \ {t} : call'[u] = call[u]
      BY <1>3, <3>1, StackShape
    <3> QED
      BY <1>1, <1>2, <3>2 DEF Begins
  <2> QED
    BY <2>2, <2>3
<1>7. CASE Group(t)
  <2>1. PICK prio \in Prios :
          call' = [call EXCEPT ![t] = <<Frame("group", convert_log_prio(prio), calls, 2)>>]
    BY <1>7 DEF Group
  <2> DEFINE f == Frame("group", convert_log_prio(prio), calls, 2)
  <2>2. f.pc = "lock" /\ f.id = calls
    BY DEF Frame
  <2>3. f \in Others
    BY <1>2, <1>5, FrameType
  <2> QED
    BY <1>1, <1>2, <1>4, <2>1, <2>2, <2>3
<1>8. CASE StartStop(t)
  <2>1. PICK kind \in {"start", "stop"} :
          call' = [call EXCEPT ![t] = <<Frame(kind, Off, 0, 0)>>]
    BY <1>8 DEF StartStop
  <2> DEFINE f == Frame(kind, Off, 0, 0)
  <2>2. f.pc = "lock" /\ f.id = 0
    BY DEF Frame
  <2>3. f \in Others
    BY FrameType DEF Levels
  <2> QED
    BY <1>1, <1>2, <1>4, <2>1, <2>2, <2>3
<1> QED
  BY <1>1, <1>6, <1>7, <1>8

-----------------------------------------------------------------------------
(* The invariant *)

\* The log is opened, once, by its owner.
LEMMA OpenShape ==
  ASSUME TypeInv, ConfigInv, sm_log_init_dpath_fname
  PROVE  /\ \A t \in Threads : call[t] = << >>
         /\ call' = call \/ Begins(Owner)
         /\ mutex' = Free /\ calls = 0 /\ calls' = 1 /\ UNCHANGED <<lines, console, clock>>
         /\ \/ config' = Zeroed
            \/ config' = [start |-> FALSE, file |-> "file" \in Outs, out |-> Outs,
                          min |-> MinLevel, max |-> MaxLevel]
<1>1. /\ config = Zeroed /\ calls = 0 /\ calls' = 1 /\ mutex' = Free
      /\ UNCHANGED <<lines, console, clock>>
      /\ \/ /\ config' = [start |-> FALSE, file |-> "file" \in Outs, out |-> Outs,
                          min |-> MinLevel, max |-> MaxLevel]
            /\ call' = [call EXCEPT ![Owner] = <<Frame("start", Off, 0, 0)>>]
         \/ UNCHANGED <<config, call>>
  BY DEF sm_log_init_dpath_fname
<1>2. \A t \in Threads : call[t] = << >>
  BY <1>1 DEF ConfigInv
<1>3. ASSUME call' = [call EXCEPT ![Owner] = <<Frame("start", Off, 0, 0)>>] PROVE Begins(Owner)
  <2> DEFINE f == Frame("start", Off, 0, 0)
  <2>1. f \in Others
    BY FrameType DEF Levels
  <2>2. f.pc = "lock" /\ f.id = 0
    BY DEF Frame
  <2> HIDE DEF f
  <2>3. <<f>> \in Stacks /\ Head(<<f>>) = f /\ Len(<<f>>) = 1
    BY <2>1, StackShape, OneFrame
  <2>4. call \in [Threads -> Stacks] /\ Owner \in Threads
    BY LogAssumption DEF TypeInv
  <2> QED
    BY <1>2, <1>3, <2>2, <2>3, <2>4 DEF Begins, f
<1> QED
  BY <1>1, <1>2, <1>3

\* The kinds of steps.
LEMMA Steps ==
  ASSUME TypeInv, ConfigInv, [Next]_vars
  PROVE  \/ UNCHANGED <<config, mutex, call, lines, console, calls>>
              /\ (clock' = clock \/ clock' = clock + 1)
         \/ sm_log_init_dpath_fname
         \/ sm_log_close
         \/ \E t \in Threads :
              \/ Begins(t) /\ calls' = calls + 1 /\ calls # 0
                   /\ UNCHANGED <<config, mutex, lines, console, clock>>
              \/ Locks(t) \/ Unlocks(t) \/ Works(t) \/ Writes(t)
<1>1. CASE UNCHANGED vars
  BY <1>1 DEF vars
<1>2. CASE Tick
  BY <1>2 DEF Tick
<1>3. ASSUME NEW t \in Threads, Call(t)
      PROVE  Begins(t) /\ calls' = calls + 1 /\ calls # 0
               /\ UNCHANGED <<config, mutex, lines, console, clock>>
  BY <1>3, CallBegins
<1>4. ASSUME NEW t \in Threads, Step(t)
      PROVE  Locks(t) \/ Unlocks(t) \/ Works(t) \/ Writes(t)
  BY <1>4, StepShape
<1> QED
  BY <1>1, <1>2, <1>3, <1>4 DEF Next

\* No call is deeper than two.
LEMMA DepthType == \A s \in Stacks : Depth(s) \in Nat
<1> SUFFICES ASSUME NEW s \in Stacks PROVE Depth(s) \in Nat
  OBVIOUS
<1> QED
  BY StackShape, Depths

\* Who has frames past their lock has the mutex, that often.
LEMMA Holders ==
  ASSUME TypeInv, MutexInv, NEW t \in Threads
  PROVE  /\ Depth(call[t]) \in Nat
         /\ Depth(call[t]) # 0 => mutex.owner = t /\ mutex.count = Depth(call[t])
         /\ mutex.owner = "nobody" => mutex.count = 0 /\ Depth(call[t]) = 0
         /\ mutex.owner = t => mutex.count = Depth(call[t])
<1>1. call[t] \in Stacks /\ t # "nobody"
  BY LogAssumption DEF TypeInv
<1> QED
  BY <1>1, DepthType DEF MutexInv

\* Types are kept.
LEMMA TypeKept ==
  ASSUME TypeInv, ConfigInv, MutexInv, [Next]_vars
  PROVE  TypeInv'
<1> USE DEF TypeInv
<1>1. CASE UNCHANGED <<config, mutex, call, lines, console, calls>>
              /\ (clock' = clock \/ clock' = clock + 1)
  BY <1>1
<1>2. Free \in [owner : Threads \cup {"nobody"}, count : Nat]
  BY DEF Free
<1>3. Zeroed \in [start : BOOLEAN, file : BOOLEAN, out : SUBSET Outs, min : Nat, max : Nat]
  BY DEF Zeroed
<1>4. CASE sm_log_init_dpath_fname
  <2>1. [start |-> FALSE, file |-> "file" \in Outs, out |-> Outs, min |-> MinLevel, max |-> MaxLevel]
          \in [start : BOOLEAN, file : BOOLEAN, out : SUBSET Outs, min : Nat, max : Nat]
    BY LogAssumption
  <2>2. config' \in [start : BOOLEAN, file : BOOLEAN, out : SUBSET Outs, min : Nat, max : Nat]
    BY <1>3, <1>4, <2>1, OpenShape, Zenon
  <2>3. call' \in [Threads -> Stacks]
    BY <1>4, OpenShape DEF Begins
  <2> QED
    BY <1>2, <1>4, <2>2, <2>3, OpenShape
<1>5. CASE sm_log_close
  BY <1>2, <1>3, <1>5 DEF sm_log_close
<1>6. ASSUME NEW t \in Threads, Begins(t), calls' = calls + 1,
             UNCHANGED <<config, mutex, lines, console, clock>>
      PROVE  TypeInv'
  BY <1>6 DEF Begins
<1>7. ASSUME NEW t \in Threads, Locks(t) \/ Unlocks(t) PROVE TypeInv'
  <2>1. mutex' \in [owner : Threads \cup {"nobody"}, count : Nat]
    <3>1. CASE Locks(t)
      BY <1>7, <3>1 DEF Locks
    <3>2. CASE Unlocks(t) /\ mutex.count = 1
      BY <1>2, <3>2 DEF Unlocks
    <3>3. CASE Unlocks(t) /\ mutex.count # 1
      <4>1. mutex' = [mutex EXCEPT !.count = mutex.count - 1]
        BY <3>3 DEF Unlocks
      <4>2. mutex.count # 0
        <5>1. Depth(call[t]) = Depth(call'[t]) + 1 /\ call'[t] \in Stacks
          BY <3>3 DEF Unlocks, Moves
        <5>2. Depth(call[t]) \in Nat /\ Depth(call'[t]) \in Nat
          BY <5>1, Holders, DepthType
        <5> QED
          BY <5>1, <5>2, Holders
      <4> QED
        BY <4>1, <4>2
    <3> QED
      BY <1>7, <3>1, <3>2, <3>3
  <2> QED
    BY <1>7, <2>1 DEF Locks, Unlocks, Moves
<1>8. ASSUME NEW t \in Threads, Works(t) PROVE TypeInv'
  BY <1>8 DEF Works, Moves
<1>9. ASSUME NEW t \in Threads, Writes(t) PROVE TypeInv'
  <2>1. lines' \in Seq(Lines)
    BY <1>9, AppendProperties DEF Writes
  <2> QED
    BY <1>9, <2>1 DEF Writes, Moves
<1> QED
  BY <1>1, <1>4, <1>5, <1>6, <1>7, <1>8, <1>9, Steps

\* The log is opened once; it starts only with something to write to.
LEMMA ConfigKept ==
  ASSUME TypeInv, ConfigInv, MutexInv, [Next]_vars
  PROVE  ConfigInv'
<1> DEFINE O(b) == [start |-> b, file |-> "file" \in Outs, out |-> Outs,
                    min |-> MinLevel, max |-> MaxLevel]
<1>0. /\ config = Zeroed \/ config = O(config.start)
      /\ config.start => config # Zeroed
      /\ calls = 0 => \A t \in Threads : call[t] = << >>
      /\ calls \in Nat /\ config.start \in BOOLEAN
      /\ config \in [start : BOOLEAN, file : BOOLEAN, out : SUBSET Outs, min : Nat, max : Nat]
  BY DEF ConfigInv, TypeInv
<1>1. SUFFICES /\ config' = Zeroed \/ config' = O(config'.start)
               /\ config'.start => config' # Zeroed
               /\ calls' = 0 => \A t \in Threads : call'[t] = << >>
  BY DEF ConfigInv
<1>2. Zeroed.start = FALSE /\ Zeroed.out = {} /\ \A b : O(b).start = b
  BY DEF Zeroed
<1>3. CASE UNCHANGED config /\ (calls' = calls + 1 \/ UNCHANGED <<calls, call>>)
  BY <1>0, <1>3
<1>4. CASE sm_log_init_dpath_fname
  <2>1. config' = Zeroed \/ config' = O(FALSE)
    BY <1>4, OpenShape
  <2>2. calls' = 1
    BY <1>4, OpenShape
  <2>3. config'.start = FALSE
    BY <1>2, <2>1
  <2> QED
    BY <2>1, <2>2, <2>3
<1>5. CASE sm_log_close
  BY <1>0, <1>2, <1>5 DEF sm_log_close
<1>6. ASSUME NEW t \in Threads, Moves(t), UNCHANGED config
      PROVE  /\ config' = Zeroed \/ config' = O(config'.start)
             /\ config'.start => config' # Zeroed
             /\ calls' = 0 => \A u \in Threads : call'[u] = << >>
  BY <1>0, <1>6 DEF Moves
<1>7. ASSUME NEW t \in Threads, Works(t)
      PROVE  /\ config' = Zeroed \/ config' = O(config'.start)
             /\ config'.start => config' # Zeroed
             /\ calls' = 0 => \A u \in Threads : call'[u] = << >>
  <2>1. calls # 0 /\ calls' = calls
    BY <1>0, <1>7 DEF Works, Moves
  <2>2. ASSUME NEW b \in BOOLEAN, config' = [config EXCEPT !.start = b],
               b => config.start \/ config.out # {}
        PROVE  /\ config' = Zeroed \/ config' = O(config'.start)
               /\ config'.start => config' # Zeroed
    <3>1. CASE config = Zeroed
      <4>1. b = FALSE
        BY <1>2, <2>2, <3>1
      <4>2. config' = Zeroed
        BY <2>2, <3>1, <4>1 DEF Zeroed
      <4> QED
        BY <1>2, <4>2
    <3>2. CASE config = O(config.start)
      <4>1. config' = O(b)
        BY <2>2, <3>2
      <4> QED
        BY <1>2, <4>1
    <3> QED
      BY <1>0, <3>1, <3>2
  <2>3. CASE UNCHANGED config
    BY <1>6, <1>7, <2>3 DEF Works
  <2> QED
    BY <1>7, <2>1, <2>2, <2>3 DEF Works
<1>8. CASE \E t \in Threads : Begins(t) /\ calls' = calls + 1 /\ UNCHANGED config
  BY <1>3, <1>8
<1>9. CASE UNCHANGED <<config, mutex, call, lines, console, calls>>
  BY <1>3, <1>9
<1> HIDE DEF O
<1>10. CASE \E t \in Threads : Locks(t) \/ Unlocks(t) \/ Writes(t)
  <2>1. PICK t \in Threads : Locks(t) \/ Unlocks(t) \/ Writes(t)
    BY <1>10
  <2>2. Moves(t) /\ UNCHANGED config
    BY <2>1 DEF Locks, Unlocks, Writes
  <2> QED
    BY <1>6, <2>2
<1> QED
  BY <1>4, <1>5, <1>7, <1>8, <1>9, <1>10, Steps

\* The depth of the mutex is that of its owner's call.
LEMMA MutexKept ==
  ASSUME TypeInv, ConfigInv, MutexInv, [Next]_vars
  PROVE  MutexInv'
<1>0. /\ mutex \in [owner : Threads \cup {"nobody"}, count : Nat]
      /\ call \in [Threads -> Stacks] /\ "nobody" \notin Threads
  BY LogAssumption DEF TypeInv
<1>1. CASE UNCHANGED <<mutex, call>>
  BY <1>1 DEF MutexInv
<1>2. ASSUME \A t \in Threads : Depth(call'[t]) = 0, mutex' = Free PROVE MutexInv'
  BY <1>0, <1>2 DEF MutexInv, Free
<1>3. ASSUME NEW t \in Threads, Begins(t)
      PROVE  \A u \in Threads : Depth(call'[u]) = Depth(call[u])
  <2>1. Depth(call[t]) = 0
    BY <1>3, Depths DEF Begins
  <2>2. Depth(call'[t]) = 0
    BY <1>3 DEF Begins, Depth
  <2> QED
    BY <1>3, <2>1, <2>2 DEF Begins
<1>4. ASSUME \A t \in Threads : Depth(call'[t]) = Depth(call[t]), UNCHANGED mutex
      PROVE  MutexInv'
  BY <1>0, <1>4 DEF MutexInv
<1>5. CASE sm_log_init_dpath_fname
  <2>1. \A t \in Threads : Depth(call[t]) = 0
    BY <1>5, OpenShape, Depths
  <2>2. \A t \in Threads : Depth(call'[t]) = 0
    BY <1>3, <1>5, <2>1, OpenShape, LogAssumption
  <2> QED
    BY <1>2, <1>5, <2>2, OpenShape
<1>6. CASE sm_log_close
  BY <1>2, <1>6, Depths DEF sm_log_close
<1>7. ASSUME NEW t \in Threads, Locks(t) PROVE MutexInv'
  <2>1. /\ mutex.owner \in {"nobody", t} /\ mutex'.owner = t
        /\ mutex'.count = mutex.count + 1
        /\ Depth(call'[t]) = Depth(call[t]) + 1
        /\ \A u \in Threads \ {t} : call'[u] = call[u]
    BY <1>7 DEF Locks, Moves
  <2>2. mutex.count = Depth(call[t]) /\ Depth(call[t]) \in Nat
    BY <2>1, Holders
  <2>3. mutex'.count = Depth(call'[t]) /\ Depth(call'[t]) # 0
    BY <2>1, <2>2
  <2>4. \A u \in Threads \ {t} : Depth(call'[u]) = 0
    BY <1>0, <2>1 DEF MutexInv
  <2> QED
    BY <1>0, <2>1, <2>3, <2>4 DEF MutexInv
<1>8. ASSUME NEW t \in Threads, Unlocks(t) PROVE MutexInv'
  <2>1. /\ mutex' = IF mutex.count = 1 THEN Free ELSE [mutex EXCEPT !.count = mutex.count - 1]
        /\ Depth(call[t]) = Depth(call'[t]) + 1 /\ call'[t] \in Stacks
        /\ \A u \in Threads \ {t} : call'[u] = call[u]
    BY <1>8 DEF Unlocks, Moves
  <2>2. Depth(call[t]) \in Nat /\ Depth(call'[t]) \in Nat
    BY <2>1, Holders, DepthType
  <2>3. Depth(call[t]) # 0
    BY <2>1, <2>2
  <2>4. mutex.owner = t /\ mutex.count = Depth(call[t])
    BY <2>3, Holders
  <2>5. \A u \in Threads \ {t} : Depth(call'[u]) = 0
    BY <1>0, <2>1, <2>4 DEF MutexInv
  <2>6. CASE mutex.count = 1
    <3>1. Depth(call'[t]) = 0
      BY <2>1, <2>2, <2>4, <2>6
    <3> QED
      BY <1>2, <2>1, <2>5, <2>6, <3>1
  <2>7. CASE mutex.count # 1
    <3>1. mutex' = [mutex EXCEPT !.count = mutex.count - 1]
      BY <2>1, <2>7
    <3>2. mutex'.owner = t /\ mutex'.count = Depth(call'[t]) /\ Depth(call'[t]) # 0
      BY <1>0, <2>1, <2>2, <2>4, <2>7, <3>1
    <3> QED
      BY <1>0, <2>5, <3>2 DEF MutexInv
  <2> QED
    BY <2>6, <2>7
<1>9. ASSUME NEW t \in Threads, Works(t) \/ Writes(t) PROVE MutexInv'
  <2>1. \A u \in Threads : Depth(call'[u]) = Depth(call[u])
    BY <1>9 DEF Works, Writes, Moves
  <2> QED
    BY <1>4, <1>9, <2>1 DEF Works, Writes
<1>10. ASSUME NEW t \in Threads, Begins(t), UNCHANGED mutex PROVE MutexInv'
  BY <1>3, <1>4, <1>10
<1> QED
  BY <1>1, <1>5, <1>6, <1>7, <1>8, <1>9, <1>10, Steps

\* Who is about to write has the mutex; nobody else is.
LEMMA WriterHolds ==
  ASSUME TypeInv, MutexInv, NEW t \in Threads, Writing(t)
  PROVE  Depth(call[t]) # 0 /\ mutex.owner = t
<1>1. call[t] # << >> /\ Top(t).pc = "write"
  BY DEF Writing
<1>2. Depth(call[t]) = Len(call[t])
  BY <1>1 DEF Depth, Top
<1>3. Len(call[t]) # 0
  BY <1>1, CallShape, OneFrame, TwoFrames
<1> QED
  BY <1>2, <1>3, Holders

\* A line more.
LEMMA OneMore ==
  ASSUME lines \in Seq(Lines), NEW line \in Lines, lines' = Append(lines, line)
  PROVE  /\ Len(lines) \in Nat /\ Len(lines') = Len(lines) + 1
         /\ \A i \in 1 .. Len(lines) : lines'[i] = lines[i] /\ lines[i] \in Lines
         /\ lines'[Len(lines) + 1] = line
         /\ \A i \in 1 .. Len(lines') : i \in 1 .. Len(lines) \/ i = Len(lines) + 1
         /\ \A i, j \in 1 .. Len(lines') : i < j => i \in 1 .. Len(lines)
<1>1. Len(lines) \in Nat /\ \A i \in 1 .. Len(lines) : lines[i] \in Lines
  BY LenProperties, ElementOfSeq
<1>2. /\ Len(lines') = Len(lines) + 1 /\ lines'[Len(lines) + 1] = line
      /\ \A i \in 1 .. Len(lines) : lines'[i] = lines[i]
  BY AppendProperties
<1> QED
  BY <1>1, <1>2

\* Times stay in order.
LEMMA TimeKept ==
  ASSUME TypeInv, ConfigInv, MutexInv, TimeInv, [Next]_vars
  PROVE  TimeInv'
<1> DEFINE Ready(u) == call[u] # << >> /\ Head(call[u]).pc = "write" =>
             /\ config.start /\ Head(call[u]).time <= clock
             /\ \A i \in 1 .. Len(lines) : lines[i].time <= Head(call[u]).time
<1>0. /\ lines \in Seq(Lines) /\ clock \in Nat /\ Len(lines) \in Nat
      /\ \A i \in 1 .. Len(lines) : lines[i].time \in Nat
      /\ \A i, j \in 1 .. Len(lines) : i < j => lines[i].time <= lines[j].time
      /\ \A i \in 1 .. Len(lines) : lines[i].time <= clock
      /\ \A u \in Threads : Ready(u)
  <2>1. lines \in Seq(Lines) /\ clock \in Nat /\ Len(lines) \in Nat
    BY LenProperties DEF TypeInv
  <2>2. \A i \in 1 .. Len(lines) : lines[i] \in Lines
    BY <2>1, ElementOfSeq
  <2>3. \A i \in 1 .. Len(lines) : lines[i].time \in Nat
    BY <2>2 DEF Lines
  <2> QED
    BY <2>1, <2>3 DEF TimeInv, TimesInOrder, Writing, Top
<1>1. SUFFICES /\ \A i, j \in 1 .. Len(lines') : i < j => lines'[i].time <= lines'[j].time
               /\ \A i \in 1 .. Len(lines') : lines'[i].time <= clock'
               /\ \A u \in Threads : Ready(u)'
  BY DEF TimeInv, TimesInOrder, Writing, Top
<1>2. ASSUME UNCHANGED <<config, call, lines>>, clock' = clock \/ clock' = clock + 1
      PROVE  /\ \A i, j \in 1 .. Len(lines') : i < j => lines'[i].time <= lines'[j].time
             /\ \A i \in 1 .. Len(lines') : lines'[i].time <= clock'
             /\ \A u \in Threads : Ready(u)'
  <2>1. ASSUME NEW u \in Threads, call[u] # << >>, Head(call[u]).pc = "write"
        PROVE  Head(call[u]).time <= clock'
    <3>1. call[u] \in Stacks
      BY DEF TypeInv
    <3>2. Head(call[u]).time \in Nat
      BY <2>1, CallShape DEF Top, Prints, Others, Frames
    <3> QED
      BY <1>0, <1>2, <2>1, <3>2
  <2> QED
    BY <1>0, <1>2, <2>1
<1>3. ASSUME UNCHANGED <<lines, clock>>,
             \A u \in Threads : call'[u] # << >> /\ Head(call'[u]).pc = "write" =>
               \/ call'[u] = call[u] /\ UNCHANGED config
               \/ config'.start /\ Head(call'[u]).time = clock
      PROVE  /\ \A i, j \in 1 .. Len(lines') : i < j => lines'[i].time <= lines'[j].time
             /\ \A i \in 1 .. Len(lines') : lines'[i].time <= clock'
             /\ \A u \in Threads : Ready(u)'
  BY <1>0, <1>3
<1>4. CASE sm_log_init_dpath_fname
  <2>1. ASSUME NEW u \in Threads, call'[u] # << >> PROVE Head(call'[u]).pc # "write"
    BY <1>4, <2>1, OpenShape, LogAssumption DEF Begins
  <2> QED
    BY <1>3, <1>4, <2>1, OpenShape
<1>5. CASE sm_log_close
  BY <1>3, <1>5 DEF sm_log_close
<1>6. CASE \E t \in Threads : Begins(t) /\ UNCHANGED <<config, lines, clock>>
  BY <1>3, <1>6 DEF Begins
<1>7. CASE \E t \in Threads : Locks(t) \/ Unlocks(t)
  BY <1>3, <1>7 DEF Locks, Unlocks, Moves, WillWrite
<1>8. CASE \E t \in Threads : Works(t)
  <2>1. PICK t \in Threads : Works(t)
    BY <1>8
  <2>2. \A u \in Threads \ {t} : ~Writing(u)
    BY <2>1, WriterHolds, Holders DEF Works
  <2>3. /\ \A u \in Threads \ {t} : call'[u] = call[u]
        /\ UNCHANGED <<lines, clock>>
        /\ WillWrite(t) => config.start /\ UNCHANGED config /\ Head(call'[t]).time = clock
    BY <2>1 DEF Works, Moves
  <2> QED
    BY <1>3, <2>2, <2>3 DEF Writing, Top, WillWrite
<1>9. CASE \E t \in Threads : Writes(t)
  <2>1. PICK t \in Threads : Writes(t)
    BY <1>9
  <2>2. /\ \A u \in Threads \ {t} : call'[u] = call[u]
        /\ UNCHANGED <<config, clock>> /\ Writing(t) /\ ~WillWrite(t)
        /\ Line(t) \in Lines /\ lines' \in {lines, Append(lines, Line(t))}
    BY <2>1 DEF Writes, Moves
  <2>3. \A u \in Threads : call'[u] # << >> => Head(call'[u]).pc # "write"
    BY <2>2, WriterHolds DEF Writing, Top, WillWrite
  <2>4. CASE lines' = lines
    BY <1>3, <2>2, <2>3, <2>4
  <2>5. CASE lines' = Append(lines, Line(t))
    <3>1. Line(t).time <= clock /\ \A i \in 1 .. Len(lines) : lines[i].time <= Line(t).time
      BY <1>0, <2>2 DEF Writing, Top, Line
    <3>2. /\ \A i \in 1 .. Len(lines) : lines'[i] = lines[i]
          /\ lines'[Len(lines) + 1] = Line(t)
          /\ \A i \in 1 .. Len(lines') : i \in 1 .. Len(lines) \/ i = Len(lines) + 1
          /\ \A i, j \in 1 .. Len(lines') : i < j => i \in 1 .. Len(lines)
      BY <1>0, <2>2, <2>5, OneMore
    <3>3. \A i \in 1 .. Len(lines') : lines'[i].time <= clock'
      BY <1>0, <2>2, <3>1, <3>2
    <3>4. ASSUME NEW i \in 1 .. Len(lines'), NEW j \in 1 .. Len(lines'), i < j
          PROVE  lines'[i].time <= lines'[j].time
      BY <1>0, <3>1, <3>2, <3>4
    <3> QED
      BY <2>3, <3>3, <3>4
  <2> QED
    BY <2>2, <2>4, <2>5
<1> HIDE DEF Ready
<1> QED
  BY <1>2, <1>4, <1>5, <1>6, <1>7, <1>8, <1>9, Steps

\* Groups stay together.
LEMMA GroupKept ==
  ASSUME TypeInv, ConfigInv, MutexInv, GroupInv, [Next]_vars
  PROVE  GroupInv'
<1> DEFINE Fresh(u)   == \A i \in 1 .. Len(lines) : lines[i].id # Head(call[u]).id
           Last(u)    == \A i, j \in 1 .. Len(lines) :
                           i < j /\ lines[i].id = Head(call[u]).id => lines[j].id = Head(call[u]).id
           Own(u)     == \A v \in Threads \ {u} : call[v] # << >> => Head(call[v]).id # Head(call[u]).id
           Named(u)   == call[u] # << >> /\ Head(call[u]).id # 0
           Known(u)   == Head(call[u]).id < calls
           Grouped(u) == Named(u) => /\ Known(u) /\ Own(u) /\ Last(u)
                                     /\ Depth(call[u]) = 0 => Fresh(u)
           Old        == \A i \in 1 .. Len(lines) : lines[i].id # 0 => lines[i].id < calls
<1>0. /\ GroupsStayTogether /\ Old /\ \A u \in Threads : Grouped(u)
  BY DEF GroupInv, Top
<1>1. SUFFICES GroupsStayTogether' /\ Old' /\ \A u \in Threads : Grouped(u)'
  BY DEF GroupInv, Top
<1>2. /\ lines \in Seq(Lines) /\ calls \in Nat /\ Len(lines) \in Nat
      /\ \A i \in 1 .. Len(lines) : lines[i].id \in Nat
      /\ \A u \in Threads : call[u] # << >> => Head(call[u]).id \in Nat
  <2>1. lines \in Seq(Lines) /\ calls \in Nat /\ Len(lines) \in Nat
    BY LenProperties DEF TypeInv
  <2>2. \A i \in 1 .. Len(lines) : lines[i] \in Lines
    BY <2>1, ElementOfSeq
  <2>3. \A i \in 1 .. Len(lines) : lines[i].id \in Nat
    BY <2>2 DEF Lines
  <2>4. ASSUME NEW u \in Threads, call[u] # << >> PROVE Head(call[u]).id \in Nat
    BY <2>4, CallShape DEF Top, Prints, Others, Frames
  <2> QED
    BY <2>1, <2>3, <2>4
<1>3. CASE UNCHANGED <<lines, call, calls>>
  BY <1>0, <1>3 DEF GroupsStayTogether
<1>4. ASSUME NEW t \in Threads, Begins(t), calls' = calls + 1, UNCHANGED lines
      PROVE  GroupsStayTogether' /\ Old' /\ \A u \in Threads : Grouped(u)'
  <2>1. /\ \A u \in Threads \ {t} : call'[u] = call[u]
        /\ call[t] = << >>
        /\ call'[t] # << >> => Head(call'[t]).id \in {0, calls}
    BY <1>4 DEF Begins
  <2>2. GroupsStayTogether' /\ Old'
    BY <1>0, <1>2, <1>4 DEF GroupsStayTogether
  <2>3. ASSUME Named(t)' PROVE Grouped(t)'
    <3>1. Head(call'[t]).id = calls
      BY <2>1, <2>3
    <3>2. Fresh(t)'
      BY <1>0, <1>2, <1>4, <2>3, <3>1
    <3>3. Own(t)'
      <4>1. \A v \in Threads : Named(v) => Head(call[v]).id # calls
        BY <1>0, <1>2
      <4> QED
        BY <2>1, <2>3, <3>1, <4>1
    <3> QED
      BY <1>2, <1>4, <3>1, <3>2, <3>3
  <2>4. ASSUME NEW u \in Threads \ {t}, Named(u)' PROVE Grouped(u)'
    <3>1. call'[u] = call[u] /\ Named(u) /\ Grouped(u)
      BY <1>0, <2>1, <2>4
    <3>2. Known(u)' /\ Last(u)' /\ (Depth(call'[u]) = 0 => Fresh(u)')
      BY <1>2, <1>4, <3>1
    <3>3. Own(u)'
      <4>1. Head(call[u]).id # 0 /\ Head(call[u]).id # calls
        BY <1>2, <3>1
      <4> QED
        BY <2>1, <3>1, <4>1
    <3> QED
      BY <3>2, <3>3
  <2> QED
    BY <2>2, <2>3, <2>4
<1>5. CASE sm_log_init_dpath_fname
  <2>1. /\ \A u \in Threads : call[u] = << >>
        /\ call' = call \/ Begins(Owner)
        /\ calls' = calls + 1 /\ UNCHANGED lines
    BY <1>5, OpenShape
  <2>2. CASE call' = call
    BY <1>0, <1>2, <2>1, <2>2 DEF GroupsStayTogether
  <2> QED
    BY <1>4, <2>1, <2>2, LogAssumption
<1>6. CASE sm_log_close
  BY <1>3, <1>6 DEF sm_log_close
<1>7. ASSUME NEW t \in Threads, Moves(t), UNCHANGED lines,
             call'[t] # << >> => Depth(call'[t]) # 0
      PROVE  GroupsStayTogether' /\ Old' /\ \A u \in Threads : Grouped(u)'
  <2>1. /\ \A u \in Threads \ {t} : call'[u] = call[u]
        /\ call[t] # << >> /\ calls' = calls
        /\ call'[t] # << >> => Head(call'[t]).id = Head(call[t]).id
    BY <1>7 DEF Moves, Top
  <2>2. GroupsStayTogether' /\ Old'
    BY <1>0, <1>7, <2>1 DEF GroupsStayTogether
  <2>3. \A u \in Threads : call'[u] # << >> =>
          call[u] # << >> /\ Head(call'[u]).id = Head(call[u]).id
    BY <2>1
  <2>4. ASSUME NEW u \in Threads, Named(u)' PROVE Grouped(u)'
    <3>1. Named(u) /\ Grouped(u) /\ Head(call'[u]).id = Head(call[u]).id
      BY <1>0, <2>3, <2>4
    <3>2. Known(u)' /\ Last(u)'
      BY <1>7, <2>1, <3>1
    <3>3. Own(u)'
      BY <2>3, <3>1
    <3>4. Depth(call'[u]) = 0 => Fresh(u)'
      BY <1>7, <2>1, <2>4, <3>1
    <3> QED
      BY <3>2, <3>3, <3>4
  <2> QED
    BY <2>2, <2>4
<1>8. CASE \E t \in Threads : Locks(t) \/ Unlocks(t) \/ Works(t)
  <2>1. PICK t \in Threads : Locks(t) \/ Unlocks(t) \/ Works(t)
    BY <1>8
  <2>2. Moves(t) /\ UNCHANGED lines
    BY <2>1 DEF Locks, Unlocks, Works
  <2>3. call'[t] # << >> => Depth(call'[t]) # 0
    <3>1. CASE Locks(t)
      BY <3>1, Holders DEF Locks
    <3> QED
      BY <2>1, <3>1 DEF Unlocks, Works
  <2> QED
    BY <1>7, <2>2, <2>3
<1>9. ASSUME NEW t \in Threads, Writes(t)
      PROVE  GroupsStayTogether' /\ Old' /\ \A u \in Threads : Grouped(u)'
  <2> DEFINE n == Len(lines) + 1
             id == Head(call[t]).id
  <2>1. /\ Moves(t) /\ Writing(t) /\ call[t] # << >>
        /\ Depth(call'[t]) = Depth(call[t])
        /\ Line(t) \in Lines /\ lines' \in {lines, Append(lines, Line(t))}
    BY <1>9 DEF Writes, Writing
  <2>2. Depth(call[t]) # 0 /\ \A u \in Threads \ {t} : Depth(call[u]) = 0
    BY <2>1, WriterHolds, Holders
  <2>3. CASE lines' = lines
    BY <1>7, <2>1, <2>2, <2>3
  <2>4. CASE lines' = Append(lines, Line(t))
    <3>1. /\ \A i \in 1 .. Len(lines) : lines'[i] = lines[i]
          /\ lines'[n].id = id
          /\ \A i \in 1 .. Len(lines') : i \in 1 .. Len(lines) \/ i = n
          /\ \A i, j \in 1 .. Len(lines') : i < j => i \in 1 .. Len(lines)
      BY <1>2, <2>1, <2>4, OneMore DEF Line, Top
    <3>2. /\ \A u \in Threads \ {t} : call'[u] = call[u]
          /\ calls' = calls
          /\ call'[t] # << >> => Head(call'[t]).id = id
      BY <2>1 DEF Moves, Top
    <3>3. Grouped(t) /\ id \in Nat
      BY <1>0, <1>2, <2>1
    <3> HIDE DEF n, id
    <3>4. Old'
      BY <1>0, <2>1, <3>1, <3>2, <3>3 DEF id
    <3>5. GroupsStayTogether'
      <4> SUFFICES ASSUME NEW i \in 1 .. Len(lines'), NEW j \in 1 .. Len(lines'),
                          NEW k \in 1 .. Len(lines'), i < j, j < k,
                          lines'[i].id = lines'[k].id, lines'[i].id # 0
                   PROVE  lines'[j].id = lines'[i].id
        BY DEF GroupsStayTogether
      <4>1. i \in 1 .. Len(lines) /\ j \in 1 .. Len(lines)
        BY <3>1
      <4>2. CASE k \in 1 .. Len(lines)
        BY <1>0, <3>1, <4>1, <4>2 DEF GroupsStayTogether
      <4>3. CASE k = n
        <5>1. Last(t) /\ lines[i].id = id
          BY <2>1, <3>1, <3>3, <4>1, <4>3 DEF id
        <5> QED
          BY <3>1, <4>1, <5>1 DEF id
      <4> QED
        BY <3>1, <4>2, <4>3
    <3>6. ASSUME NEW u \in Threads, Named(u)' PROVE Grouped(u)'
      <4>1. Named(u) /\ Grouped(u) /\ Head(call'[u]).id = Head(call[u]).id
        BY <1>0, <2>1, <3>2, <3>6 DEF id
      <4>2. Known(u)' /\ Own(u)'
        BY <2>1, <3>2, <4>1 DEF id
      <4>3. CASE u = t
        <5>1. Last(t)'
          BY <3>1, <4>1, <4>3 DEF id
        <5>2. Depth(call'[t]) # 0
          BY <2>1, <2>2
        <5> QED
          BY <4>2, <4>3, <5>1, <5>2
      <4>4. CASE u # t
        <5>1. Fresh(u) /\ id # Head(call[u]).id
          BY <2>1, <2>2, <4>1, <4>4 DEF id
        <5>2. Fresh(u)'
          BY <3>1, <4>1, <5>1
        <5> QED
          BY <4>2, <5>2
      <4> QED
        BY <4>3, <4>4
    <3> QED
      BY <3>4, <3>5, <3>6
  <2> QED
    BY <2>1, <2>3, <2>4
<1> HIDE DEF Grouped, Old
<1>10. CASE \E t \in Threads : Begins(t) /\ calls' = calls + 1 /\ UNCHANGED lines
  BY <1>4, <1>10
<1> QED
  BY <1>3, <1>5, <1>6, <1>8, <1>9, <1>10, Steps

-----------------------------------------------------------------------------
(* The theorems *)

\* Before the log is opened.
LEMMA InvAtFirst == Init => Inv
<1> SUFFICES ASSUME Init PROVE Inv
  OBVIOUS
<1>1. /\ config = Zeroed /\ mutex = Free /\ call = [t \in Threads |-> << >>]
      /\ lines = << >> /\ clock = 0 /\ calls = 0
  BY DEF Init
<1>2. \A t \in Threads : call[t] = << >>
  BY <1>1
<1>3. lines \in Seq(Lines) /\ Len(lines) = 0
  BY <1>1, EmptySeq
<1>4. TypeInv
  <2>1. config \in [start : BOOLEAN, file : BOOLEAN, out : SUBSET Outs, min : Nat, max : Nat]
    BY <1>1 DEF Zeroed
  <2>2. mutex \in [owner : Threads \cup {"nobody"}, count : Nat]
    BY <1>1 DEF Free
  <2>3. call \in [Threads -> Stacks]
    BY <1>1, StackShape
  <2> QED
    BY <1>1, <1>3, <2>1, <2>2, <2>3 DEF TypeInv
<1>5. ConfigInv
  BY <1>1, <1>2 DEF ConfigInv, Zeroed
<1>6. MutexInv
  BY <1>1, <1>2, Depths, LogAssumption DEF MutexInv, Free
<1>7. TimeInv /\ GroupInv
  BY <1>2, <1>3 DEF TimeInv, GroupInv, TimesInOrder, GroupsStayTogether, Writing
<1> QED
  BY <1>4, <1>5, <1>6, <1>7 DEF Inv

\* No step of a thread, of the owner or of the clock breaks the invariant.
THEOREM InvInductive == Inv /\ [Next]_vars => Inv'
BY TypeKept, ConfigKept, MutexKept, TimeKept, GroupKept DEF Inv

\* The invariant holds throughout.
LEMMA Invariance == Spec => []Inv
BY InvAtFirst, InvInductive, PTL DEF Spec

\* The recursive mutex excludes (sm_log_types.h, sm_sync_type_lock): of all calls
\* only one is past its lock.
THEOREM MutexExcludes ==
  Spec => [](\A t, u \in Threads : Depth(call[t]) # 0 /\ Depth(call[u]) # 0 => t = u)
<1>1. Inv => \A t, u \in Threads : Depth(call[t]) # 0 /\ Depth(call[u]) # 0 => t = u
  BY DEF Inv, MutexInv
<1> QED
  BY <1>1, Invariance, PTL

\* The times of the lines never go back, for any number of threads (sm_log_print
\* takes the time under the mutex it writes under).
THEOREM LinesInOrder == Spec => []TimesInOrder
<1>1. Inv => TimesInOrder
  BY DEF Inv, TimeInv
<1> QED
  BY <1>1, Invariance, PTL

\* No line of another thread comes between those of a group (sm_log_types.h), for
\* any number of threads and groups.
THEOREM GroupsTogether == Spec => []GroupsStayTogether
<1>1. Inv => GroupsStayTogether
  BY DEF Inv, GroupInv
<1> QED
  BY <1>1, Invariance, PTL

\* Lines are written only while the log is started, to an open file and at a level
\* the log was opened for, although m_start is first read without the mutex.
THEOREM WritesStarted == Spec => WritesWhileStarted
<1>1. ASSUME Inv, [Next]_vars, lines' # lines \/ console' # console
      PROVE  /\ config.start /\ ("file" \in config.out => config.file)
             /\ \A i \in 1 .. Len(lines') : lines'[i].level \in MinLevel .. MaxLevel \ {Off}
  <2>1. TypeInv /\ ConfigInv /\ MutexInv /\ TimeInv
    BY <1>1 DEF Inv
  <2>2. PICK t \in Threads : Writes(t)
    BY <1>1, <2>1, Steps, OpenShape DEF sm_log_close, Locks, Unlocks, Works
  <2>3. config.start
    BY <2>1, <2>2 DEF Writes, TimeInv
  <2>4. "file" \in config.out => config.file
    <3>1. config = [start |-> config.start, file |-> "file" \in Outs, out |-> Outs,
                    min |-> MinLevel, max |-> MaxLevel]
      BY <2>1, <2>3 DEF ConfigInv
    <3>2. config.file = ("file" \in Outs) /\ config.out = Outs
      BY <3>1
    <3> QED
      BY <3>2
  <2>5. lines' \in Seq(Lines)
    BY <1>1, <2>1, TypeKept DEF TypeInv
  <2>6. \A i \in 1 .. Len(lines') : lines'[i] \in Lines
    BY <2>5, ElementOfSeq
  <2> QED
    BY <2>3, <2>4, <2>6 DEF Lines
<1> QED
  BY <1>1, Invariance, PTL DEF Spec, WritesWhileStarted

=============================================================================
