----------------------------- MODULE MCSeqArith -----------------------------
(***************************************************************************)
(* Every pair of sequence numbers of a small space, as the states of a     *)
(* walk: s1 steps through the numbers (and wraps) while s2 stays, for both *)
(* builds of the overflowing subtraction.                                  *)
(***************************************************************************)
EXTENDS SeqArith

CONSTANT Windows \* the send windows tried

ASSUME WindowsAssumption == Windows \subseteq Nat

VARIABLES s1, s2, wraps, win

vars == <<s1, s2, wraps, win>>

Init ==
  /\ s1 = 0
  /\ s2 \in SeqNums
  /\ wraps \in BOOLEAN
  /\ win \in Windows

\* s1 goes one number up, as local_seq does with every byte sent.
StepUp ==
  /\ s1' = SeqAdd(s1, 1)
  /\ UNCHANGED <<s2, wraps, win>>

Spec == Init /\ [][StepUp]_vars

\* util.c:28-40: wherever no subtraction overflows, and for every pair that
\* crosses zero, compare_u32 is the order of RFC 1982 in both directions.
ComparesLikeRfc1982WhenComparable ==
  Comparable(s1, s2) =>
    /\ compare_u32(wraps, s1, s2) = Rfc1982(s1, s2)
    /\ compare_u32(wraps, s2, s1) = -Rfc1982(s1, s2)

\* tcp.c:145-150: with s2 acknowledged and s1 sent, the window left is what
\* the bytes in flight leave of it, also when they straddle zero, and for any two
\* numbers it never opens beyond the window the app advertised.
WindowIsWhatIsLeft ==
  LET left == get_send_window(wraps, s2, s1, win)
      flying == (s1 - s2) % Mod
  IN  /\ left \in 0 .. win
      /\ Comparable(s1, s2) /\ ~Rfc1982Less(s1, s2)
           => left = (IF flying < win THEN win - flying ELSE 0)

\* util.c:28-40 and tcp.c:145-150: the numbers of a session are compared as what was
\* sent first, and the window that get_send_window computes from that order is the
\* room the app has.
NumbersAndWindowAgree == ComparesLikeRfc1982WhenComparable /\ WindowIsWhatIsLeft
=============================================================================
