--------------------------- MODULE AlgorithmProofs ---------------------------
(***************************************************************************)
(* What the pure functions do for every size of their data: the sequence-  *)
(* number arithmetic, for every number space, the code's 2^32 among them;  *)
(* the memory functions of the safe library, for every place, length and   *)
(* limit; its string functions and its queries on strings, for every       *)
(* memory, place, room and string; the checksums, for every session and    *)
(* payload.  Where a loop has to be followed, the least number of rounds   *)
(* at which it would be wrong is taken and refuted.                        *)
(***************************************************************************)
EXTENDS MCStrings, FiniteSetTheorems, SequenceTheorems, WellFoundedInduction, TLAPS

\* util.c: a uint32_t sum is a sequence number again.
LEMMA SeqAddType ==
  ASSUME NEW s \in Int, NEW n \in Int
  PROVE  SeqAdd(s, n) \in SeqNums
BY HalfAssumption DEF SeqAdd, SeqNums, Mod

\* util.c:28-40: compare_u32 answers -1, 0 or 1, and 0 only for equals.
LEMMA CompareSign ==
  ASSUME NEW w \in BOOLEAN, NEW a \in SeqNums, NEW b \in SeqNums
  PROVE  /\ compare_u32(w, a, b) \in {-1, 0, 1}
         /\ compare_u32(w, a, b) = 0 <=> a = b
BY HalfAssumption DEF compare_u32, SeqNums, Mod

\* Numbers that are comparable do not overflow when they are subtracted.
LEMMA ComparableDiff ==
  ASSUME NEW w \in BOOLEAN, NEW a \in SeqNums, NEW b \in SeqNums,
         Comparable(a, b)
  PROVE  /\ IntDiff(w, ToInt(a), ToInt(b)) = ToInt(a) - ToInt(b)
         /\ IntDiff(w, ToInt(b), ToInt(a)) = ToInt(b) - ToInt(a)
BY HalfAssumption DEF Comparable, IntDiff, ToInt, SeqNums, Mod

\* util.c:28-40: for comparable numbers compare_u32 is the order of RFC 1982,
\* whatever the size of the number space and however the build overflows.
THEOREM CompareIsRfc1982 ==
  ASSUME NEW w \in BOOLEAN, NEW a \in SeqNums, NEW b \in SeqNums,
         Comparable(a, b)
  PROVE  /\ compare_u32(w, a, b) = Rfc1982(a, b)
         /\ compare_u32(w, b, a) = -Rfc1982(a, b)
<1> DEFINE i1 == ToInt(a)
           i2 == ToInt(b)
<1>1. /\ i1 \in Int /\ i2 \in Int
      /\ i1 = i2 => a = b
      /\ i1 - i2 < Half - 1 /\ i2 - i1 < Half - 1
  BY HalfAssumption DEF Comparable, ToInt, SeqNums, Mod
<1>2. /\ IntDiff(w, i1, i2) = i1 - i2
      /\ IntDiff(w, i2, i1) = i2 - i1
  BY ComparableDiff
<1>3. /\ compare_u32(w, a, b) = IF a = b THEN 0 ELSE IF i1 < i2 THEN -1 ELSE 1
      /\ compare_u32(w, b, a) = IF a = b THEN 0 ELSE IF i2 < i1 THEN -1 ELSE 1
  <2> HIDE DEF i1, i2
  <2>1. /\ compare_u32(w, a, b) =
            IF a = b THEN 0
            ELSE IF (i1 < i2 /\ i2 - i1 < Half - 1) \/ (i1 > i2 /\ i1 - i2 > Half - 1)
                 THEN -1 ELSE 1
        /\ compare_u32(w, b, a) =
            IF a = b THEN 0
            ELSE IF (i2 < i1 /\ i1 - i2 < Half - 1) \/ (i2 > i1 /\ i2 - i1 > Half - 1)
                 THEN -1 ELSE 1
    BY <1>2 DEF compare_u32, i1, i2
  <2> QED
    BY <1>1, <2>1, HalfAssumption
<1>4. a # b => (Rfc1982Less(a, b) <=> i1 < i2)
  BY HalfAssumption DEF Rfc1982Less, Comparable, ToInt, SeqNums, Mod
<1> QED
  <2> HIDE DEF i1, i2
  <2> QED
    BY <1>1, <1>3, <1>4 DEF Rfc1982

\* tcp.c:145-150: the send window never exceeds what the app advertised.
THEOREM SendWindowBounded ==
  ASSUME NEW w \in BOOLEAN, NEW acked \in SeqNums, NEW local_seq \in SeqNums,
         NEW send_window \in Nat
  PROVE  get_send_window(w, acked, local_seq, send_window) \in 0 .. send_window
<1> DEFINE behind == IF compare_u32(w, acked, local_seq) <= 0
                     THEN (local_seq - acked) % Mod ELSE acked
<1>1. behind \in SeqNums
  BY HalfAssumption DEF SeqNums, Mod
<1> HIDE DEF behind
<1>2. get_send_window(w, acked, local_seq, send_window) =
        IF behind < send_window THEN send_window - behind ELSE 0
  BY DEF get_send_window, behind
<1> QED
  BY <1>1, <1>2, HalfAssumption DEF SeqNums, Mod

\* The window is send_window less what is in flight, when acked is not ahead.
LEMMA SendWindowLeft ==
  ASSUME NEW w \in BOOLEAN, NEW acked \in SeqNums, NEW local_seq \in SeqNums,
         NEW send_window \in Nat,
         Comparable(local_seq, acked), ~Rfc1982Less(local_seq, acked)
  PROVE  LET flying == (local_seq - acked) % Mod
         IN  get_send_window(w, acked, local_seq, send_window)
               = IF flying < send_window THEN send_window - flying ELSE 0
<1>1. compare_u32(w, acked, local_seq) = -Rfc1982(local_seq, acked)
  BY CompareIsRfc1982
<1>2. Rfc1982(local_seq, acked) \in {0, 1}
  BY DEF Rfc1982
<1>3. compare_u32(w, acked, local_seq) <= 0
  BY <1>1, <1>2
<1> QED
  BY <1>3 DEF get_send_window

\* s1, s2, wraps and win stay in range while s1 steps through the numbers.
WalkType ==
  s1 \in SeqNums /\ s2 \in SeqNums /\ wraps \in BOOLEAN /\ win \in Nat

LEMMA WalkTypeCorrect == Spec => []WalkType
<1>1. Init => WalkType
  BY HalfAssumption, WindowsAssumption DEF Init, WalkType, SeqNums, Mod
<1>2. WalkType /\ [StepUp]_vars => WalkType'
  <2> SUFFICES ASSUME WalkType, [StepUp]_vars PROVE WalkType'
    OBVIOUS
  <2>1. SeqAdd(s1, 1) \in SeqNums
    BY SeqAddType DEF WalkType, SeqNums
  <2>2. CASE StepUp
    BY <2>1, <2>2 DEF WalkType, StepUp
  <2>3. CASE UNCHANGED vars
    BY <2>3 DEF WalkType, vars
  <2> QED
    BY <2>2, <2>3
<1> QED
  BY <1>1, <1>2, PTL DEF Spec

\* util.c:28-40, tcp.c:145-150: numbers are compared as RFC 1982 has them and the send
\* window is what is left of the app's, for every number space and every window.
THEOREM NumbersCorrect == Spec => []NumbersAndWindowAgree
<1>1. WalkType => ComparesLikeRfc1982WhenComparable
  BY CompareIsRfc1982 DEF WalkType, ComparesLikeRfc1982WhenComparable
<1>2. WalkType => WindowIsWhatIsLeft
  BY SendWindowBounded, SendWindowLeft DEF WalkType, WindowIsWhatIsLeft
<1>3. WalkType => NumbersAndWindowAgree
  BY <1>1, <1>2 DEF NumbersAndWindowAgree
<1> QED
  BY <1>3, WalkTypeCorrect, PTL

-----------------------------------------------------------------------------
(* Memory *)

\* A non-empty set of naturals has a least member.
LEMMA LeastNat ==
  ASSUME NEW T, T \subseteq Nat, T # {}
  PROVE  \E i \in T : \A j \in T : i <= j
<1>1. PICK i \in T : \A j \in T : ~(<<j, i>> \in OpToRel(<, Nat))
  BY NatLessThanWellFounded, WFMin
<1>2. ASSUME NEW j \in T PROVE i <= j
  <2>1. i \in Nat /\ j \in Nat
    OBVIOUS
  <2>2. ~(<<j, i>> \in OpToRel(<, Nat))
    BY <1>1
  <2>3. ~(j < i)
    BY <2>1, <2>2 DEF OpToRel
  <2> QED
    BY <2>1, <2>3
<1> QED
  BY <1>2

-----------------------------------------------------------------------------
(* Memory *)

\* How the loops of a move get on: from nothing to everything, never back.
Cuts(done, rounds, len) ==
  /\ rounds \in Nat /\ len \in Nat
  /\ \A i \in 0 .. rounds : done[i] \in 0 .. len
  /\ done[0] = 0 /\ done[rounds] = len
  /\ \A i \in 1 .. rounds : done[i - 1] <= done[i]

\* One more block behind the first c cells of a copy that moves down, or to where it
\* does not come from.
LEMMA BlockAfterBlock ==
  ASSUME NEW m, NEW dp \in Int, NEW sp \in Int, NEW c \in Nat, NEW n \in Nat,
         dp < sp \/ sp + (c + n) <= dp, sp .. sp + c + n - 1 \subseteq DOMAIN m
  PROVE  CopyBlock(CopyBlock(m, dp, sp, c), dp + c, sp + c, n) = CopyBlock(m, dp, sp, c + n)
<1> DEFINE first == CopyBlock(m, dp, sp, c)
<1>1. DOMAIN first = DOMAIN m
      /\ \A a \in DOMAIN m : first[a] = IF a \in dp .. dp + c - 1 THEN m[sp + (a - dp)] ELSE m[a]
  BY DEF CopyBlock
<1>2. ASSUME NEW a \in DOMAIN m
      PROVE  (IF a \in dp + c .. dp + c + n - 1 THEN first[sp + c + (a - (dp + c))] ELSE first[a])
               = IF a \in dp .. dp + (c + n) - 1 THEN m[sp + (a - dp)] ELSE m[a]
  <2> HIDE DEF first
  <2>1. CASE a \in dp + c .. dp + c + n - 1
    <3>1. sp + c + (a - (dp + c)) = sp + (a - dp) /\ a \in dp .. dp + (c + n) - 1
      BY <2>1
    <3>2. sp + (a - dp) \in DOMAIN m /\ sp + (a - dp) \notin dp .. dp + c - 1
      BY <2>1
    <3> QED
      BY <2>1, <3>1, <3>2, <1>1
  <2>2. CASE a \notin dp + c .. dp + c + n - 1
    <3>1. a \in dp .. dp + c - 1 <=> a \in dp .. dp + (c + n) - 1
      BY <2>2
    <3> QED
      BY <2>2, <3>1, <1>1
  <2> QED
    BY <2>1, <2>2
<1> HIDE DEF first
<1>3. CopyBlock(first, dp + c, sp + c, n)
        = [a \in DOMAIN m |-> IF a \in dp + c .. dp + c + n - 1
                              THEN first[sp + c + (a - (dp + c))] ELSE first[a]]
  BY <1>1 DEF CopyBlock
<1>4. CopyBlock(m, dp, sp, c + n)
        = [a \in DOMAIN m |-> IF a \in dp .. dp + (c + n) - 1 THEN m[sp + (a - dp)] ELSE m[a]]
  BY DEF CopyBlock
<1> QED
  BY <1>2, <1>3, <1>4 DEF first

\* The same from the other end, for a copy that moves up.
LEMMA BlockBeforeBlock ==
  ASSUME NEW m, NEW dp \in Int, NEW sp \in Int, sp <= dp,
         NEW c \in Nat, NEW n \in Nat, sp - c - n .. sp - 1 \subseteq DOMAIN m
  PROVE  CopyBlock(CopyBlock(m, dp - c, sp - c, c), dp - (c + n), sp - (c + n), n)
           = CopyBlock(m, dp - (c + n), sp - (c + n), c + n)
<1> DEFINE first == CopyBlock(m, dp - c, sp - c, c)
<1>1. DOMAIN first = DOMAIN m
      /\ \A a \in DOMAIN m :
            first[a] = IF a \in dp - c .. dp - c + c - 1 THEN m[sp - c + (a - (dp - c))] ELSE m[a]
  BY DEF CopyBlock
<1>2. ASSUME NEW a \in DOMAIN m
      PROVE  (IF a \in dp - (c + n) .. dp - (c + n) + n - 1
              THEN first[sp - (c + n) + (a - (dp - (c + n)))] ELSE first[a])
               = IF a \in dp - (c + n) .. dp - (c + n) + (c + n) - 1
                 THEN m[sp - (c + n) + (a - (dp - (c + n)))] ELSE m[a]
  <2> HIDE DEF first
  <2>1. CASE a \in dp - (c + n) .. dp - (c + n) + n - 1
    <3> DEFINE b == sp - (c + n) + (a - (dp - (c + n)))
    <3>1. a \in dp - (c + n) .. dp - (c + n) + (c + n) - 1
      BY <2>1
    <3>2. b \in DOMAIN m /\ b \notin dp - c .. dp - c + c - 1
      BY <2>1
    <3> HIDE DEF b
    <3>3. first[b] = m[b]
      BY <3>2, <1>1
    <3> QED
      BY <2>1, <3>1, <3>3 DEF b
  <2>2. CASE a \in dp - c .. dp - c + c - 1
    <3>1. /\ a \notin dp - (c + n) .. dp - (c + n) + n - 1
          /\ a \in dp - (c + n) .. dp - (c + n) + (c + n) - 1
          /\ sp - c + (a - (dp - c)) = sp - (c + n) + (a - (dp - (c + n)))
      BY <2>2
    <3> QED
      BY <2>2, <3>1, <1>1
  <2>3. CASE a \notin dp - (c + n) .. dp - (c + n) + n - 1 /\ a \notin dp - c .. dp - c + c - 1
    <3>1. a \notin dp - (c + n) .. dp - (c + n) + (c + n) - 1
      BY <2>3
    <3> QED
      BY <2>3, <3>1, <1>1
  <2> QED
    BY <2>1, <2>2, <2>3
<1> HIDE DEF first
<1>3. CopyBlock(first, dp - (c + n), sp - (c + n), n)
        = [a \in DOMAIN m |-> IF a \in dp - (c + n) .. dp - (c + n) + n - 1
                              THEN first[sp - (c + n) + (a - (dp - (c + n)))] ELSE first[a]]
  BY <1>1 DEF CopyBlock
<1>4. CopyBlock(m, dp - (c + n), sp - (c + n), c + n)
        = [a \in DOMAIN m |-> IF a \in dp - (c + n) .. dp - (c + n) + (c + n) - 1
                              THEN m[sp - (c + n) + (a - (dp - (c + n)))] ELSE m[a]]
  BY DEF CopyBlock
<1> QED
  BY <1>2, <1>3, <1>4 DEF first

LEMMA NoBlock ==
  ASSUME NEW m, NEW dp \in Int, NEW sp \in Int, m = [a \in DOMAIN m |-> m[a]]
  PROVE  CopyBlock(m, dp, sp, 0) = m
<1>1. \A a \in DOMAIN m : a \notin dp .. dp + 0 - 1
  OBVIOUS
<1> QED
  BY <1>1 DEF CopyBlock

\* What the loop upwards leaves behind is one copy of all.
LEMMA UpwardsIsACopy ==
  ASSUME NEW m, m = [a \in DOMAIN m |-> m[a]], NEW dp \in Int, NEW sp \in Int,
         NEW done, NEW rounds, NEW len, Cuts(done, rounds, len),
         dp < sp \/ sp + len <= dp, sp .. sp + len - 1 \subseteq DOMAIN m
  PROVE  Upwards(m, dp, sp, done, rounds) = CopyBlock(m, dp, sp, len)
<1> DEFINE Round(g) ==
             [i \in 0 .. rounds |->
                IF i = 0 THEN m
                ELSE CopyBlock(g[i - 1], dp + done[i - 1], sp + done[i - 1],
                               done[i] - done[i - 1])]
           after == CHOOSE g : g = Round(g)
           closed == [i \in 0 .. rounds |-> CopyBlock(m, dp, sp, done[i])]
<1>1. rounds \in Nat /\ len \in Nat /\ 0 \in 0 .. rounds /\ rounds \in 0 .. rounds
  BY DEF Cuts
<1>2. ASSUME NEW i \in 0 .. rounds, i # 0
      PROVE  CopyBlock(CopyBlock(m, dp, sp, done[i - 1]), dp + done[i - 1], sp + done[i - 1],
                       done[i] - done[i - 1]) = CopyBlock(m, dp, sp, done[i])
  <2> DEFINE c == done[i - 1]
             n == done[i] - done[i - 1]
  <2>1. i - 1 \in 0 .. rounds /\ i \in 1 .. rounds
    BY <1>1, <1>2
  <2>2. done[i - 1] \in 0 .. len /\ done[i] \in 0 .. len /\ done[i - 1] <= done[i]
    BY <2>1 DEF Cuts
  <2>3. c \in Nat /\ n \in Nat /\ c + n = done[i] /\ c + n <= len
    BY <2>2, <1>1
  <2>4. sp .. sp + c + n - 1 \subseteq DOMAIN m /\ (dp < sp \/ sp + (c + n) <= dp)
    BY <2>3, <1>1
  <2> HIDE DEF c, n
  <2>5. CopyBlock(CopyBlock(m, dp, sp, c), dp + c, sp + c, n) = CopyBlock(m, dp, sp, c + n)
    BY <2>3, <2>4, BlockAfterBlock
  <2> QED
    BY <2>3, <2>5 DEF c, n
<1>3. closed = Round(closed)
  <2>1. closed[0] = m
    BY <1>1, NoBlock DEF Cuts
  <2>2. ASSUME NEW i \in 0 .. rounds
        PROVE  CopyBlock(m, dp, sp, done[i]) =
                 IF i = 0 THEN m
                 ELSE CopyBlock(closed[i - 1], dp + done[i - 1], sp + done[i - 1],
                                done[i] - done[i - 1])
    <3>1. CASE i = 0
      BY <3>1, NoBlock DEF Cuts
    <3>2. CASE i # 0
      <4>1. i - 1 \in 0 .. rounds
        BY <3>2, <1>1
      <4>2. closed[i - 1] = CopyBlock(m, dp, sp, done[i - 1])
        BY <4>1
      <4> QED
        BY <3>2, <4>2, <1>2
    <3> QED
      BY <3>1, <3>2
  <2> QED
    BY <2>2
<1>4. after = Round(after)
  <2> HIDE DEF Round
  <2> QED
    BY <1>3
<1>5. after[rounds] = closed[rounds]
  <2> DEFINE wrong == {i \in 0 .. rounds : after[i] # closed[i]}
  <2>1. \A i \in 0 .. rounds :
          /\ after[i] = IF i = 0 THEN m
                        ELSE CopyBlock(after[i - 1], dp + done[i - 1], sp + done[i - 1],
                                       done[i] - done[i - 1])
          /\ closed[i] = IF i = 0 THEN m
                         ELSE CopyBlock(closed[i - 1], dp + done[i - 1], sp + done[i - 1],
                                        done[i] - done[i - 1])
    <3> HIDE DEF after, closed
    <3> QED
      BY <1>3, <1>4
  <2> HIDE DEF after, closed
  <2>2. ASSUME wrong # {} PROVE FALSE
    <3>1. wrong \subseteq Nat /\ wrong # {}
      BY <2>2
    <3> HIDE DEF wrong
    <3>2. PICK i \in wrong : \A j \in wrong : i <= j
      BY <3>1, LeastNat
    <3> USE DEF wrong
    <3>3. i # 0 /\ i \in 0 .. rounds
      BY <2>1, <1>1
    <3>4. i - 1 \in 0 .. rounds /\ ~(i <= i - 1)
      BY <3>3, <1>1
    <3>5. after[i - 1] = closed[i - 1]
      BY <3>2, <3>4
    <3> QED
      BY <2>1, <3>3, <3>5
  <2> QED
    BY <2>2, <1>1
<1>6. closed[rounds] = CopyBlock(m, dp, sp, len)
  BY <1>1 DEF Cuts
<1>7. Upwards(m, dp, sp, done, rounds) = after[rounds]
  BY DEF Upwards
<1> QED
  BY <1>5, <1>6, <1>7
\* What the loop downwards leaves behind is one copy of all.
LEMMA DownwardsIsACopy ==
  ASSUME NEW m, m = [a \in DOMAIN m |-> m[a]], NEW dp \in Int, NEW sp \in Int, sp <= dp,
         NEW done, NEW rounds, NEW len, Cuts(done, rounds, len),
         sp - len .. sp - 1 \subseteq DOMAIN m
  PROVE  Downwards(m, dp, sp, done, rounds) = CopyBlock(m, dp - len, sp - len, len)
<1> DEFINE Round(g) ==
             [i \in 0 .. rounds |->
                IF i = 0 THEN m
                ELSE CopyBlock(g[i - 1], dp - done[i], sp - done[i],
                                        done[i] - done[i - 1])]
           after == CHOOSE g : g = Round(g)
           closed == [i \in 0 .. rounds |-> CopyBlock(m, dp - done[i], sp - done[i], done[i])]
<1>1. rounds \in Nat /\ len \in Nat /\ 0 \in 0 .. rounds /\ rounds \in 0 .. rounds
  BY DEF Cuts
<1>2. ASSUME NEW i \in 0 .. rounds, i # 0
      PROVE  CopyBlock(CopyBlock(m, dp - done[i - 1], sp - done[i - 1], done[i - 1]), dp - done[i], sp - done[i],
                                        done[i] - done[i - 1]) = CopyBlock(m, dp - done[i], sp - done[i], done[i])
  <2> DEFINE c == done[i - 1]
             n == done[i] - done[i - 1]
  <2>1. i - 1 \in 0 .. rounds /\ i \in 1 .. rounds
    BY <1>1, <1>2
  <2>2. done[i - 1] \in 0 .. len /\ done[i] \in 0 .. len /\ done[i - 1] <= done[i]
    BY <2>1 DEF Cuts
  <2>3. c \in Nat /\ n \in Nat /\ c + n = done[i] /\ c + n <= len
    BY <2>2, <1>1
  <2>4. sp - c - n .. sp - 1 \subseteq DOMAIN m
    BY <2>3, <1>1
  <2> HIDE DEF c, n
  <2>5. CopyBlock(CopyBlock(m, dp - c, sp - c, c), dp - (c + n), sp - (c + n), n)
          = CopyBlock(m, dp - (c + n), sp - (c + n), c + n)
    BY <2>3, <2>4, BlockBeforeBlock
  <2> QED
    BY <2>3, <2>5 DEF c, n
<1>3. closed = Round(closed)
  <2>1. closed[0] = m
    BY <1>1, NoBlock DEF Cuts
  <2>2. ASSUME NEW i \in 0 .. rounds
        PROVE  CopyBlock(m, dp - done[i], sp - done[i], done[i]) =
                 IF i = 0 THEN m
                 ELSE CopyBlock(closed[i - 1], dp - done[i], sp - done[i],
                                        done[i] - done[i - 1])
    <3>1. CASE i = 0
      BY <3>1, NoBlock DEF Cuts
    <3>2. CASE i # 0
      <4>1. i - 1 \in 0 .. rounds
        BY <3>2, <1>1
      <4>2. closed[i - 1] = CopyBlock(m, dp - done[i - 1], sp - done[i - 1], done[i - 1])
        BY <4>1
      <4> QED
        BY <3>2, <4>2, <1>2
    <3> QED
      BY <3>1, <3>2
  <2> QED
    BY <2>2
<1>4. after = Round(after)
  <2> HIDE DEF Round
  <2> QED
    BY <1>3
<1>5. after[rounds] = closed[rounds]
  <2> DEFINE wrong == {i \in 0 .. rounds : after[i] # closed[i]}
  <2>1. \A i \in 0 .. rounds :
          /\ after[i] = IF i = 0 THEN m
                        ELSE CopyBlock(after[i - 1], dp - done[i], sp - done[i],
                                        done[i] - done[i - 1])
          /\ closed[i] = IF i = 0 THEN m
                         ELSE CopyBlock(closed[i - 1], dp - done[i], sp - done[i],
                                        done[i] - done[i - 1])
    <3> HIDE DEF after, closed
    <3> QED
      BY <1>3, <1>4
  <2> HIDE DEF after, closed
  <2>2. ASSUME wrong # {} PROVE FALSE
    <3>1. wrong \subseteq Nat /\ wrong # {}
      BY <2>2
    <3> HIDE DEF wrong
    <3>2. PICK i \in wrong : \A j \in wrong : i <= j
      BY <3>1, LeastNat
    <3> USE DEF wrong
    <3>3. i # 0 /\ i \in 0 .. rounds
      BY <2>1, <1>1
    <3>4. i - 1 \in 0 .. rounds /\ ~(i <= i - 1)
      BY <3>3, <1>1
    <3>5. after[i - 1] = closed[i - 1]
      BY <3>2, <3>4
    <3> QED
      BY <2>1, <3>3, <3>5
  <2> QED
    BY <2>2, <1>1
<1>6. closed[rounds] = CopyBlock(m, dp - len, sp - len, len)
  BY <1>1 DEF Cuts
<1>7. Downwards(m, dp, sp, done, rounds) = after[rounds]
  BY DEF Downwards
<1> QED
  BY <1>5, <1>6, <1>7

\* safe_mem_primitives_lib.c:350-394: single bytes, words and single bytes again are all of them.
LEMMA DoneCuts ==
  ASSUME NEW len \in Nat, NEW head \in 0 .. len
  PROVE  Cuts(Done(head, len), Rounds(head, len), len)
<1> DEFINE words == (len - head) \div Word
           tail == (len - head) % Word
           rounds == Rounds(head, len)
           done == Done(head, len)
<1>1. /\ words \in Nat /\ tail \in 0 .. 3 /\ head + 4 * words + tail = len
      /\ rounds = head + words + tail /\ rounds \in Nat
  BY DEF Word, Rounds
<1>2. \A i \in 0 .. rounds :
         done[i] = IF i <= head THEN i
                   ELSE IF i <= head + words THEN head + 4 * (i - head)
                   ELSE head + 4 * words + (i - head - words)
  BY DEF Done, Word
<1> HIDE DEF words, tail, rounds, done
<1>3. \A i \in 0 .. rounds : done[i] \in 0 .. len
  BY <1>1, <1>2
<1>4. done[0] = 0 /\ done[rounds] = len
  BY <1>1, <1>2
<1>5. ASSUME NEW i \in 1 .. rounds PROVE done[i - 1] <= done[i]
  <2>1. i \in 0 .. rounds /\ i - 1 \in 0 .. rounds
    BY <1>1
  <2>2. /\ done[i] = IF i <= head THEN i
                   ELSE IF i <= head + words THEN head + 4 * (i - head)
                   ELSE head + 4 * words + (i - head - words)
        /\ done[i - 1] = IF i - 1 <= head THEN i - 1
                   ELSE IF i - 1 <= head + words THEN head + 4 * (i - 1 - head)
                   ELSE head + 4 * words + (i - 1 - head - words)
    BY <2>1, <1>2
  <2> QED
    BY <2>1, <2>2, <1>1
<1> QED
  BY <1>1, <1>3, <1>4, <1>5 DEF Cuts, rounds, done

LEMMA HeadsFit ==
  ASSUME NEW dp \in Nat, NEW sp \in Nat, NEW len \in Nat
  PROVE  HeadUpwards(dp, sp, len) \in 0 .. len /\ HeadDownwards(dp, sp, len) \in 0 .. len
BY DEF HeadUpwards, HeadDownwards, Aligned, Word

\* A memory as a function; where a pointer may point to n cells of it.
Memory(m) == m = [a \in DOMAIN m |-> m[a]]
Within(m, p, n) == p \in Nat /\ p .. p + n - 1 \subseteq DOMAIN m

LEMMA MoveUpwardsIsACopy ==
  ASSUME NEW m, Memory(m), NEW dp \in Nat, NEW sp \in Nat, NEW len \in Nat,
         dp < sp \/ sp + len <= dp, Within(m, sp, len), NEW head \in 0 .. len
  PROVE  MoveUpwards(m, dp, sp, len, head) = CopyBlock(m, dp, sp, len)
<1>1. Cuts(Done(head, len), Rounds(head, len), len)
  BY DoneCuts
<1> QED
  BY <1>1, UpwardsIsACopy DEF MoveUpwards, Memory, Within

LEMMA MoveDownwardsIsACopy ==
  ASSUME NEW m, Memory(m), NEW dest \in Nat, NEW src \in Nat, src <= dest,
         NEW len \in Nat, Within(m, src, len), NEW head \in 0 .. len
  PROVE  MoveDownwards(m, dest + len, src + len, len, head) = CopyBlock(m, dest, src, len)
<1> DEFINE dp == dest + len
           sp == src + len
<1>1. Cuts(Done(head, len), Rounds(head, len), len)
  BY DoneCuts
<1>2. /\ dp \in Int /\ sp \in Int /\ sp <= dp /\ dp - len = dest /\ sp - len = src
      /\ sp - len .. sp - 1 \subseteq DOMAIN m
  BY DEF Within
<1> HIDE DEF dp, sp
<1>3. Downwards(m, dp, sp, Done(head, len), Rounds(head, len))
        = CopyBlock(m, dp - len, sp - len, len)
  BY <1>1, <1>2, DownwardsIsACopy DEF Memory
<1>4. MoveDownwards(m, dp, sp, len, head) = CopyBlock(m, dest, src, len)
  BY <1>2, <1>3 DEF MoveDownwards
<1> QED
  BY <1>4 DEF dp, sp

\* safe_mem_primitives_lib.c:321-463, 494-594: a move leaves at dest what was at src before
\* it began, wherever the two are.
THEOREM MoveIsACopy ==
  ASSUME NEW m, Memory(m), NEW dest \in Nat, NEW src \in Nat, NEW len \in Nat,
         Within(m, src, len)
  PROVE  /\ prim_move(m, dest, src, len) = CopyBlock(m, dest, src, len)
         /\ prim_move_cells(m, dest, src, len) = CopyBlock(m, dest, src, len)
<1>1. len \in 0 .. len /\ dest + len \in Nat /\ src + len \in Nat
  OBVIOUS
<1>2. CASE dest < src
  <2>1. HeadUpwards(dest, src, len) \in 0 .. len
    BY HeadsFit
  <2>2. MoveUpwards(m, dest, src, len, HeadUpwards(dest, src, len)) = CopyBlock(m, dest, src, len)
    BY <1>2, <2>1, MoveUpwardsIsACopy
  <2>3. MoveUpwards(m, dest, src, len, len) = CopyBlock(m, dest, src, len)
    BY <1>1, <1>2, MoveUpwardsIsACopy
  <2> QED
    BY <1>2, <2>2, <2>3 DEF prim_move, prim_move_cells
<1>3. CASE ~(dest < src)
  <2> DEFINE head == HeadDownwards(dest + len, src + len, len)
  <2>1. src <= dest
    BY <1>3
  <2>2. head \in 0 .. len
    <3> DEFINE dp == dest + len
               sp == src + len
    <3>1. dp \in Nat /\ sp \in Nat
      BY <1>1
    <3> HIDE DEF dp, sp
    <3>2. HeadDownwards(dp, sp, len) \in 0 .. len
      BY <3>1, HeadsFit
    <3> QED
      BY <3>2 DEF dp, sp
  <2>3. prim_move(m, dest, src, len) = MoveDownwards(m, dest + len, src + len, len, head)
    BY <1>3 DEF prim_move
  <2> HIDE DEF head
  <2>4. MoveDownwards(m, dest + len, src + len, len, head) = CopyBlock(m, dest, src, len)
    BY <2>1, <2>2, MoveDownwardsIsACopy
  <2>5. MoveDownwards(m, dest + len, src + len, len, len) = CopyBlock(m, dest, src, len)
    BY <1>1, <2>1, MoveDownwardsIsACopy
  <2> QED
    BY <1>3, <2>3, <2>4, <2>5 DEF prim_move_cells
<1> QED
  BY <1>2, <1>3

\* safe_mem_primitives_lib.c:67-148: bytes up to the word, words and the rest are len cells.
LEMMA SetIsSetOfCells ==
  ASSUME NEW m, NEW dest \in Nat, NEW len \in Nat, NEW value
  PROVE  prim_set(m, dest, len, value) = prim_set_cells(m, dest, len, value)
<1> DEFINE head == IF dest % Word = 0 THEN 0
                   ELSE IF len < Word - (dest % Word) THEN len ELSE Word - (dest % Word)
           words == (len - head) \div Word
           tail == (len - head) % Word
<1>1. head \in 0 .. len
  BY DEF Word
<1>2. prim_set(m, dest, len, value)
        = [a \in DOMAIN m |-> IF a \in dest .. dest + head + Word * words + tail - 1
                              THEN value ELSE m[a]]
  BY DEF prim_set
<1> HIDE DEF head
<1>3. dest + head + Word * words + tail - 1 = dest + len - 1
  BY <1>1 DEF Word
<1> QED
  BY <1>2, <1>3 DEF prim_set_cells

-----------------------------------------------------------------------------
(* The first check that fires *)

LEMMA FirstCheck ==
  ASSUME NEW checks, Len(checks) \in Nat, NEW i \in 1 .. Len(checks), checks[i] # "EOK",
         \A j \in 1 .. Len(checks) : j < i => checks[j] = "EOK"
  PROVE  FirstError(checks) = checks[i]
<1> DEFINE fire == {k \in 1 .. Len(checks) : checks[k] # "EOK"}
           first == IF fire # {} THEN Min(fire) ELSE 0
<1>1. i \in fire /\ \A k \in fire : i <= k
  OBVIOUS
<1>2. FirstError(checks) = IF first = 0 THEN "EOK" ELSE checks[first]
  BY DEF FirstError, SelectInSeq
<1>3. fire \subseteq Nat
  OBVIOUS
<1> HIDE DEF fire
<1>4. Min(fire) = i
  <2>1. \A k \in fire : (\A l \in fire : k <= l) => k = i
    BY <1>1, <1>3
  <2> QED
    BY <1>1, <2>1 DEF Min
<1> QED
  BY <1>1, <1>2, <1>4

LEMMA NoCheck ==
  ASSUME NEW checks, \A j \in 1 .. Len(checks) : checks[j] = "EOK"
  PROVE  FirstError(checks) = "EOK"
<1> DEFINE fire == {k \in 1 .. Len(checks) : checks[k] # "EOK"}
<1>1. fire = {}
  OBVIOUS
<1> QED
  BY <1>1 DEF FirstError, SelectInSeq

LEMMA FirstOfThree ==
  ASSUME NEW a, NEW b, NEW c
  PROVE  FirstError(<<a, b, c>>) = IF a # "EOK" THEN a ELSE IF b # "EOK" THEN b ELSE c
<1> DEFINE checks == <<a, b, c>>
<1>1. Len(checks) = 3 /\ checks[1] = a /\ checks[2] = b /\ checks[3] = c
  OBVIOUS
<1>2. \A j \in 1 .. 3 : j = 1 \/ j = 2 \/ j = 3
  OBVIOUS
<1> HIDE DEF checks
<1>3. CASE a # "EOK"
  BY <1>1, <1>2, <1>3, FirstCheck
<1>4. CASE a = "EOK" /\ b # "EOK"
  BY <1>1, <1>2, <1>4, FirstCheck
<1>5. CASE a = "EOK" /\ b = "EOK" /\ c # "EOK"
  BY <1>1, <1>2, <1>5, FirstCheck
<1>6. CASE a = "EOK" /\ b = "EOK" /\ c = "EOK"
  BY <1>1, <1>2, <1>6, NoCheck
<1> QED
  BY <1>3, <1>4, <1>5, <1>6 DEF checks

LEMMA FirstOfFour ==
  ASSUME NEW a, NEW b, NEW c, NEW d
  PROVE  FirstError(<<a, b, c, d>>) =
           IF a # "EOK" THEN a ELSE IF b # "EOK" THEN b ELSE IF c # "EOK" THEN c ELSE d
<1> DEFINE checks == <<a, b, c, d>>
<1>1. Len(checks) = 4 /\ checks[1] = a /\ checks[2] = b /\ checks[3] = c /\ checks[4] = d
  OBVIOUS
<1>2. \A j \in 1 .. 4 : j = 1 \/ j = 2 \/ j = 3 \/ j = 4
  OBVIOUS
<1> HIDE DEF checks
<1>3. CASE a # "EOK"
  BY <1>1, <1>2, <1>3, FirstCheck
<1>4. CASE a = "EOK" /\ b # "EOK"
  BY <1>1, <1>2, <1>4, FirstCheck
<1>5. CASE a = "EOK" /\ b = "EOK" /\ c # "EOK"
  BY <1>1, <1>2, <1>5, FirstCheck
<1>6. CASE a = "EOK" /\ b = "EOK" /\ c = "EOK" /\ d # "EOK"
  BY <1>1, <1>2, <1>6, FirstCheck
<1>7. CASE a = "EOK" /\ b = "EOK" /\ c = "EOK" /\ d = "EOK"
  BY <1>1, <1>2, <1>7, NoCheck
<1> QED
  BY <1>3, <1>4, <1>5, <1>6, <1>7 DEF checks

LEMMA UnusableIs ==
  ASSUME NEW dest, NEW dmax, NEW max
  PROVE  Unusable(dest, dmax, max) =
           IF dest = Null THEN "ESNULLP" ELSE IF dmax = 0 THEN "ESZEROL"
           ELSE IF dmax > max THEN "ESLEMAX" ELSE "EOK"
<1>1. Unusable(dest, dmax, max) =
        LET a == Check(dest = Null, "ESNULLP")
            b == Check(dmax = 0, "ESZEROL")
        IN IF a # "EOK" THEN a ELSE IF b # "EOK" THEN b ELSE Check(dmax > max, "ESLEMAX")
  BY FirstOfThree DEF Unusable
<1> QED
  BY <1>1 DEF Check

LEMMA CopyErrorIs ==
  ASSUME NEW overlaps \in BOOLEAN, NEW dmax, NEW src, NEW smax
  PROVE  CopyError(overlaps, dmax, src, smax) =
           IF smax = 0 THEN "ESZEROL" ELSE IF smax > dmax THEN "ESLEMAX"
           ELSE IF src = Null THEN "ESNULLP" ELSE IF overlaps THEN "ESOVRLP" ELSE "EOK"
<1>1. CopyError(overlaps, dmax, src, smax) =
        LET a == Check(smax = 0, "ESZEROL")
            b == Check(smax > dmax, "ESLEMAX")
            c == Check(src = Null, "ESNULLP")
        IN IF a # "EOK" THEN a ELSE IF b # "EOK" THEN b ELSE IF c # "EOK" THEN c
           ELSE Check(overlaps, "ESOVRLP")
  BY FirstOfFour DEF CopyError
<1> QED
  BY <1>1 DEF Check

\* What Moved gives once the primitives are known to be a fill and a copy.
Outcome(m, dest, dmax, src, smax, max, overlaps) ==
  IF Unusable(dest, dmax, max) # "EOK" THEN [mem |-> m, err |-> Unusable(dest, dmax, max)]
  ELSE IF CopyError(overlaps, dmax, src, smax) # "EOK"
       THEN [mem |-> prim_set_cells(m, dest, dmax, 0), err |-> CopyError(overlaps, dmax, src, smax)]
  ELSE [mem |-> CopyBlock(m, dest, src, smax), err |-> "EOK"]

LEMMA OutcomeKept ==
  ASSUME NEW m, Memory(m), NEW dest \in Nat, NEW src \in Nat, NEW dmax \in Nat, NEW smax \in Nat,
         Within(m, dest, dmax), Within(m, src, smax), NEW max \in Nat, NEW overlaps \in BOOLEAN
  PROVE  CopyKept(m, Outcome(m, dest, dmax, src, smax, max, overlaps), dest, dmax, src, smax,
                  dmax \in 1 .. max /\ smax \in 1 .. dmax /\ ~overlaps)
<1> DEFINE r == Outcome(m, dest, dmax, src, smax, max, overlaps)
           unusable == Unusable(dest, dmax, max)
           error == CopyError(overlaps, dmax, src, smax)
           may == dmax \in 1 .. max /\ smax \in 1 .. dmax /\ ~overlaps
           cleared == prim_set_cells(m, dest, dmax, 0)
           copied == CopyBlock(m, dest, src, smax)
<1>1. dest # Null /\ src # Null
  BY DEF Null
<1>2. unusable = IF dmax = 0 THEN "ESZEROL" ELSE IF dmax > max THEN "ESLEMAX" ELSE "EOK"
  BY <1>1, UnusableIs
<1>3. error = IF smax = 0 THEN "ESZEROL" ELSE IF smax > dmax THEN "ESLEMAX"
              ELSE IF overlaps THEN "ESOVRLP" ELSE "EOK"
  BY <1>1, CopyErrorIs
<1>4. r = IF unusable # "EOK" THEN [mem |-> m, err |-> unusable]
          ELSE IF error # "EOK" THEN [mem |-> cleared, err |-> error]
          ELSE [mem |-> copied, err |-> "EOK"]
  BY DEF Outcome
<1>5. cleared = [a \in DOMAIN m |-> IF a \in dest .. dest + dmax - 1 THEN 0 ELSE m[a]]
  BY DEF prim_set_cells
<1>6. copied = [a \in DOMAIN m |-> IF a \in dest .. dest + smax - 1 THEN m[src + (a - dest)] ELSE m[a]]
  BY DEF CopyBlock
<1>7. Unchanged(m, m, Cells(dest, dmax)) /\ Unchanged(m, cleared, Cells(dest, dmax))
  BY <1>5 DEF Unchanged, Cells
<1>8. Unchanged(m, copied, Cells(dest, smax))
  BY <1>6 DEF Unchanged, Cells
<1>9. \A a \in Cells(dest, dmax) : cleared[a] = 0
  BY <1>5 DEF Cells, Within
<1>10. ASSUME smax <= dmax
      PROVE  /\ Unchanged(m, copied, Cells(dest, dmax))
             /\ \A k \in 0 .. smax - 1 : copied[dest + k] = m[src + k]
  <2>1. Cells(dest, smax) \subseteq Cells(dest, dmax)
    BY <1>10 DEF Cells
  <2>2. ASSUME NEW k \in 0 .. smax - 1 PROVE copied[dest + k] = m[src + k]
    <3>1. dest + k \in DOMAIN m /\ dest + k \in dest .. dest + smax - 1 /\ (dest + k) - dest = k
      BY <1>10 DEF Within
    <3> QED
      BY <3>1, <1>6
  <2> QED
    BY <2>1, <2>2, <1>8 DEF Unchanged
<1> HIDE DEF unusable, error, cleared, copied, r
<1>11. CASE unusable # "EOK"
  <2>1. r.mem = m /\ r.err = unusable /\ ~may
    BY <1>2, <1>4, <1>11
  <2>2. r.err # "EOK" /\ r.err \in {"EOK", "ESZEROL", "ESLEMAX"}
    BY <2>1, <1>2, <1>11
  <2> QED
    BY <2>1, <2>2, <1>7 DEF CopyKept, r
<1>12. CASE unusable = "EOK" /\ error # "EOK"
  <2>1. r.mem = cleared /\ r.err = error /\ r.err # "EOK"
    BY <1>4, <1>12
  <2>2. ~may
    BY <1>3, <1>12
  <2> QED
    BY <2>1, <2>2, <1>7, <1>9 DEF CopyKept, r
<1>13. CASE unusable = "EOK" /\ error = "EOK"
  <2>1. r.mem = copied /\ r.err = "EOK"
    BY <1>4, <1>13
  <2>2. may /\ smax <= dmax
    BY <1>2, <1>3, <1>13
  <2> QED
    BY <2>1, <2>2, <1>8, <1>10 DEF CopyKept, r
<1> QED
  BY <1>11, <1>12, <1>13

LEMMA OverlapsIs ==
  ASSUME NEW dest \in Nat, NEW src \in Nat, NEW dmax \in Nat, NEW smax \in Nat,
         smax \in 1 .. dmax
  PROVE  ~Overlaps(dest, dmax, src, smax) <=> Apart(dest, dmax, src, smax)
<1>1. CASE dest = src
  BY <1>1 DEF Overlaps, Apart
<1>2. CASE dest < src
  <2>1. src < dest + dmax => src \in Cells(dest, dmax) /\ src \in Cells(src, smax)
    BY <1>2 DEF Cells
  <2>2. ~(src < dest + dmax) => Cells(dest, dmax) \cap Cells(src, smax) = {}
    BY <1>2 DEF Cells
  <2> QED
    BY <1>2, <2>1, <2>2 DEF Overlaps, Apart
<1>3. CASE src < dest
  <2>1. dest < src + smax => dest \in Cells(dest, dmax) /\ dest \in Cells(src, smax)
    BY <1>3 DEF Cells
  <2>2. ~(dest < src + smax) => Cells(dest, dmax) \cap Cells(src, smax) = {}
    BY <1>3 DEF Cells
  <2> QED
    BY <1>3, <2>1, <2>2 DEF Overlaps, Apart
<1> QED
  BY <1>1, <1>2, <1>3

LEMMA LimitsAreNat == MaxMem \in Nat /\ MaxMem \div 2 \in Nat /\ MaxMem \div 4 \in Nat
BY MemoryAssumption

\* safe_memcpy*.c, safe_memmove*.c and their wide forms.
THEOREM CopiesAreKept ==
  ASSUME NEW m, Memory(m), NEW dest \in Nat, NEW src \in Nat, NEW dmax \in Nat, NEW smax \in Nat,
         Within(m, dest, dmax), Within(m, src, smax)
  PROVE  CopiesKept(m, dest, dmax, src, smax)
<1> DEFINE overlaps == Overlaps(dest, dmax, src, smax)
           apart == Apart(dest, dmax, src, smax)
           Result(max, refused) == Outcome(m, dest, dmax, src, smax, max, refused)
           Promised(r, max, free) ==
             CopyKept(m, r, dest, dmax, src, smax, dmax \in 1 .. max /\ smax \in 1 .. dmax /\ free)
<1>1. overlaps \in BOOLEAN /\ FALSE \in BOOLEAN
  BY DEF Overlaps
<1>2. /\ prim_set(m, dest, dmax, 0) = prim_set_cells(m, dest, dmax, 0)
      /\ prim_set16(m, dest, dmax, 0) = prim_set_cells(m, dest, dmax, 0)
      /\ prim_set32(m, dest, dmax, 0) = prim_set_cells(m, dest, dmax, 0)
  BY SetIsSetOfCells DEF prim_set16, prim_set32
<1>3. /\ prim_move(m, dest, src, smax) = CopyBlock(m, dest, src, smax)
      /\ prim_move_cells(m, dest, src, smax) = CopyBlock(m, dest, src, smax)
      /\ prim_move16(m, dest, src, smax) = CopyBlock(m, dest, src, smax)
      /\ prim_move32(m, dest, src, smax) = CopyBlock(m, dest, src, smax)
  BY MoveIsACopy DEF prim_move16, prim_move32
<1>4. /\ safe_memcpy(m, dest, dmax, src, smax) = Result(MaxMem, overlaps)
      /\ safe_memmove(m, dest, dmax, src, smax) = Result(MaxMem, FALSE)
  BY <1>2, <1>3, Zenon DEF safe_memcpy, safe_memmove, Moved, Outcome
<1>5. /\ safe_memcpy16(m, dest, dmax, src, smax) = Result(MaxMem \div 2, overlaps)
      /\ safe_memmove16(m, dest, dmax, src, smax) = Result(MaxMem \div 2, FALSE)
  BY <1>2, <1>3, Zenon DEF safe_memcpy16, safe_memmove16, Moved, Outcome
<1>6. /\ safe_memcpy32(m, dest, dmax, src, smax) = Result(MaxMem \div 4, overlaps)
      /\ safe_memmove32(m, dest, dmax, src, smax) = Result(MaxMem \div 4, FALSE)
  BY <1>2, <1>3, Zenon DEF safe_memcpy32, safe_memmove32, Moved, Outcome
<1>7. /\ safe_wmemcpy(m, dest, dmax, src, smax) = Result(MaxMem, overlaps)
      /\ safe_wmemmove(m, dest, dmax, src, smax) = Result(MaxMem \div 4, FALSE)
  BY <1>2, <1>3, Zenon DEF safe_wmemcpy, safe_wmemmove, Moved, Outcome
<1>8. ASSUME NEW max \in Nat
      PROVE  Promised(Result(max, overlaps), max, apart) /\ Promised(Result(max, FALSE), max, TRUE)
  <2>1. (dmax \in 1 .. max /\ smax \in 1 .. dmax /\ ~overlaps)
          <=> (dmax \in 1 .. max /\ smax \in 1 .. dmax /\ apart)
    BY OverlapsIs
  <2>2. Promised(Result(max, overlaps), max, ~overlaps)
    BY <1>1, OutcomeKept
  <2>3. Promised(Result(max, FALSE), max, ~FALSE)
    BY <1>1, OutcomeKept
  <2> QED
    BY <2>1, <2>2, <2>3 DEF CopyKept
<1> HIDE DEF overlaps, apart, Result, Promised
<1>9. /\ Promised(safe_memcpy(m, dest, dmax, src, smax), MaxMem, apart)
      /\ Promised(safe_memcpy16(m, dest, dmax, src, smax), MaxMem \div 2, apart)
      /\ Promised(safe_memcpy32(m, dest, dmax, src, smax), MaxMem \div 4, apart)
      /\ Promised(safe_wmemcpy(m, dest, dmax, src, smax), MaxMem, apart)
  BY <1>4, <1>5, <1>6, <1>7, <1>8, LimitsAreNat
<1>10. /\ Promised(safe_memmove(m, dest, dmax, src, smax), MaxMem, TRUE)
      /\ Promised(safe_memmove16(m, dest, dmax, src, smax), MaxMem \div 2, TRUE)
      /\ Promised(safe_memmove32(m, dest, dmax, src, smax), MaxMem \div 4, TRUE)
      /\ Promised(safe_wmemmove(m, dest, dmax, src, smax), MaxMem \div 4, TRUE)
  BY <1>4, <1>5, <1>6, <1>7, <1>8, LimitsAreNat
<1> QED
  BY <1>9, <1>10 DEF CopiesKept, Promised, apart

\* safe_memset*.c, safe_memzero*.c, safe_wmemset.c.
THEOREM SetsAreKept ==
  ASSUME NEW m, Memory(m), NEW dest \in Nat, NEW len \in Nat, Within(m, dest, len)
  PROVE  SetsKept(m, dest, len)
<1> DEFINE Result(max, value) ==
             [mem |-> IF Unusable(dest, len, max) = "EOK" THEN prim_set_cells(m, dest, len, value)
                      ELSE m,
              err |-> Unusable(dest, len, max)]
           Promised(r, value, max) == SetKept(m, r, dest, len, value, max)
<1>1. \A value : /\ prim_set(m, dest, len, value) = prim_set_cells(m, dest, len, value)
                 /\ prim_set16(m, dest, len, value) = prim_set_cells(m, dest, len, value)
                 /\ prim_set32(m, dest, len, value) = prim_set_cells(m, dest, len, value)
  BY SetIsSetOfCells DEF prim_set16, prim_set32
<1>2. /\ safe_memset(m, dest, len, 99) = Result(MaxMem, 99)
      /\ safe_memset16(m, dest, len, 99) = Result(MaxMem \div 2, 99)
      /\ safe_memset32(m, dest, len, 99) = Result(MaxMem \div 4, 99)
      /\ safe_wmemset(m, dest, 99, len) = Result(MaxMem \div 4, 99)
  BY <1>1, Zenon DEF safe_memset, safe_memset16, safe_memset32, safe_wmemset, Filled
<1>3. /\ safe_memzero(m, dest, len) = Result(MaxMem, 0)
      /\ safe_memzero16(m, dest, len) = Result(MaxMem \div 2, 0)
      /\ safe_memzero32(m, dest, len) = Result(MaxMem \div 4, 0)
  BY <1>1, Zenon DEF safe_memzero, safe_memzero16, safe_memzero32, Filled
<1>4. ASSUME NEW max \in Nat, NEW value PROVE Promised(Result(max, value), value, max)
  <2> DEFINE r == Result(max, value)
             unusable == Unusable(dest, len, max)
             filled == prim_set_cells(m, dest, len, value)
  <2>1. unusable = IF len = 0 THEN "ESZEROL" ELSE IF len > max THEN "ESLEMAX" ELSE "EOK"
    BY UnusableIs DEF Null
  <2>2. filled = [a \in DOMAIN m |-> IF a \in dest .. dest + len - 1 THEN value ELSE m[a]]
    BY DEF prim_set_cells
  <2>3. r.mem = IF unusable = "EOK" THEN filled ELSE m
    OBVIOUS
  <2> HIDE DEF r, unusable, filled
  <2>4. Unchanged(m, r.mem, Cells(dest, len))
    BY <2>2, <2>3 DEF Unchanged, Cells
  <2>5. CASE len \in 1 .. max
    <3>1. r.mem = filled
      BY <2>1, <2>3, <2>5
    <3>2. \A a \in Cells(dest, len) : filled[a] = value
      BY <2>2 DEF Cells, Within
    <3> QED
      BY <3>1, <3>2, <2>4, <2>5 DEF SetKept, r
  <2>6. CASE len \notin 1 .. max
    <3>1. r.mem = m
      BY <2>1, <2>3, <2>6
    <3> QED
      BY <3>1, <2>4, <2>6 DEF SetKept, r
  <2> QED
    BY <2>5, <2>6
<1> HIDE DEF Result, Promised
<1>5. /\ Promised(safe_memset(m, dest, len, 99), 99, MaxMem)
      /\ Promised(safe_memset16(m, dest, len, 99), 99, MaxMem \div 2)
      /\ Promised(safe_memset32(m, dest, len, 99), 99, MaxMem \div 4)
      /\ Promised(safe_wmemset(m, dest, 99, len), 99, MaxMem \div 4)
  BY <1>2, <1>4, LimitsAreNat
<1>6. /\ Promised(safe_memzero(m, dest, len), 0, MaxMem)
      /\ Promised(safe_memzero16(m, dest, len), 0, MaxMem \div 2)
      /\ Promised(safe_memzero32(m, dest, len), 0, MaxMem \div 4)
  BY <1>3, <1>4, LimitsAreNat
<1> QED
  BY <1>5, <1>6 DEF SetsKept, Promised

\* What a uint8_t, uint16_t or uint32_t cell holds.
LEMMA DifferencesAreSigned ==
  ASSUME NEW a \in 0 .. Numbers - 1, NEW b \in 0 .. Numbers - 1, a # b
  PROVE  Sign(a, b) # 0 /\ Difference(a, b) # 0 /\ WrappedDifference(a, b) # 0
<1> DEFINE n == Numbers
           d == (a - b) % Numbers
<1>1. n \in Nat /\ n # 0 /\ a \in 0 .. n - 1 /\ b \in 0 .. n - 1
  BY MemoryAssumption
<1>2. d = IF a >= b THEN a - b ELSE a - b + n
  BY <1>1
<1>3. d \in 1 .. n - 1
  BY <1>1, <1>2
<1> HIDE DEF d, n
<1>4. WrappedDifference(a, b) = IF d >= n \div 2 THEN d - n ELSE d
  BY DEF WrappedDifference, d, n
<1>5. WrappedDifference(a, b) # 0
  BY <1>1, <1>3, <1>4
<1> QED
  BY <1>1, <1>5 DEF Sign, Difference, n

\* The first place where two blocks differ.
FirstUnequal(m, dest, src, smax) ==
  SelectInSeq([k \in 1 .. smax |-> k - 1], LAMBDA k : m[dest + k] # m[src + k]) - 1

LEMMA FirstDifferenceIs ==
  ASSUME NEW m, NEW dest \in Nat, NEW src \in Nat, NEW smax \in Nat
  PROVE  LET i == FirstUnequal(m, dest, src, smax)
         IN \/ i = -1 /\ \A k \in 0 .. smax - 1 : m[dest + k] = m[src + k]
            \/ i \in 0 .. smax - 1 /\ m[dest + i] # m[src + i]
<1> DEFINE offsets == [k \in 1 .. smax |-> k - 1]
           differ == {k \in 1 .. Len(offsets) : m[dest + offsets[k]] # m[src + offsets[k]]}
<1>1. Len(offsets) = smax
  OBVIOUS
<1>2. differ = {k \in 1 .. smax : m[dest + (k - 1)] # m[src + (k - 1)]}
  BY <1>1
<1>3. FirstUnequal(m, dest, src, smax) = (IF differ # {} THEN Min(differ) ELSE 0) - 1
  BY DEF FirstUnequal, SelectInSeq
<1> HIDE DEF differ
<1>4. CASE differ = {}
  <2>1. ASSUME NEW k \in 0 .. smax - 1 PROVE m[dest + k] = m[src + k]
    <3>1. k + 1 \in 1 .. smax /\ (k + 1) - 1 = k
      OBVIOUS
    <3> QED
      BY <3>1, <1>2, <1>4
  <2> QED
    BY <1>3, <1>4, <2>1
<1>5. CASE differ # {}
  <2>1. differ \subseteq Nat
    BY <1>2
  <2>2. \E k \in differ : \A l \in differ : k <= l
    BY <1>5, <2>1, LeastNat
  <2>3. Min(differ) \in differ
    BY <2>2 DEF Min
  <2> DEFINE i == Min(differ) - 1
  <2>4. i \in 0 .. smax - 1 /\ m[dest + i] # m[src + i]
    BY <1>2, <2>3
  <2> QED
    BY <1>3, <1>5, <2>4
<1> QED
  BY <1>4, <1>5

LEMMA AllChecked ==
  ASSUME NEW checks, Len(checks) \in Nat, FirstError(checks) = "EOK"
  PROVE  \A j \in 1 .. Len(checks) : checks[j] = "EOK"
<1> SUFFICES ASSUME NEW j \in 1 .. Len(checks), checks[j] # "EOK" PROVE FALSE
  OBVIOUS
<1> DEFINE fire == {k \in 1 .. Len(checks) : checks[k] # "EOK"}
<1>1. fire \subseteq Nat /\ fire # {}
  OBVIOUS
<1>2. PICK i \in fire : \A k \in fire : i <= k
  <2> HIDE DEF fire
  <2> QED
    BY <1>1, LeastNat
<1>3. FirstError(checks) = checks[i]
  BY <1>2, FirstCheck
<1> QED
  BY <1>3

\* The checks of a comparison.
CompareError(max, dest, dmax, src, smax) ==
  FirstError(<<Check(0 = Null, "ESNULLP"), Check(dest = Null, "ESNULLP"),
               Check(src = Null, "ESNULLP"), Check(dmax = 0, "ESZEROL"),
               Check(dmax > max, "ESLEMAX"), Check(smax = 0, "ESZEROL"),
               Check(smax > dmax, "ESLEMAX")>>)

LEMMA ComparedCellsFit ==
  ASSUME NEW max, NEW dest, NEW dmax \in Nat, NEW src, NEW smax \in Nat,
         CompareError(max, dest, dmax, src, smax) = "EOK"
  PROVE  smax <= dmax
<1> DEFINE checks == <<Check(0 = Null, "ESNULLP"), Check(dest = Null, "ESNULLP"),
                       Check(src = Null, "ESNULLP"), Check(dmax = 0, "ESZEROL"),
                       Check(dmax > max, "ESLEMAX"), Check(smax = 0, "ESZEROL"),
                       Check(smax > dmax, "ESLEMAX")>>
<1>1. Len(checks) = 7 /\ checks[7] = Check(smax > dmax, "ESLEMAX")
  OBVIOUS
<1>2. FirstError(checks) = "EOK"
  BY DEF CompareError
<1> HIDE DEF checks
<1>3. checks[7] = "EOK"
  <2>1. Len(checks) \in Nat /\ 7 \in 1 .. Len(checks)
    BY <1>1
  <2> QED
    BY <1>2, <2>1, AllChecked
<1> QED
  BY <1>1, <1>3 DEF Check

\* safe_memcmp*.c, safe_wmemcmp.c: a comparison is 0 only for what is equal, whatever the
\* cells hold and wherever they are.
THEOREM ComparesAreKept ==
  ASSUME NEW m, NEW dest \in Nat, NEW src \in Nat, NEW dmax \in Nat, NEW smax \in Nat,
         \A a \in Cells(dest, dmax) \cup Cells(src, smax) : m[a] \in 0 .. Numbers - 1
  PROVE  ComparesKept(m, dest, dmax, src, smax)
<1> DEFINE i == FirstUnequal(m, dest, src, smax)
           same == \A k \in 0 .. smax - 1 : m[dest + k] = m[src + k]
           error(max) == CompareError(max, dest, dmax, src, smax)
           Result(max, value) == CASE error(max) # "EOK" -> [err |-> error(max), diff |-> -1]
                                   [] dest = src -> [err |-> "EOK", diff |-> 0]
                                   [] OTHER -> [err |-> "EOK", diff |-> IF i = -1 THEN 0 ELSE value]
<1>1. /\ safe_memcmp(m, dest, dmax, src, smax, 0)
           = Result(MaxMem, Sign(m[dest + i], m[src + i]))
      /\ safe_memcmp16(m, dest, dmax, src, smax, 0)
           = Result(MaxMem \div 2, Difference(m[dest + i], m[src + i]))
  BY DEF safe_memcmp, safe_memcmp16, Compared, CompareError, FirstUnequal
<1>2. /\ safe_memcmp32(m, dest, dmax, src, smax, 0)
           = Result(MaxMem \div 4, WrappedDifference(m[dest + i], m[src + i]))
      /\ safe_wmemcmp(m, dest, dmax, src, smax, 0)
           = Result(MaxMem \div 4, WrappedDifference(m[dest + i], m[src + i]))
  BY DEF safe_memcmp32, safe_wmemcmp, Compared, CompareError, FirstUnequal
<1>3. (i = -1 /\ same) \/ (i \in 0 .. smax - 1 /\ m[dest + i] # m[src + i])
  BY FirstDifferenceIs
<1>4. dest = src => same
  OBVIOUS
<1> HIDE DEF i
<1>5. ASSUME i # -1, smax <= dmax
      PROVE  /\ Sign(m[dest + i], m[src + i]) # 0
             /\ Difference(m[dest + i], m[src + i]) # 0
             /\ WrappedDifference(m[dest + i], m[src + i]) # 0
             /\ ~same
  <2>1. i \in 0 .. smax - 1 /\ m[dest + i] # m[src + i]
    BY <1>3, <1>5
  <2>2. m[dest + i] \in 0 .. Numbers - 1 /\ m[src + i] \in 0 .. Numbers - 1
    BY <1>5, <2>1 DEF Cells
  <2> QED
    BY <2>1, <2>2, DifferencesAreSigned
<1>6. ASSUME NEW max, NEW value, i # -1 /\ smax <= dmax => value # 0
      PROVE  CompareKept(m, Result(max, value), dest, src, smax)
  <2> DEFINE r == Result(max, value)
             e == error(max)
  <2>1. e = "EOK" => smax <= dmax
    BY ComparedCellsFit
  <2>2. r = CASE e # "EOK" -> [err |-> e, diff |-> -1]
              [] dest = src -> [err |-> "EOK", diff |-> 0]
              [] OTHER -> [err |-> "EOK", diff |-> IF i = -1 THEN 0 ELSE value]
    OBVIOUS
  <2> HIDE DEF r, e
  <2>3. CASE e # "EOK"
    BY <2>2, <2>3 DEF CompareKept, r
  <2>4. CASE e = "EOK" /\ dest = src
    <3>1. r.diff = 0 /\ same
      BY <2>2, <2>4, <1>4
    <3> QED
      BY <3>1 DEF CompareKept, r
  <2>5. CASE e = "EOK" /\ dest # src
    <3>1. r.diff = IF i = -1 THEN 0 ELSE value
      BY <2>2, <2>5
    <3>2. r.diff = 0 <=> same
      BY <1>3, <1>5, <1>6, <2>1, <2>5, <3>1
    <3> QED
      BY <3>2 DEF CompareKept, r
  <2> QED
    BY <2>3, <2>4, <2>5
<1> HIDE DEF Result
<1>7. /\ CompareKept(m, safe_memcmp(m, dest, dmax, src, smax, 0), dest, src, smax)
      /\ CompareKept(m, safe_memcmp16(m, dest, dmax, src, smax, 0), dest, src, smax)
  BY <1>1, <1>5, <1>6
<1>8. /\ CompareKept(m, safe_memcmp32(m, dest, dmax, src, smax, 0), dest, src, smax)
      /\ CompareKept(m, safe_wmemcmp(m, dest, dmax, src, smax, 0), dest, src, smax)
  BY <1>2, <1>5, <1>6
<1> QED
  BY <1>7, <1>8 DEF ComparesKept

\* Every place and length of MCMemory's memory, for every limit and every size of a number.
THEOREM MemoryIsKept == MemoryCallsKeepTheirPromise
<1> DEFINE m == [a \in MemoryPlaces |-> a + 1]
           like == [a \in MemoryPlaces |-> (a % 3) * ((Numbers \div 2) - 1)]
<1>1. MaxMem \in Nat /\ Numbers \in Nat /\ Numbers # 0 /\ Numbers % 2 = 0
  BY MemoryAssumption
<1>2. Memory(m) /\ DOMAIN m = MemoryPlaces
  BY DEF Memory
<1>3. \A a \in MemoryPlaces : like[a] \in 0 .. Numbers - 1
  <2> DEFINE h == (Numbers \div 2) - 1
  <2>1. h \in Nat /\ 2 * h <= Numbers - 1
    BY <1>1
  <2> HIDE DEF h
  <2>2. ASSUME NEW a \in MemoryPlaces PROVE (a % 3) * h \in 0 .. Numbers - 1
    <3>1. a \in Nat
      BY <1>1 DEF MemoryPlaces
    <3>2. a % 3 = 0 \/ a % 3 = 1 \/ a % 3 = 2
      BY <3>1
    <3> QED
      BY <1>1, <2>1, <3>2
  <2> QED
    BY <2>2 DEF h
<1> HIDE DEF m, like
<1>4. ASSUME NEW dest \in MemoryPlaces, NEW src \in MemoryPlaces, NEW dmax \in 0 .. MaxMem + 1,
             dest + dmax <= MaxMem + 4
      PROVE  /\ SetsKept(m, dest, dmax)
             /\ \A smax \in 0 .. MaxMem + 4 - src :
                   /\ CopiesKept(m, dest, dmax, src, smax)
                   /\ ComparesKept(like, dest, dmax, src, smax)
  <2>1. /\ dest \in Nat /\ src \in Nat /\ dmax \in Nat
        /\ Within(m, dest, dmax) /\ Cells(dest, dmax) \subseteq MemoryPlaces
    BY <1>1, <1>2, <1>4 DEF MemoryPlaces, Within, Cells
  <2>2. SetsKept(m, dest, dmax)
    BY <1>2, <2>1, SetsAreKept
  <2>3. ASSUME NEW smax \in 0 .. MaxMem + 4 - src
        PROVE  CopiesKept(m, dest, dmax, src, smax) /\ ComparesKept(like, dest, dmax, src, smax)
    <3>1. smax \in Nat /\ Within(m, src, smax) /\ Cells(src, smax) \subseteq MemoryPlaces
      BY <1>1, <1>2, <2>1 DEF MemoryPlaces, Within, Cells
    <3>2. CopiesKept(m, dest, dmax, src, smax)
      BY <1>2, <2>1, <3>1, CopiesAreKept
    <3>3. \A a \in Cells(dest, dmax) \cup Cells(src, smax) : like[a] \in 0 .. Numbers - 1
      BY <1>3, <2>1, <3>1
    <3>4. ComparesKept(like, dest, dmax, src, smax)
      BY <2>1, <3>1, <3>3, ComparesAreKept
    <3> QED
      BY <3>2, <3>4
  <2> QED
    BY <2>2, <2>3
<1> QED
  BY <1>4, Zenon DEF MemoryCallsKeepTheirPromise, m, like

-----------------------------------------------------------------------------
(* Sums and checksums *)

\* What folding the carries in makes of a sum: its remainder, with 65535 for 0 unless all is 0.
Rest(n) == IF n = 0 THEN 0 ELSE ((n - 1) % 65535) + 1

\* Numbers a sum of ones only does not tell from zero.
Ones(n) == \E q \in Int : n = 65535 * q

LEMMA RestIs ==
  ASSUME NEW n \in Nat
  PROVE  /\ Rest(n) \in Nat /\ Rest(n) <= 65535
         /\ Rest(n) = 0 <=> n = 0
         /\ Ones(n - Rest(n))
         /\ n < 65536 => Rest(n) = n
<1>1. CASE n = 0
  <2>1. n - Rest(n) = 65535 * 0
    BY <1>1 DEF Rest
  <2> QED
    BY <1>1, <2>1 DEF Rest, Ones
<1>2. CASE n # 0
  <2> DEFINE r == (n - 1) % 65535
             q == (n - 1) \div 65535
  <2>1. r \in Nat /\ r < 65535 /\ q \in Nat /\ n - 1 = 65535 * q + r
    BY <1>2
  <2>2. Rest(n) = r + 1
    BY <1>2 DEF Rest
  <2> HIDE DEF r, q
  <2>3. n < 65536 => q = 0
    BY <2>1
  <2>4. n - Rest(n) = 65535 * q
    BY <2>1, <2>2
  <2>5. Ones(n - Rest(n))
    BY <2>1, <2>4 DEF Ones
  <2>6. n < 65536 => Rest(n) = n
    BY <2>1, <2>2, <2>3
  <2>7. Rest(n) \in Nat /\ Rest(n) <= 65535 /\ Rest(n) # 0
    BY <2>1, <2>2
  <2> QED
    BY <1>2, <2>5, <2>6, <2>7
<1> QED
  BY <1>1, <1>2

LEMMA RestUnique ==
  ASSUME NEW n \in Nat, NEW k \in Nat, n > 0, k > 0, Ones(n - k)
  PROVE  Rest(n) = Rest(k)
<1>1. PICK p \in Int : n - k = 65535 * p
  BY DEF Ones
<1>2. Ones(n - Rest(n)) /\ Ones(k - Rest(k))
  BY RestIs
<1>3. PICK q \in Int : n - Rest(n) = 65535 * q
  BY <1>2 DEF Ones
<1>4. PICK r \in Int : k - Rest(k) = 65535 * r
  BY <1>2 DEF Ones
<1>5. /\ Rest(n) \in Nat /\ Rest(n) > 0 /\ Rest(n) <= 65535
      /\ Rest(k) \in Nat /\ Rest(k) > 0 /\ Rest(k) <= 65535
  BY RestIs
<1> QED
  BY <1>1, <1>3, <1>4, <1>5

\* util.c:22-23: the loop over the carries ends with the remainder.
LEMMA FoldedIsRest ==
  ASSUME NEW n \in Nat
  PROVE  Folded(n) = Rest(n)
<1> DEFINE Round(g) == [k \in Nat |-> IF k < 65536 THEN k ELSE g[(k % 65536) + (k \div 65536)]]
           fold == CHOOSE g : g = Round(g)
           closed == [k \in Nat |-> Rest(k)]
<1>1. ASSUME NEW k \in Nat
      PROVE  LET folded == (k % 65536) + (k \div 65536)
             IN /\ folded \in Nat
                /\ k >= 65536 => folded < k /\ Rest(k) = Rest(folded)
  <2> DEFINE folded == (k % 65536) + (k \div 65536)
  <2>1. folded \in Nat /\ folded = k - 65535 * (k \div 65536)
    OBVIOUS
  <2>2. ASSUME k >= 65536 PROVE folded < k /\ folded > 0 /\ Ones(k - folded)
    <3>1. k \div 65536 > 0 /\ k \div 65536 \in Int
      BY <2>2
    <3>2. k - folded = 65535 * (k \div 65536)
      BY <2>1
    <3>3. folded > 0
      BY <2>2
    <3> HIDE DEF folded
    <3> QED
      BY <3>1, <3>2, <3>3, <2>1 DEF Ones
  <2> HIDE DEF folded
  <2>3. ASSUME k >= 65536 PROVE Rest(k) = Rest(folded)
    <3>1. folded \in Nat /\ folded > 0 /\ k > 0 /\ Ones(k - folded)
      BY <2>1, <2>2, <2>3
    <3> QED
      BY <3>1, RestUnique
  <2> QED
    BY <2>1, <2>2, <2>3 DEF folded
<1>2. closed = Round(closed)
  <2>1. \A k \in Nat : k < 65536 => Rest(k) = k
    BY RestIs
  <2> QED
    BY <1>1, <2>1
<1>3. fold = Round(fold)
  <2> HIDE DEF Round
  <2> QED
    BY <1>2
<1>4. fold[n] = closed[n]
  <2> DEFINE wrong == {k \in Nat : fold[k] # closed[k]}
  <2> HIDE DEF fold, closed
  <2>1. \A k \in Nat :
          /\ fold[k] = IF k < 65536 THEN k ELSE fold[(k % 65536) + (k \div 65536)]
          /\ closed[k] = IF k < 65536 THEN k ELSE closed[(k % 65536) + (k \div 65536)]
    BY <1>2, <1>3
  <2>2. ASSUME wrong # {} PROVE FALSE
    <3>1. wrong \subseteq Nat
      OBVIOUS
    <3> HIDE DEF wrong
    <3>2. PICK k \in wrong : \A j \in wrong : k <= j
      BY <2>2, <3>1, LeastNat
    <3> USE DEF wrong
    <3> DEFINE folded == (k % 65536) + (k \div 65536)
    <3>3. k \in Nat /\ k >= 65536
      BY <2>1
    <3>4. folded \in Nat /\ folded < k
      BY <1>1, <3>3
    <3>5. fold[folded] = closed[folded]
      BY <3>2, <3>3, <3>4
    <3> QED
      BY <2>1, <3>3, <3>5
  <2> QED
    BY <2>2
<1>5. Folded(n) = fold[n]
  BY DEF Folded
<1> QED
  BY <1>4, <1>5

-----------------------------------------------------------------------------
(* Sums of words *)

\* A sum's loop, as the function of SumOfWords.
IsSum(g, start, word, n) ==
  g = [k \in 0 .. n |-> IF k = 0 THEN start ELSE g[k - 1] + word[k]]

\* Two such loops agree where both have come to.
LEMMA SumsAgree ==
  ASSUME NEW start, NEW word, NEW n \in Nat, NEW l \in Nat, NEW g, NEW h,
         IsSum(g, start, word, n), IsSum(h, start, word, l)
  PROVE  \A k \in 0 .. n : k <= l => g[k] = h[k]
<1> DEFINE wrong == {k \in 0 .. n : k <= l /\ g[k] # h[k]}
<1>1. /\ \A k \in 0 .. n : g[k] = IF k = 0 THEN start ELSE g[k - 1] + word[k]
      /\ \A k \in 0 .. l : h[k] = IF k = 0 THEN start ELSE h[k - 1] + word[k]
  BY DEF IsSum
<1>2. ASSUME wrong # {} PROVE FALSE
  <2>1. wrong \subseteq Nat
    OBVIOUS
  <2> HIDE DEF wrong
  <2>2. PICK k \in wrong : \A j \in wrong : k <= j
    BY <1>2, <2>1, LeastNat
  <2> USE DEF wrong
  <2>3. k \in 0 .. n /\ k \in 0 .. l /\ g[k] # h[k]
    OBVIOUS
  <2>4. k # 0
    BY <1>1, <2>3
  <2>5. k - 1 \in 0 .. n /\ k - 1 <= l /\ ~(k <= k - 1)
    BY <2>3, <2>4
  <2>6. g[k - 1] = h[k - 1]
    BY <2>2, <2>5
  <2> QED
    BY <1>1, <2>3, <2>4, <2>6
<1> QED
  BY <1>2

LEMMA SumExists ==
  ASSUME NEW start, NEW word, NEW n \in Nat
  PROVE  \E g : IsSum(g, start, word, n)
<1> DEFINE wrong == {k \in Nat : ~(\E g : IsSum(g, start, word, k))}
<1>1. ASSUME wrong # {} PROVE FALSE
  <2>1. wrong \subseteq Nat
    OBVIOUS
  <2> HIDE DEF wrong
  <2>2. PICK k \in wrong : \A j \in wrong : k <= j
    BY <1>1, <2>1, LeastNat
  <2> USE DEF wrong
  <2>3. k \in Nat /\ ~(\E g : IsSum(g, start, word, k))
    OBVIOUS
  <2>4. k # 0
    <3>1. IsSum([i \in 0 .. 0 |-> start], start, word, 0)
      BY DEF IsSum
    <3> QED
      BY <2>3, <3>1
  <2>5. k - 1 \in Nat /\ ~(k <= k - 1)
    BY <2>3, <2>4
  <2>6. PICK g : IsSum(g, start, word, k - 1)
    BY <2>2, <2>5
  <2> DEFINE h == [i \in 0 .. k |-> IF i <= k - 1 THEN g[i] ELSE g[k - 1] + word[k]]
  <2>7. \A i \in 0 .. k - 1 : g[i] = IF i = 0 THEN start ELSE g[i - 1] + word[i]
    BY <2>6 DEF IsSum
  <2>8. ASSUME NEW i \in 0 .. k PROVE h[i] = IF i = 0 THEN start ELSE h[i - 1] + word[i]
    <3>1. CASE i = 0
      BY <3>1, <2>5, <2>7
    <3>2. CASE i # 0 /\ i <= k - 1
      <4>1. h[i] = g[i] /\ h[i - 1] = g[i - 1]
        BY <3>2
      <4> QED
        BY <3>2, <4>1, <2>7
    <3>3. CASE i = k
      <4>1. h[i] = g[k - 1] + word[k] /\ h[i - 1] = g[k - 1]
        BY <3>3, <2>5
      <4> QED
        BY <3>3, <4>1, <2>4
    <3> QED
      BY <3>1, <3>2, <3>3
  <2>9. IsSum(h, start, word, k)
    BY <2>8 DEF IsSum
  <2> QED
    BY <2>3, <2>9
<1> QED
  BY <1>1

\* util.c:14-20: nothing is summed yet, and one word more.
LEMMA SumSteps ==
  ASSUME NEW start, NEW word
  PROVE  /\ SumOfWords(start, word, 0) = start
         /\ \A n \in Nat \ {0} : SumOfWords(start, word, n) = SumOfWords(start, word, n - 1) + word[n]
<1> DEFINE sum(n) == CHOOSE g : IsSum(g, start, word, n)
<1>1. \A n \in Nat : IsSum(sum(n), start, word, n)
  BY SumExists
<1>2. ASSUME NEW n \in Nat PROVE SumOfWords(start, word, n) = sum(n)[n]
  BY DEF SumOfWords, IsSum
<1> HIDE DEF sum
<1>3. SumOfWords(start, word, 0) = start
  BY <1>1, <1>2 DEF IsSum
<1>4. ASSUME NEW n \in Nat \ {0}
      PROVE  SumOfWords(start, word, n) = SumOfWords(start, word, n - 1) + word[n]
  <2>1. n \in Nat /\ n - 1 \in Nat /\ n - 1 \in 0 .. n - 1 /\ n - 1 <= n /\ n \in 0 .. n
    OBVIOUS
  <2>2. sum(n)[n] = sum(n)[n - 1] + word[n]
    BY <1>1, <2>1 DEF IsSum
  <2>3. sum(n - 1)[n - 1] = sum(n)[n - 1]
    BY <1>1, <2>1, SumsAgree
  <2> QED
    BY <1>2, <2>1, <2>2, <2>3
<1> QED
  BY <1>3, <1>4

\* What holds for 0 and for the next one of each holds for all.
LEMMA EveryNat ==
  ASSUME NEW T, 0 \in T, \A n \in Nat : n \in T => n + 1 \in T
  PROVE  \A n \in Nat : n \in T
<1> DEFINE wrong == {n \in Nat : n \notin T}
<1>1. ASSUME wrong # {} PROVE FALSE
  <2>1. wrong \subseteq Nat
    OBVIOUS
  <2> HIDE DEF wrong
  <2>2. PICK k \in wrong : \A j \in wrong : k <= j
    BY <1>1, <2>1, LeastNat
  <2> USE DEF wrong
  <2>3. k \in Nat /\ k # 0 /\ k \notin T
    OBVIOUS
  <2>4. k - 1 \in Nat /\ ~(k <= k - 1) /\ (k - 1) + 1 = k
    BY <2>3
  <2>5. k - 1 \in T
    BY <2>2, <2>4
  <2> QED
    BY <2>3, <2>4, <2>5
<1> QED
  BY <1>1

LEMMA OnesOf ==
  ASSUME NEW n, NEW q \in Int, n = 65535 * q
  PROVE  Ones(n)
BY DEF Ones

LEMMA OnesAdd ==
  ASSUME NEW a \in Int, NEW b \in Int, Ones(a), Ones(b)
  PROVE  Ones(a + b) /\ Ones(256 * a) /\ Ones(a - b)
<1>1. PICK p \in Int : a = 65535 * p
  BY DEF Ones
<1>2. PICK q \in Int : b = 65535 * q
  BY DEF Ones
<1> DEFINE x == p + q
           y == 256 * p
           z == p - q
           sum == a + b
           more == 256 * a
           less == a - b
<1>3. /\ x \in Int /\ y \in Int /\ z \in Int
      /\ sum = 65535 * x /\ more = 65535 * y /\ less = 65535 * z
  BY <1>1, <1>2
<1> HIDE DEF x, y, z, sum, more, less
<1>4. Ones(sum) /\ Ones(more) /\ Ones(less)
  BY <1>3, OnesOf
<1> QED
  BY <1>4 DEF sum, more, less

\* The word behind the first n.
LEMMA SumNext ==
  ASSUME NEW start, NEW word, NEW n \in Nat
  PROVE  SumOfWords(start, word, n + 1) = SumOfWords(start, word, n) + word[n + 1]
<1> DEFINE l == n + 1
<1>1. l \in Nat \ {0} /\ l - 1 = n
  OBVIOUS
<1> HIDE DEF l
<1>2. SumOfWords(start, word, l) = SumOfWords(start, word, l - 1) + word[l]
  BY <1>1, SumSteps
<1> QED
  BY <1>1, <1>2 DEF l

LEMMA SumIsNat ==
  ASSUME NEW start \in Nat, NEW word, NEW n \in Nat, \A k \in 1 .. n : word[k] \in Nat
  PROVE  SumOfWords(start, word, n) \in Nat
<1> DEFINE good == {k \in Nat : k <= n => SumOfWords(start, word, k) \in Nat}
<1>1. 0 \in good
  BY SumSteps
<1>2. ASSUME NEW k \in Nat, k \in good PROVE k + 1 \in good
  <2>1. SumOfWords(start, word, k + 1) = SumOfWords(start, word, k) + word[k + 1]
    BY SumNext
  <2>2. k + 1 <= n => word[k + 1] \in Nat
    OBVIOUS
  <2> QED
    BY <1>2, <2>1, <2>2
<1> HIDE DEF good
<1>3. n \in good
  BY <1>1, <1>2, EveryNat
<1> QED
  BY <1>3 DEF good

LEMMA SumFromStart ==
  ASSUME NEW start \in Nat, NEW word, NEW n \in Nat, \A k \in 1 .. n : word[k] \in Nat
  PROVE  SumOfWords(start, word, n) = start + SumOfWords(0, word, n)
<1> DEFINE good == {k \in Nat : k <= n => SumOfWords(start, word, k) = start + SumOfWords(0, word, k)}
<1>1. 0 \in good
  BY SumSteps
<1>2. ASSUME NEW k \in Nat, k \in good PROVE k + 1 \in good
  <2>1. CASE k + 1 <= n
    <3>1. /\ SumOfWords(start, word, k + 1) = SumOfWords(start, word, k) + word[k + 1]
          /\ SumOfWords(0, word, k + 1) = SumOfWords(0, word, k) + word[k + 1]
      BY SumNext
    <3>2. word[k + 1] \in Nat
      BY <2>1
    <3>3. SumOfWords(0, word, k) \in Nat
      BY <2>1, SumIsNat
    <3>4. SumOfWords(start, word, k) = start + SumOfWords(0, word, k)
      BY <1>2, <2>1
    <3> QED
      BY <3>1, <3>2, <3>3, <3>4
  <2> QED
    BY <2>1
<1> HIDE DEF good
<1>3. n \in good
  BY <1>1, <1>2, EveryNat
<1> QED
  BY <1>3 DEF good

\* The same words have the same sum.
LEMMA SumOfSame ==
  ASSUME NEW w, NEW u, NEW n \in Nat, \A k \in 1 .. n : w[k] = u[k]
  PROVE  SumOfWords(0, w, n) = SumOfWords(0, u, n)
<1> DEFINE good == {k \in Nat : k <= n => SumOfWords(0, w, k) = SumOfWords(0, u, k)}
<1>1. 0 \in good
  BY SumSteps
<1>2. ASSUME NEW k \in Nat, k \in good PROVE k + 1 \in good
  <2>1. /\ SumOfWords(0, w, k + 1) = SumOfWords(0, w, k) + w[k + 1]
        /\ SumOfWords(0, u, k + 1) = SumOfWords(0, u, k) + u[k + 1]
    BY SumNext
  <2>2. k + 1 <= n => w[k + 1] = u[k + 1]
    OBVIOUS
  <2> QED
    BY <1>2, <2>1, <2>2
<1> HIDE DEF good
<1>3. n \in good
  BY <1>1, <1>2, EveryNat
<1> QED
  BY <1>3 DEF good

\* A sum in two parts.
Joined(w, u, v, n, l) ==
  /\ \A k \in 1 .. n : w[k] = u[k] /\ u[k] \in Nat
  /\ \A k \in 1 .. l : w[n + k] = v[k] /\ v[k] \in Nat

LEMMA SumOfParts ==
  ASSUME NEW w, NEW u, NEW v, NEW n \in Nat, NEW l \in Nat, Joined(w, u, v, n, l)
  PROVE  SumOfWords(0, w, n + l) = SumOfWords(0, u, n) + SumOfWords(0, v, l)
<1> DEFINE good == {k \in Nat : k <= l =>
                      SumOfWords(0, w, n + k) = SumOfWords(0, u, n) + SumOfWords(0, v, k)}
<1>1. /\ \A k \in 1 .. n : w[k] = u[k] /\ u[k] \in Nat
      /\ \A k \in 1 .. l : w[n + k] = v[k] /\ v[k] \in Nat
  BY DEF Joined
<1>2. SumOfWords(0, u, n) \in Nat
  BY <1>1, SumIsNat
<1>3. 0 \in good
  <2>1. SumOfWords(0, w, n) = SumOfWords(0, u, n)
    BY <1>1, SumOfSame
  <2>2. SumOfWords(0, v, 0) = 0 /\ n + 0 = n
    BY SumSteps
  <2> QED
    BY <1>2, <2>1, <2>2
<1>4. ASSUME NEW k \in Nat, k \in good PROVE k + 1 \in good
  <2>1. CASE k + 1 <= l
    <3>1. n + k \in Nat /\ (n + k) + 1 = n + (k + 1) /\ k + 1 \in 1 .. l
      BY <2>1
    <3>2. SumOfWords(0, w, n + (k + 1)) = SumOfWords(0, w, n + k) + w[n + (k + 1)]
      BY <3>1, SumNext
    <3>3. SumOfWords(0, v, k + 1) = SumOfWords(0, v, k) + v[k + 1]
      BY SumNext
    <3>4. w[n + (k + 1)] = v[k + 1] /\ v[k + 1] \in Nat
      BY <1>1, <3>1
    <3>5. SumOfWords(0, v, k) \in Nat
      BY <1>1, <2>1, SumIsNat
    <3>6. SumOfWords(0, w, n + k) = SumOfWords(0, u, n) + SumOfWords(0, v, k)
      BY <1>4, <2>1
    <3> QED
      BY <1>2, <3>2, <3>3, <3>4, <3>5, <3>6
  <2> QED
    BY <2>1
<1> HIDE DEF good
<1>5. l \in good
  BY <1>3, <1>4, EveryNat
<1> QED
  BY <1>5 DEF good

\* One word more of d.
Raised(w, u, n, i, d) ==
  \A k \in 1 .. n : w[k] \in Nat /\ u[k] = w[k] + IF k = i THEN d ELSE 0

LEMMA SumWith ==
  ASSUME NEW w, NEW u, NEW n \in Nat, NEW i \in 1 .. n, NEW d \in Nat, Raised(w, u, n, i, d)
  PROVE  SumOfWords(0, u, n) = SumOfWords(0, w, n) + d
<1> DEFINE good == {k \in Nat : k <= n =>
                      SumOfWords(0, u, k) = SumOfWords(0, w, k) + IF i <= k THEN d ELSE 0}
<1>1. \A k \in 1 .. n : w[k] \in Nat /\ u[k] = w[k] + IF k = i THEN d ELSE 0
  BY DEF Raised
<1>2. 0 \in good
  BY SumSteps
<1>3. ASSUME NEW k \in Nat, k \in good PROVE k + 1 \in good
  <2>1. CASE k + 1 <= n
    <3>1. /\ SumOfWords(0, u, k + 1) = SumOfWords(0, u, k) + u[k + 1]
          /\ SumOfWords(0, w, k + 1) = SumOfWords(0, w, k) + w[k + 1]
      BY SumNext
    <3>2. k + 1 \in 1 .. n
      BY <2>1
    <3>3. w[k + 1] \in Nat /\ u[k + 1] = w[k + 1] + IF k + 1 = i THEN d ELSE 0
      BY <1>1, <3>2
    <3>4. SumOfWords(0, w, k) \in Nat
      BY <1>1, <2>1, SumIsNat
    <3>5. SumOfWords(0, u, k) = SumOfWords(0, w, k) + IF i <= k THEN d ELSE 0
      BY <1>3, <2>1
    <3>6. CASE i = k + 1
      <4>1. ~(i <= k) /\ i <= k + 1
        BY <3>6
      <4> QED
        BY <3>1, <3>3, <3>4, <3>5, <3>6, <4>1
    <3>7. CASE i # k + 1
      <4>1. i <= k <=> i <= k + 1
        BY <3>7
      <4> QED
        BY <3>1, <3>3, <3>4, <3>5, <3>7, <4>1
    <3> QED
      BY <3>6, <3>7
  <2> QED
    BY <2>1
<1> HIDE DEF good
<1>4. n \in good
  BY <1>2, <1>3, EveryNat
<1> QED
  BY <1>4 DEF good

\* The two orders of bytes: 256 times the one is the other but for ones.
LEMMA SumSwapped ==
  ASSUME NEW u, NEW v, NEW n \in Nat,
         \A k \in 1 .. n : /\ u[k] \in Nat /\ v[k] \in Nat
                           /\ Ones(256 * u[k] - v[k]) /\ u[k] <= 256 * v[k]
  PROVE  /\ Ones(256 * SumOfWords(0, u, n) - SumOfWords(0, v, n))
         /\ SumOfWords(0, u, n) <= 256 * SumOfWords(0, v, n)
<1> DEFINE U(k) == SumOfWords(0, u, k)
           V(k) == SumOfWords(0, v, k)
           good == {k \in Nat : k <= n => Ones(256 * U(k) - V(k)) /\ U(k) <= 256 * V(k)}
<1>1. 0 \in good
  <2>1. U(0) = 0 /\ V(0) = 0
    BY SumSteps
  <2> HIDE DEF U, V
  <2> DEFINE none == 256 * U(0) - V(0)
  <2>2. none = 65535 * 0
    BY <2>1
  <2> HIDE DEF none
  <2>3. Ones(none)
    BY <2>2, OnesOf
  <2> QED
    BY <2>1, <2>3 DEF none
<1>2. ASSUME NEW k \in Nat, k \in good PROVE k + 1 \in good
  <2>1. CASE k + 1 <= n
    <3>1. U(k + 1) = U(k) + u[k + 1] /\ V(k + 1) = V(k) + v[k + 1]
      BY SumNext
    <3>2. U(k) \in Nat /\ V(k) \in Nat
      BY <2>1, SumIsNat
    <3>3. /\ u[k + 1] \in Nat /\ v[k + 1] \in Nat
          /\ Ones(256 * u[k + 1] - v[k + 1]) /\ u[k + 1] <= 256 * v[k + 1]
      BY <2>1
    <3>4. Ones(256 * U(k) - V(k)) /\ U(k) <= 256 * V(k)
      BY <1>2, <2>1
    <3> HIDE DEF U, V
    <3> DEFINE a == 256 * U(k) - V(k)
               b == 256 * u[k + 1] - v[k + 1]
    <3>5. Ones(a + b)
      <4>1. a \in Int /\ b \in Int /\ Ones(a) /\ Ones(b)
        BY <3>2, <3>3, <3>4
      <4> HIDE DEF a, b
      <4> QED
        BY <4>1, OnesAdd
    <3>6. 256 * U(k + 1) - V(k + 1) = a + b
      BY <3>1, <3>2, <3>3
    <3>7. U(k + 1) <= 256 * V(k + 1)
      BY <3>1, <3>2, <3>3, <3>4
    <3> QED
      BY <3>5, <3>6, <3>7
  <2> QED
    BY <2>1
<1> HIDE DEF good
<1>3. n \in good
  BY <1>1, <1>2, EveryNat
<1> QED
  BY <1>3 DEF good

\* A sum as the processor reads the words.
Native(bytes) == SumOfWords(0, NativeWords(bytes), WordCount(bytes))

LEMMA WordsOf ==
  ASSUME NEW b \in Seq(Nat)
  PROVE  /\ Len(b) \in Nat /\ WordCount(b) \in Nat
         /\ \A k \in 1 .. WordCount(b) : 2 * k - 1 \in 1 .. Len(b)
         /\ \A k \in 1 .. WordCount(b) :
               /\ NativeWords(b)[k] = b[2 * k - 1] + 256 * (IF 2 * k <= Len(b) THEN b[2 * k] ELSE 0)
               /\ NetWords(b)[k] = 256 * b[2 * k - 1] + (IF 2 * k <= Len(b) THEN b[2 * k] ELSE 0)
         /\ \A k \in 1 .. WordCount(b) : NativeWords(b)[k] \in Nat /\ NetWords(b)[k] \in Nat
<1>1. Len(b) \in Nat /\ \A i \in 1 .. Len(b) : b[i] \in Nat
  OBVIOUS
<1>2. WordCount(b) \in Nat /\ \A k \in 1 .. WordCount(b) : 2 * k - 1 \in 1 .. Len(b)
  BY <1>1 DEF WordCount
<1>3. \A k \in 1 .. WordCount(b) :
         /\ NativeWords(b)[k] = b[2 * k - 1] + 256 * (IF 2 * k <= Len(b) THEN b[2 * k] ELSE 0)
         /\ NetWords(b)[k] = 256 * b[2 * k - 1] + (IF 2 * k <= Len(b) THEN b[2 * k] ELSE 0)
  BY DEF NativeWords, NetWords
<1>4. ASSUME NEW k \in 1 .. WordCount(b)
      PROVE  NativeWords(b)[k] \in Nat /\ NetWords(b)[k] \in Nat
  <2> DEFINE first == b[2 * k - 1]
             second == IF 2 * k <= Len(b) THEN b[2 * k] ELSE 0
             native == NativeWords(b)[k]
             net == NetWords(b)[k]
  <2>1. first \in Nat
    BY <1>1, <1>2
  <2>2. second \in Nat
    BY <1>1, <1>2
  <2>3. native = first + 256 * second /\ net = 256 * first + second
    BY <1>3
  <2> HIDE DEF first, second, native, net
  <2>4. native \in Nat /\ net \in Nat
    BY <2>1, <2>2, <2>3
  <2> QED
    BY <2>4 DEF native, net
<1> QED
  BY <1>1, <1>2, <1>3, <1>4

LEMMA NativeIsNat ==
  ASSUME NEW b \in Seq(Nat)
  PROVE  Native(b) \in Nat
BY WordsOf, SumIsNat DEF Native

\* util.c:9-26: a checksum is what is left of the sum it continues.
LEMMA ChecksumIsRest ==
  ASSUME NEW start \in Nat, NEW b \in Seq(Nat)
  PROVE  calc_checksum(start, b) = Rest(start + Native(b))
<1> DEFINE sum == SumOfWords(start, NativeWords(b), WordCount(b))
<1>1. sum = start + Native(b)
  BY WordsOf, SumFromStart DEF Native
<1>2. calc_checksum(start, b) = Folded(sum)
  BY DEF calc_checksum
<1> HIDE DEF sum
<1>3. sum \in Nat
  BY <1>1, NativeIsNat
<1> QED
  BY <1>1, <1>2, <1>3, FoldedIsRest

LEMMA RestOfRest ==
  ASSUME NEW a \in Nat, NEW b \in Nat
  PROVE  Rest(Rest(a) + b) = Rest(a + b)
<1>1. Rest(a) \in Nat /\ (Rest(a) = 0 <=> a = 0) /\ Ones(a - Rest(a))
  BY RestIs
<1> DEFINE r == Rest(a)
           n == a + b
           k == r + b
<1>2. CASE n = 0
  BY <1>1, <1>2
<1>3. CASE n # 0
  <2>1. n \in Nat /\ k \in Nat /\ n > 0 /\ k > 0 /\ n - k = a - r
    BY <1>1, <1>3
  <2>2. Ones(n - k)
    BY <1>1, <2>1
  <2> HIDE DEF r, n, k
  <2>3. Rest(n) = Rest(k)
    BY <2>1, <2>2, RestUnique
  <2> QED
    BY <2>3 DEF r, n, k
<1> QED
  BY <1>2, <1>3

LEMMA NativeWordIs ==
  ASSUME NEW b \in Seq(Nat), NEW k \in 1 .. WordCount(b)
  PROVE  /\ NativeWords(b)[k] = b[2 * k - 1] + 256 * (IF 2 * k <= Len(b) THEN b[2 * k] ELSE 0)
         /\ NativeWords(b)[k] \in Nat
BY WordsOf

\* A sum does not see where two whole numbers of words are put together.
LEMMA NativeConcat ==
  ASSUME NEW s \in Seq(Nat), NEW t \in Seq(Nat), Len(s) % 2 = 0
  PROVE  /\ s \o t \in Seq(Nat) /\ Len(s \o t) = Len(s) + Len(t)
         /\ Native(s \o t) = Native(s) + Native(t)
<1> DEFINE b == s \o t
           n == WordCount(s)
           l == WordCount(t)
<1>1. /\ b \in Seq(Nat) /\ Len(b) = Len(s) + Len(t) /\ Len(s) \in Nat /\ Len(t) \in Nat
      /\ \A i \in 1 .. Len(s) : b[i] = s[i]
      /\ \A i \in 1 .. Len(t) : b[Len(s) + i] = t[i]
  OBVIOUS
<1>2. Len(s) = 2 * n /\ n \in Nat /\ l \in Nat /\ WordCount(b) = n + l
  <2> DEFINE p == Len(s)
             q == Len(t)
  <2>1. p \in Nat /\ q \in Nat /\ p % 2 = 0 /\ Len(b) = p + q
    BY <1>1
  <2>2. n = (p + 1) \div 2 /\ l = (q + 1) \div 2 /\ WordCount(b) = ((p + q) + 1) \div 2
    BY <1>1 DEF WordCount
  <2> HIDE DEF p, q, n, l, b
  <2>3. PICK m \in Nat : p = 2 * m
    BY <2>1
  <2>4. (p + 1) \div 2 = m
    BY <2>3
  <2>5. ((p + q) + 1) \div 2 = m + ((q + 1) \div 2)
    BY <2>1, <2>3
  <2>6. (q + 1) \div 2 \in Nat
    BY <2>1
  <2> QED
    BY <2>2, <2>3, <2>4, <2>5, <2>6 DEF p
<1> HIDE DEF b, n, l
<1>3. ASSUME NEW k \in 1 .. n PROVE NativeWords(b)[k] = NativeWords(s)[k] /\ NativeWords(s)[k] \in Nat
  <2> DEFINE i == 2 * k - 1
             j == 2 * k
  <2>1. i \in 1 .. Len(s) /\ j \in 1 .. Len(s) /\ k \in 1 .. WordCount(b)
    BY <1>1, <1>2, SMTT(20)
  <2> HIDE DEF i, j, n
  <2>2. j <= Len(b) /\ j <= Len(s)
    <3>1. Len(s) \in Nat /\ Len(t) \in Nat /\ Len(b) = Len(s) + Len(t)
      BY <1>1
    <3>2. j \in Nat /\ j <= Len(s)
      BY <2>1
    <3> QED
      BY <3>1, <3>2
  <2>3. b[i] = s[i] /\ b[j] = s[j]
    BY <1>1, <2>1
  <2>4. b[2 * k - 1] = s[2 * k - 1] /\ b[2 * k] = s[2 * k] /\ 2 * k <= Len(b) /\ 2 * k <= Len(s)
    BY <2>2, <2>3 DEF i, j
  <2>5. /\ NativeWords(b)[k] = b[2 * k - 1] + 256 * b[2 * k]
        /\ NativeWords(s)[k] = s[2 * k - 1] + 256 * s[2 * k]
        /\ NativeWords(s)[k] \in Nat
    <3>1. b \in Seq(Nat) /\ k \in 1 .. WordCount(b) /\ k \in 1 .. WordCount(s)
      BY <1>1, <2>1 DEF n
    <3> QED
      BY <2>4, <3>1, NativeWordIs
  <2> QED
    BY <2>4, <2>5
<1>4. ASSUME NEW k \in 1 .. l PROVE NativeWords(b)[n + k] = NativeWords(t)[k] /\ NativeWords(t)[k] \in Nat
  <2> DEFINE i == n + k
  <2>1. i \in 1 .. WordCount(b) /\ 2 * i = Len(s) + 2 * k
    BY <1>2
  <2>2. /\ NativeWords(t)[k] = t[2 * k - 1] + 256 * (IF 2 * k <= Len(t) THEN t[2 * k] ELSE 0)
        /\ NativeWords(t)[k] \in Nat
        /\ 2 * k - 1 \in 1 .. Len(t)
    BY WordsOf DEF l
  <2> HIDE DEF i
  <2>3. NativeWords(b)[i] = b[2 * i - 1] + 256 * (IF 2 * i <= Len(b) THEN b[2 * i] ELSE 0)
    BY <1>1, <2>1, NativeWordIs
  <2>4. b[2 * i - 1] = t[2 * k - 1]
    <3> DEFINE j == 2 * k - 1
    <3>1. 2 * i - 1 = Len(s) + j /\ j \in 1 .. Len(t)
      BY <1>1, <2>1, <2>2
    <3> HIDE DEF j
    <3>2. b[Len(s) + j] = t[j]
      BY <1>1, <3>1
    <3> QED
      BY <3>1, <3>2 DEF j
  <2>5. 2 * i <= Len(b) <=> 2 * k <= Len(t)
    BY <1>1, <2>1
  <2>6. 2 * k <= Len(t) => b[2 * i] = t[2 * k]
    <3> DEFINE j == 2 * k
    <3>1. 2 * i = Len(s) + j /\ (j <= Len(t) => j \in 1 .. Len(t))
      BY <1>1, <2>1, <2>2
    <3> HIDE DEF j
    <3>2. j <= Len(t) => b[Len(s) + j] = t[j]
      BY <1>1, <3>1
    <3> QED
      BY <3>1, <3>2 DEF j
  <2> QED
    BY <2>2, <2>3, <2>4, <2>5, <2>6, SMTT(20) DEF i
<1>5. SumOfWords(0, NativeWords(b), n + l)
        = SumOfWords(0, NativeWords(s), n) + SumOfWords(0, NativeWords(t), l)
  <2> DEFINE w == NativeWords(b)
             u == NativeWords(s)
             v == NativeWords(t)
  <2>1. /\ n \in Nat /\ l \in Nat
        /\ Joined(w, u, v, n, l)
    BY <1>2, <1>3, <1>4 DEF Joined
  <2> HIDE DEF w, u, v
  <2>2. SumOfWords(0, w, n + l) = SumOfWords(0, u, n) + SumOfWords(0, v, l)
    BY <2>1, SumOfParts
  <2> QED
    BY <2>2 DEF w, u, v
<1> QED
  BY <1>1, <1>2, <1>5 DEF Native, b, n, l

\* A number written where zeros were is added to the sum.
LEMMA NativeWith ==
  ASSUME NEW b \in Seq(Nat), NEW i \in Nat, i % 2 = 1, i + 1 <= Len(b), b[i] = 0, b[i + 1] = 0,
         NEW c \in Nat
  PROVE  LET r == With(b, i, Native16(c))
         IN /\ r \in Seq(Nat) /\ Len(r) = Len(b)
            /\ Native(r) = Native(b) + c
            /\ \A j \in 1 .. Len(b) : j \notin {i, i + 1} => r[j] = b[j]
<1> DEFINE r == With(b, i, Native16(c))
           lo == c % 256
           hi == c \div 256
           n == WordCount(b)
           h == (i + 1) \div 2
<1>1. lo \in Nat /\ hi \in Nat /\ c = lo + 256 * hi
  OBVIOUS
<1>2. Native16(c)[1] = lo /\ Native16(c)[2] = hi
  BY DEF Native16, Low, High
<1>3. Len(b) \in Nat /\ i \in 1 .. Len(b) /\ i + 1 \in 1 .. Len(b) /\ i # i + 1
  OBVIOUS
<1>4. r = [j \in 1 .. Len(b) |-> IF j = i THEN lo ELSE IF j = i + 1 THEN hi ELSE b[j]]
  <2>1. r = [b EXCEPT ![i] = lo, ![i + 1] = hi]
    BY <1>2 DEF With
  <2> HIDE DEF lo, hi, r
  <2>2. DOMAIN b = 1 .. Len(b) /\ b = [j \in 1 .. Len(b) |-> b[j]]
    OBVIOUS
  <2> QED
    BY <2>1, <2>2, <1>3
<1>5. /\ n \in Nat /\ h \in 1 .. n /\ i = 2 * h - 1 /\ i + 1 = 2 * h /\ 2 * h <= Len(b)
  BY <1>3 DEF WordCount
<1> HIDE DEF r, lo, hi, n, h
<1>6. \A j \in 1 .. Len(b) : r[j] = IF j = i THEN lo ELSE IF j = i + 1 THEN hi ELSE b[j]
  BY <1>4
<1>7. r \in Seq(Nat) /\ Len(r) = Len(b)
  <2>1. \A j \in 1 .. Len(b) : (IF j = i THEN lo ELSE IF j = i + 1 THEN hi ELSE b[j]) \in Nat
    BY <1>1
  <2>2. r \in [1 .. Len(b) -> Nat]
    BY <1>4, <2>1
  <2> QED
    BY <1>3, <2>2
<1>8. WordCount(r) = n
  BY <1>7 DEF WordCount, n
<1>9. ASSUME NEW k \in 1 .. n
      PROVE  /\ NativeWords(b)[k] \in Nat
             /\ NativeWords(r)[k] = NativeWords(b)[k] + IF k = h THEN c ELSE 0
  <2>1. /\ NativeWords(b)[k] = b[2 * k - 1] + 256 * (IF 2 * k <= Len(b) THEN b[2 * k] ELSE 0)
        /\ NativeWords(b)[k] \in Nat
        /\ 2 * k - 1 \in 1 .. Len(b)
    BY WordsOf DEF n
  <2> HIDE DEF r
  <2>2. NativeWords(r)[k] = r[2 * k - 1] + 256 * (IF 2 * k <= Len(b) THEN r[2 * k] ELSE 0)
    BY <1>7, <1>8, NativeWordIs
  <2>3. CASE k = h
    <3>1. 2 * k - 1 = i /\ 2 * k = i + 1 /\ 2 * k <= Len(b)
      BY <2>3, <1>5
    <3>2. r[2 * k - 1] = lo /\ r[2 * k] = hi
      BY <3>1, <1>3, <1>6
    <3>3. b[2 * k - 1] = 0 /\ b[2 * k] = 0
      BY <3>1
    <3> QED
      <4> DEFINE x == NativeWords(r)[k]
                 y == NativeWords(b)[k]
      <4>1. x = lo + 256 * hi /\ y = 0
        BY <2>1, <2>2, <3>1, <3>2, <3>3
      <4> HIDE DEF x, y
      <4>2. x = y + c /\ y \in Nat
        BY <1>1, <4>1
      <4> QED
        BY <2>3, <4>2 DEF x, y
  <2>4. CASE k # h
    <3>1. /\ 2 * k - 1 # i /\ 2 * k - 1 # i + 1 /\ 2 * k # i /\ 2 * k # i + 1
          /\ 2 * k <= Len(b) => 2 * k \in 1 .. Len(b)
      BY <2>1, <2>4, <1>5
    <3>2. r[2 * k - 1] = b[2 * k - 1]
      BY <3>1, <1>6, <2>1
    <3>3. 2 * k <= Len(b) => r[2 * k] = b[2 * k]
      BY <3>1, <1>6
    <3>4. NativeWords(r)[k] = NativeWords(b)[k]
      BY <2>1, <2>2, <3>2, <3>3
    <3> QED
      BY <2>1, <2>4, <3>4
  <2> QED
    BY <2>3, <2>4
<1>10. SumOfWords(0, NativeWords(r), n) = SumOfWords(0, NativeWords(b), n) + c
  <2> DEFINE w == NativeWords(b)
             u == NativeWords(r)
  <2>1. /\ n \in Nat /\ h \in 1 .. n /\ c \in Nat
        /\ Raised(w, u, n, h, c)
    BY <1>5, <1>9 DEF Raised
  <2> HIDE DEF w, u
  <2>2. SumOfWords(0, u, n) = SumOfWords(0, w, n) + c
    BY <2>1, SumWith
  <2> QED
    BY <2>2 DEF w, u
<1>11. Native(r) = Native(b) + c
  BY <1>8, <1>10 DEF Native, n
<1> QED
  BY <1>6, <1>7, <1>11 DEF r

\* What sums up to ones only in one order of bytes does so in the other.
LEMMA OnesAreAccepted ==
  ASSUME NEW b \in Seq(Nat), Native(b) > 0, Ones(Native(b))
  PROVE  Accepted(b)
<1> DEFINE n == Native(b)
           s == SumOf(b)
<1>1. ASSUME NEW k \in 1 .. WordCount(b)
      PROVE  /\ NativeWords(b)[k] \in Nat /\ NetWords(b)[k] \in Nat
             /\ Ones(256 * NativeWords(b)[k] - NetWords(b)[k])
             /\ NativeWords(b)[k] <= 256 * NetWords(b)[k]
  <2> DEFINE first == b[2 * k - 1]
             second == IF 2 * k <= Len(b) THEN b[2 * k] ELSE 0
             d == 256 * NativeWords(b)[k] - NetWords(b)[k]
  <2>1. /\ NativeWords(b)[k] = first + 256 * second
        /\ NetWords(b)[k] = 256 * first + second
        /\ NativeWords(b)[k] \in Nat /\ NetWords(b)[k] \in Nat
    BY WordsOf
  <2>2. first \in Nat /\ second \in Nat
    <3>1. 2 * k - 1 \in 1 .. Len(b) /\ Len(b) \in Nat
      BY WordsOf
    <3> QED
      BY <3>1
  <2> HIDE DEF first, second
  <2>3. d = 65535 * second /\ NativeWords(b)[k] <= 256 * NetWords(b)[k]
    BY <2>1, <2>2
  <2> HIDE DEF d
  <2>4. Ones(d)
    BY <2>2, <2>3, OnesOf
  <2> QED
    BY <2>1, <2>3, <2>4 DEF d
<1>2. Ones(256 * n - s) /\ n <= 256 * s
  BY <1>1, WordsOf, SumSwapped DEF Native, SumOf
<1>3. n \in Nat /\ s \in Nat
  BY WordsOf, SumIsNat DEF Native, SumOf
<1> HIDE DEF n, s
<1>4. s > 0
  BY <1>2, <1>3 DEF n
<1>5. Ones(256 * n)
  BY <1>3, OnesAdd DEF n
<1>6. PICK p \in Int : 256 * n = 65535 * p
  BY <1>5 DEF Ones
<1>7. PICK q \in Int : 256 * n - s = 65535 * q
  BY <1>2 DEF Ones
<1>8. s = 65535 * (p - q)
  BY <1>3, <1>6, <1>7
<1>9. s % 65535 = 0
  BY <1>3, <1>8
<1> QED
  BY <1>4, <1>9 DEF Accepted, s

\* The complement of what is left of a sum makes it ones only.
LEMMA ComplementSeals ==
  ASSUME NEW total \in Nat, NEW c, c = 65535 - Rest(total)
  PROVE  c \in Nat /\ total + c > 0 /\ Ones(total + c)
<1> DEFINE r == Rest(total)
           n == total + c
<1>1. r \in Nat /\ r <= 65535 /\ (r = 0 <=> total = 0) /\ Ones(total - r)
  BY RestIs
<1>2. PICK q \in Int : total - r = 65535 * q
  BY <1>1 DEF Ones
<1>3. c = 65535 - r
  OBVIOUS
<1> HIDE DEF r
<1>4. n = 65535 * (q + 1) /\ n > 0 /\ c \in Nat
  BY <1>1, <1>2, <1>3
<1> DEFINE p == q + 1
<1>5. p \in Int /\ n = 65535 * p
  BY <1>4
<1> HIDE DEF n, p
<1>6. Ones(n)
  BY <1>5, OnesOf
<1> QED
  BY <1>4, <1>6 DEF n

LEMMA RestIsNat ==
  ASSUME NEW n \in Nat
  PROVE  Rest(n) \in Nat
BY RestIs

IsMask(m) == m = 65535

\* What the complement of a sum is taken from is not less than the sum.
LEMMA RestLeaves ==
  ASSUME NEW n \in Nat, NEW m, IsMask(m)
  PROVE  m - Rest(n) \in Nat /\ Rest(n) <= m /\ m \in Nat
BY RestIs DEF IsMask

LEMMA EvenSum ==
  ASSUME NEW x \in Nat, NEW y \in Nat, x % 2 = 0, y % 2 = 0
  PROVE  (x + y) % 2 = 0
OBVIOUS

\* What a value written over two bytes leaves of a block.
IsWith(r, b, i, v) ==
  /\ b \in Seq(Nat) /\ i \in Nat /\ i > 0 /\ i + 1 <= Len(b)
  /\ v[1] \in Nat /\ v[2] \in Nat
  /\ r = With(b, i, v)

LEMMA WithIs ==
  ASSUME NEW r, NEW b, NEW i, NEW v, IsWith(r, b, i, v)
  PROVE  /\ r \in Seq(Nat) /\ Len(r) = Len(b)
         /\ r[i] = v[1] /\ r[i + 1] = v[2]
         /\ \A j \in 1 .. Len(b) : j \notin {i, i + 1} => r[j] = b[j]
<1> DEFINE x == v[1]
           y == v[2]
<1>1. b \in Seq(Nat) /\ i \in Nat /\ i > 0 /\ i + 1 <= Len(b) /\ x \in Nat /\ y \in Nat
  BY DEF IsWith
<1>2. Len(b) \in Nat /\ i \in 1 .. Len(b) /\ i + 1 \in 1 .. Len(b) /\ i # i + 1
  BY <1>1
<1>3. r = [j \in 1 .. Len(b) |-> IF j = i + 1 THEN y ELSE IF j = i THEN x ELSE b[j]]
  <2>1. r = [b EXCEPT ![i] = x, ![i + 1] = y]
    BY DEF With, IsWith
  <2> HIDE DEF x, y
  <2>2. DOMAIN b = 1 .. Len(b) /\ b = [j \in 1 .. Len(b) |-> b[j]]
    BY <1>1
  <2> QED
    BY <2>1, <2>2, <1>2
<1> HIDE DEF x, y
<1>4. \A j \in 1 .. Len(b) : r[j] = IF j = i + 1 THEN y ELSE IF j = i THEN x ELSE b[j]
  BY <1>3
<1>5. r \in Seq(Nat) /\ Len(r) = Len(b)
  <2>1. \A j \in 1 .. Len(b) : (IF j = i + 1 THEN y ELSE IF j = i THEN x ELSE b[j]) \in Nat
    BY <1>1
  <2>2. r \in [1 .. Len(b) -> Nat]
    BY <1>3, <2>1
  <2> QED
    BY <1>2, <2>2
<1> QED
  BY <1>2, <1>4, <1>5 DEF x, y

\* A block with a checksum over itself is one its receiver accepts.
LEMMA SealedByItself ==
  ASSUME NEW b \in Seq(Nat), NEW i \in Nat, i % 2 = 1, i + 1 <= Len(b), b[i] = 0, b[i + 1] = 0
  PROVE  Accepted(With(b, i, Complement(calc_checksum(0, b))))
<1> DEFINE t == Native(b)
           c == 65535 - Rest(t)
           r == With(b, i, Native16(c))
<1>1. t \in Nat
  BY NativeIsNat
<1>2. calc_checksum(0, b) = Rest(t)
  <2>1. calc_checksum(0, b) = Rest(0 + t)
    BY ChecksumIsRest
  <2>2. 0 + t = t
    BY <1>1
  <2> QED
    BY <2>1, <2>2
<1>3. With(b, i, Complement(calc_checksum(0, b))) = r
  BY <1>2 DEF Complement
<1>4. c = 65535 - Rest(t)
  OBVIOUS
<1> HIDE DEF c, t
<1>5. c \in Nat /\ t + c > 0 /\ Ones(t + c)
  BY <1>1, <1>4, ComplementSeals
<1>6. r \in Seq(Nat) /\ Native(r) = t + c
  BY <1>5, NativeWith DEF t
<1> HIDE DEF r
<1>7. Accepted(r)
  BY <1>5, <1>6, OnesAreAccepted
<1> QED
  BY <1>3, <1>7

\* A checksum that is continued over four blocks.
LEMMA ContinuedChecksum ==
  ASSUME NEW p \in Seq(Nat), NEW h \in Seq(Nat), NEW o \in Seq(Nat), NEW d \in Seq(Nat)
  PROVE  calc_checksum(calc_checksum(calc_checksum(calc_checksum(0, p), h), o), d)
           = Rest(Native(p) + Native(h) + Native(o) + Native(d))
<1> DEFINE np == Native(p)
           nh == Native(h)
           no == Native(o)
           nd == Native(d)
           cp == calc_checksum(0, p)
           ch == calc_checksum(cp, h)
           co == calc_checksum(ch, o)
<1>1. np \in Nat /\ nh \in Nat /\ no \in Nat /\ nd \in Nat
  BY NativeIsNat
<1>2. cp = Rest(np) /\ cp \in Nat
  <2>1. cp = Rest(0 + np)
    BY ChecksumIsRest
  <2>2. 0 + np = np
    BY <1>1
  <2> HIDE DEF cp, np
  <2> QED
    BY <1>1, <2>1, <2>2, RestIs
<1> HIDE DEF cp
<1>3. ch = Rest(np + nh) /\ ch \in Nat
  <2>1. ch = Rest(cp + nh)
    BY <1>2, ChecksumIsRest
  <2> HIDE DEF ch, np, nh
  <2>2. Rest(Rest(np) + nh) = Rest(np + nh)
    BY <1>1, RestOfRest
  <2>3. np + nh \in Nat
    BY <1>1
  <2>4. Rest(np + nh) \in Nat
    BY <2>3, RestIs
  <2> QED
    BY <1>2, <2>1, <2>2, <2>4
<1> HIDE DEF ch
<1>4. co = Rest(np + nh + no) /\ co \in Nat
  <2>1. co = Rest(ch + no)
    BY <1>3, ChecksumIsRest
  <2> DEFINE a == np + nh
             s == a + no
  <2>2. a \in Nat /\ s \in Nat
    BY <1>1
  <2> HIDE DEF co, np, nh, no, a
  <2>3. Rest(Rest(a) + no) = Rest(s)
    BY <1>1, <2>2, RestOfRest
  <2>4. Rest(s) \in Nat
    BY <2>2, RestIsNat
  <2> HIDE DEF s
  <2>5. co = Rest(s)
    BY <1>3, <2>1, <2>3 DEF a
  <2> QED
    BY <2>4, <2>5 DEF s, a
<1> HIDE DEF co
<1> DEFINE cd == calc_checksum(co, d)
<1>5. cd = Rest(co + nd)
  BY <1>4, ChecksumIsRest
<1> DEFINE a == np + nh + no
<1>6. a \in Nat
  BY <1>1
<1> HIDE DEF cd, np, nh, no, nd, a
<1>7. Rest(Rest(a) + nd) = Rest(a + nd)
  BY <1>1, <1>6, RestOfRest
<1>8. cd = Rest(a + nd)
  BY <1>4, <1>5, <1>7 DEF a
<1> QED
  BY <1>8 DEF cd, a, np, nh, no, nd, co, ch, cp

\* A block whose checksum counts a pseudo header, itself, its options and its data is one
\* its receiver accepts, who sums another pseudo header with the same words.
MaySeal(p, q, h, o, d, i, csum) ==
  /\ p \in Seq(Nat) /\ q \in Seq(Nat) /\ Len(q) % 2 = 0 /\ Native(q) = Native(p)
  /\ h \in Seq(Nat) /\ Len(h) % 2 = 0 /\ o \in Seq(Nat) /\ Len(o) % 2 = 0 /\ d \in Seq(Nat)
  /\ i \in Nat /\ i % 2 = 1 /\ i + 1 <= Len(h) /\ h[i] = 0 /\ h[i + 1] = 0
  /\ csum = calc_checksum(calc_checksum(calc_checksum(calc_checksum(0, p), h), o), d)
IsSealed(w, q, h, o, d) ==
  w \in Seq(Nat) /\ Len(w) = Len(h) /\ Accepted(q \o ((w \o o) \o d))

LEMMA SealedWithPseudo ==
  ASSUME NEW p, NEW q, NEW h, NEW o, NEW d, NEW i, NEW csum, MaySeal(p, q, h, o, d, i, csum)
  PROVE  IsSealed(With(h, i, Complement(csum)), q, h, o, d)
<1>1. /\ p \in Seq(Nat) /\ q \in Seq(Nat) /\ Len(q) % 2 = 0 /\ Native(q) = Native(p)
       /\ h \in Seq(Nat) /\ Len(h) % 2 = 0 /\ o \in Seq(Nat) /\ Len(o) % 2 = 0 /\ d \in Seq(Nat)
       /\ i \in Nat /\ i % 2 = 1 /\ i + 1 <= Len(h) /\ h[i] = 0 /\ h[i + 1] = 0
       /\ csum = calc_checksum(calc_checksum(calc_checksum(calc_checksum(0, p), h), o), d)
  BY DEF MaySeal
<1>2. p \in Seq(Nat) /\ h \in Seq(Nat) /\ o \in Seq(Nat) /\ d \in Seq(Nat)
  BY <1>1
<1> DEFINE t == Native(p) + Native(h) + Native(o) + Native(d)
           c == 65535 - Rest(t)
           w == With(h, i, Native16(c))
<1>3. Len(h) \in Nat /\ Len(o) \in Nat
  BY <1>2, LenProperties
<1>4. Native(p) \in Nat /\ Native(h) \in Nat /\ Native(o) \in Nat /\ Native(d) \in Nat
  BY <1>2, NativeIsNat
<1>5. t \in Nat
  BY <1>4
<1>6. csum = Rest(t)
  BY <1>1, ContinuedChecksum
<1>7. With(h, i, Complement(csum)) = w
  BY <1>6 DEF Complement
<1>8. c = 65535 - Rest(t)
  OBVIOUS
<1> HIDE DEF c, t
<1>9. c \in Nat /\ t + c > 0 /\ Ones(t + c)
  BY <1>5, <1>8, ComplementSeals
<1>10. w \in Seq(Nat) /\ Len(w) = Len(h) /\ Native(w) = Native(h) + c
  BY <1>9, <1>1, NativeWith
<1> HIDE DEF w
<1> DEFINE wo == w \o o
           wod == wo \o d
           all == q \o wod
<1>11. wo \in Seq(Nat) /\ Native(wo) = Native(w) + Native(o) /\ Len(wo) = Len(h) + Len(o)
  <2>1. Len(w) % 2 = 0
    BY <1>10, <1>1
  <2> QED
    BY <1>10, <1>2, <2>1, NativeConcat
<1> HIDE DEF wo
<1>12. Len(wo) % 2 = 0
  <2> DEFINE x == Len(h)
             y == Len(o)
             z == Len(wo)
  <2>1. x \in Nat /\ y \in Nat /\ x % 2 = 0 /\ y % 2 = 0 /\ z = x + y
    BY <1>11, <1>3, <1>1
  <2> HIDE DEF x, y, z
  <2>2. z % 2 = 0
    BY <2>1, EvenSum
  <2> QED
    BY <2>2 DEF z
<1>13. wod \in Seq(Nat) /\ Native(wod) = Native(wo) + Native(d)
  BY <1>11, <1>12, <1>2, NativeConcat
<1> HIDE DEF wod
<1>14. all \in Seq(Nat) /\ Native(all) = Native(q) + Native(wod)
  BY <1>13, <1>1, NativeConcat
<1> HIDE DEF all
<1>15. Native(all) = t + c
  <2> DEFINE np == Native(p)
             nh == Native(h)
             no == Native(o)
             nd == Native(d)
  <2>1. np \in Nat /\ nh \in Nat /\ no \in Nat /\ nd \in Nat /\ c \in Nat /\ t = np + nh + no + nd
    BY <1>4, <1>9 DEF t
  <2>2. Native(all) = np + (((nh + c) + no) + nd)
    BY <1>1, <1>10, <1>11, <1>13, <1>14
  <2> HIDE DEF np, nh, no, nd
  <2> QED
    BY <2>1, <2>2
<1>16. Accepted(all)
  BY <1>9, <1>14, <1>15, OnesAreAccepted
<1> QED
  BY <1>7, <1>10, <1>16 DEF IsSealed, all, wod, wo

-----------------------------------------------------------------------------
(* Packets *)

LEMMA Tuple12 ==
  ASSUME NEW a \in Nat, NEW b \in Nat, NEW c \in Nat, NEW t,
         t = <<69, 0, a, b, 0, 0, 0, 0, 64, c, 0, 0>>
  PROVE  /\ t \in Seq(Nat) /\ Len(t) = 12
         /\ t[1] = 69 /\ t[3] = a /\ t[4] = b /\ t[10] = c /\ t[11] = 0 /\ t[12] = 0
<1>1. DOMAIN t = 1 .. 12 /\ Len(t) = 12 /\ t = [k \in 1 .. 12 |-> t[k]]
  OBVIOUS
<1>2. \A k \in 1 .. 12 : t[k] \in Nat
  OBVIOUS
<1> QED
  BY <1>1, <1>2

LEMMA Tuple8 ==
  ASSUME NEW a \in Nat, NEW b \in Nat, NEW c \in Nat, NEW d \in Nat, NEW e \in Nat, NEW f \in Nat,
         NEW g \in Nat, NEW h \in Nat, NEW t,
         t = <<a, b, c, d, e, f, g, h>>
  PROVE  /\ t \in Seq(Nat) /\ Len(t) = 8
         /\ t[1] = a /\ t[2] = b /\ t[3] = c /\ t[4] = d
         /\ t[5] = e /\ t[6] = f /\ t[7] = g /\ t[8] = h
<1>1. DOMAIN t = 1 .. 8 /\ Len(t) = 8 /\ t = [k \in 1 .. 8 |-> t[k]]
  OBVIOUS
<1>2. \A k \in 1 .. 8 : t[k] \in Nat
  OBVIOUS
<1> QED
  BY <1>1, <1>2

\* The sum of a block of eight bytes.
IsEight(t, a, b, c, d, e, f, g, h) ==
  /\ a \in Nat /\ b \in Nat /\ c \in Nat /\ d \in Nat
  /\ e \in Nat /\ f \in Nat /\ g \in Nat /\ h \in Nat
  /\ t = <<a, b, c, d, e, f, g, h>>

LEMMA SumOfEight ==
  ASSUME NEW t, NEW a, NEW b, NEW c, NEW d, NEW e, NEW f, NEW g, NEW h,
         IsEight(t, a, b, c, d, e, f, g, h)
  PROVE  Native(t) = (a + 256 * b) + (c + 256 * d) + (e + 256 * f) + (g + 256 * h)
<1>1. /\ a \in Nat /\ b \in Nat /\ c \in Nat /\ d \in Nat
      /\ e \in Nat /\ f \in Nat /\ g \in Nat /\ h \in Nat
  BY DEF IsEight
<1>2. /\ t \in Seq(Nat) /\ Len(t) = 8
      /\ t[1] = a /\ t[2] = b /\ t[3] = c /\ t[4] = d
      /\ t[5] = e /\ t[6] = f /\ t[7] = g /\ t[8] = h
  BY <1>1, Tuple8 DEF IsEight
<1>3. WordCount(t) = 4
  BY <1>2 DEF WordCount
<1> DEFINE w == NativeWords(t)
<1>4. w[1] = a + 256 * b /\ w[2] = c + 256 * d /\ w[3] = e + 256 * f /\ w[4] = g + 256 * h
  BY <1>2, <1>3 DEF NativeWords
<1> HIDE DEF w
<1>5. /\ SumOfWords(0, w, 0) = 0
      /\ SumOfWords(0, w, 1) = SumOfWords(0, w, 0) + w[1]
      /\ SumOfWords(0, w, 2) = SumOfWords(0, w, 1) + w[2]
      /\ SumOfWords(0, w, 3) = SumOfWords(0, w, 2) + w[3]
      /\ SumOfWords(0, w, 4) = SumOfWords(0, w, 3) + w[4]
  <2>1. /\ SumOfWords(0, w, 0) = 0
        /\ \A n \in Nat \ {0} : SumOfWords(0, w, n) = SumOfWords(0, w, n - 1) + w[n]
    BY SumSteps
  <2>2. 1 - 1 = 0 /\ 2 - 1 = 1 /\ 3 - 1 = 2 /\ 4 - 1 = 3
    OBVIOUS
  <2> QED
    BY <2>1, <2>2
<1>6. SumOfWords(0, w, 4) = (a + 256 * b) + (c + 256 * d) + (e + 256 * f) + (g + 256 * h)
  BY <1>1, <1>4, <1>5
<1> QED
  BY <1>3, <1>6 DEF Native, w

\* A piece of a block is known by its bytes.
LEMMA PieceIs ==
  ASSUME NEW b \in Seq(Nat), NEW k \in Nat, NEW l \in Nat, k > 0, l <= Len(b), k <= l + 1,
         NEW t \in Seq(Nat), Len(t) = l + 1 - k,
         \A i \in 1 .. Len(t) : b[k + i - 1] = t[i]
  PROVE  SubSeq(b, k, l) = t
<1> DEFINE r == SubSeq(b, k, l)
<1>1. k \in Int /\ l \in Int /\ \A i \in k .. l : b[i] \in Nat
  OBVIOUS
<1>2. /\ r \in Seq(Nat)
      /\ Len(r) = IF k <= l THEN l - k + 1 ELSE 0
      /\ \A i \in 1 .. l - k + 1 : r[i] = b[k + i - 1]
  <2>1. r \in Seq(Nat) /\ Len(r) = IF k <= l THEN l - k + 1 ELSE 0
    BY <1>1, SubSeqProperties
  <2>2. \A i \in 1 .. l - k + 1 : r[i] = b[k + i - 1]
    BY <1>1, SubSeqProperties
  <2> QED
    BY <2>1, <2>2
<1> HIDE DEF r
<1>3. Len(r) = Len(t) /\ l - k + 1 = Len(t) /\ Len(r) \in Nat
  BY <1>2
<1>4. \A i \in 1 .. Len(r) : r[i] = t[i]
  <2> TAKE i \in 1 .. Len(r)
  <2>1. i \in 1 .. Len(t) /\ i \in 1 .. l - k + 1
    BY <1>3
  <2>2. r[i] = b[k + i - 1]
    BY <1>2, <2>1
  <2>3. b[k + i - 1] = t[i]
    BY <2>1
  <2> QED
    BY <2>2, <2>3
<1>5. r = t
  BY <1>2, <1>3, <1>4, SeqEqual
<1> QED
  BY <1>5 DEF r

\* What is in front and what is behind in two blocks put together.
LEMMA PartsOf ==
  ASSUME NEW s \in Seq(Nat), NEW t \in Seq(Nat)
  PROVE  /\ SubSeq(s \o t, 1, Len(s)) = s
         /\ From(s \o t, Len(s) + 1) = t
<1> DEFINE b == s \o t
           m == Len(s)
           n == Len(t)
           k == m + 1
           l == m + n
<1>1. /\ b \in Seq(Nat) /\ Len(b) = m + n /\ m \in Nat /\ n \in Nat
      /\ \A i \in 1 .. m + n : b[i] = IF i <= m THEN s[i] ELSE t[i - m]
  <2>1. b \in Seq(Nat) /\ Len(b) = m + n /\ m \in Nat /\ n \in Nat
    BY ConcatProperties, LenProperties
  <2>2. \A i \in 1 .. m + n : b[i] = IF i <= m THEN s[i] ELSE t[i - m]
    BY ConcatProperties
  <2> QED
    BY <2>1, <2>2
<1> HIDE DEF b
<1>2. SubSeq(b, 1, m) = s
  <2>1. \A i \in 1 .. m : i \in 1 .. m + n /\ i <= m /\ 1 + i - 1 = i
    BY <1>1
  <2>2. \A i \in 1 .. Len(s) : b[1 + i - 1] = s[i]
    BY <1>1, <2>1
  <2>3. m <= Len(b) /\ 1 <= m + 1 /\ Len(s) = m + 1 - 1 /\ 1 \in Nat /\ m \in Nat /\ 1 > 0
    BY <1>1
  <2> HIDE DEF m
  <2> QED
    BY <1>1, <2>2, <2>3, PieceIs
<1>3. From(b, k) = t
  <2>1. \A i \in 1 .. Len(t) : b[k + i - 1] = t[i]
    <3> TAKE i \in 1 .. Len(t)
    <3> DEFINE j == k + i - 1
    <3>1. j \in 1 .. m + n /\ ~(j <= m) /\ j - m = i
      BY <1>1
    <3> HIDE DEF j
    <3>2. b[j] = t[i]
      BY <1>1, <3>1
    <3> QED
      BY <3>2 DEF j
  <2>2. /\ k \in Nat /\ l \in Nat /\ k > 0 /\ l <= Len(b) /\ k <= l + 1 /\ Len(t) = l + 1 - k
        /\ Len(b) = l
    BY <1>1
  <2> HIDE DEF k, l
  <2>3. SubSeq(b, k, l) = t
    BY <1>1, <2>1, <2>2, PieceIs
  <2> QED
    BY <2>2, <2>3 DEF From
<1> QED
  BY <1>2, <1>3 DEF b, m, k

Byte == {n \in Nat : n < 256}
Short == {n \in Nat : n < 65536}

\* A session of the native code: addresses of its version, and what its fields hold.
IsSession(cur) ==
  /\ cur.version \in {4, 6}
  /\ cur.saddr \in Seq(Byte) /\ Len(cur.saddr) = IF cur.version = 4 THEN 4 ELSE 16
  /\ cur.daddr \in Seq(Byte) /\ Len(cur.daddr) = IF cur.version = 4 THEN 4 ELSE 16
  /\ cur.source \in Short /\ cur.dest \in Short /\ cur.window \in Short /\ cur.mss \in Short
  /\ cur.recv_scale \in Byte
  /\ cur.id \in Seq(Byte) /\ Len(cur.id) = 2

LEMMA BytesAreNats ==
  ASSUME NEW s \in Seq(Byte)
  PROVE  s \in Seq(Nat) /\ Len(s) \in Nat
<1>1. Len(s) \in Nat /\ s \in [1 .. Len(s) -> Byte]
  BY LenProperties
<1>2. Byte \subseteq Nat
  BY DEF Byte
<1>3. \A i \in 1 .. Len(s) : s[i] \in Nat
  BY <1>1, <1>2
<1>4. s \in [1 .. Len(s) -> Nat]
  BY <1>1, <1>3
<1> QED
  BY <1>1, <1>4

\* Two blocks of m and of n bytes put together.
IsJoin(b, s, t, m, n, k) ==
  /\ s \in Seq(Nat) /\ Len(s) = m /\ m \in Nat
  /\ t \in Seq(Nat) /\ Len(t) = n /\ n \in Nat
  /\ k = m + n
  /\ b = s \o t

JoinedBytes(b, s, t, m, n) ==
  /\ \A i \in 1 .. m : b[i] = s[i]
  /\ \A i \in 1 .. n : b[m + i] = t[i]

LEMMA JoinIs ==
  ASSUME NEW b, NEW s, NEW t, NEW m, NEW n, NEW k, IsJoin(b, s, t, m, n, k)
  PROVE  /\ b \in Seq(Nat) /\ Len(b) = k
         /\ JoinedBytes(b, s, t, m, n)
         /\ m % 2 = 0 => Native(b) = Native(s) + Native(t)
<1>1. k = m + n /\ s \in Seq(Nat) /\ Len(s) = m /\ m \in Nat /\ t \in Seq(Nat) /\ Len(t) = n /\ n \in Nat
  BY DEF IsJoin
<1>2. /\ b \in Seq(Nat) /\ Len(b) = m + n
      /\ \A i \in 1 .. m + n : b[i] = IF i <= m THEN s[i] ELSE t[i - m]
  BY ConcatProperties DEF IsJoin
<1>3. \A i \in 1 .. m : b[i] = s[i]
  BY <1>1, <1>2
<1>4. ASSUME NEW i \in 1 .. n PROVE b[m + i] = t[i]
  <2> DEFINE j == m + i
  <2>1. j \in 1 .. m + n /\ ~(j <= m) /\ j - m = i
    BY <1>1
  <2> HIDE DEF j
  <2>2. b[j] = t[i]
    BY <1>2, <2>1
  <2> QED
    BY <2>2 DEF j
<1>5. m % 2 = 0 => Native(b) = Native(s) + Native(t)
  BY <1>1, NativeConcat DEF IsJoin
<1> QED
  BY <1>1, <1>2, <1>3, <1>4, <1>5 DEF JoinedBytes

LEMMA HighAndLow ==
  ASSUME NEW n \in Nat
  PROVE  High(n) \in Nat /\ Low(n) \in Nat /\ 256 * High(n) + Low(n) = n
BY DEF High, Low

LEMMA HalvesAreNats ==
  ASSUME NEW n \in Nat
  PROVE  High(n) \in Nat /\ Low(n) \in Nat
BY DEF High, Low

\* The pseudo header that is summed and the receiver's have the same words.
LEMMA PseudosAgree ==
  ASSUME NEW cur, IsSession(cur), NEW protocol \in Nat, NEW len \in Nat
  PROVE  LET p == Pseudo(cur, protocol, len)
             q == PseudoHeader(cur, protocol, len)
         IN /\ p \in Seq(Nat) /\ q \in Seq(Nat) /\ Len(q) % 2 = 0
            /\ Native(q) = Native(p)
<1> DEFINE s == cur.saddr
           d == cur.daddr
           h == High(len)
           l == Low(len)
           p == Pseudo(cur, protocol, len)
           q == PseudoHeader(cur, protocol, len)
           ds == d \o s
           sd == s \o d
<1>1. s \in Seq(Nat) /\ d \in Seq(Nat)
  BY BytesAreNats DEF IsSession
<1> DEFINE size == IF cur.version = 4 THEN 4 ELSE 16
<1>2. Len(s) = size /\ Len(d) = size
  BY DEF IsSession
<1>3. size \in Nat /\ size % 2 = 0 /\ (size + size) % 2 = 0 /\ size + size \in Nat
  OBVIOUS
<1>4. h \in Nat /\ l \in Nat
  BY HighAndLow
<1> HIDE DEF s, d, h, l, size
<1> DEFINE double == size + size
<1>5. /\ ds \in Seq(Nat) /\ Len(ds) = double /\ Native(ds) = Native(d) + Native(s)
      /\ sd \in Seq(Nat) /\ Len(sd) = double /\ Native(sd) = Native(s) + Native(d)
  <2>1. IsJoin(ds, d, s, size, size, double) /\ IsJoin(sd, s, d, size, size, double)
    BY <1>1, <1>2, <1>3 DEF IsJoin
  <2> HIDE DEF ds, sd
  <2>2. ds \in Seq(Nat) /\ Len(ds) = double /\ (size % 2 = 0 => Native(ds) = Native(d) + Native(s))
    BY <2>1, JoinIs
  <2>3. sd \in Seq(Nat) /\ Len(sd) = double /\ (size % 2 = 0 => Native(sd) = Native(s) + Native(d))
    BY <2>1, JoinIs
  <2> QED
    BY <1>3, <2>2, <2>3
<1>6. double \in Nat /\ double % 2 = 0 /\ (double + 4) % 2 = 0 /\ (double + 8) % 2 = 0
  BY <1>3
<1> HIDE DEF double
<1>7. CASE cur.version = 4
  <2> DEFINE t == <<0, protocol, h, l>>
  <2>1. t \in Seq(Nat) /\ Len(t) = 4 /\ 4 \in Nat
    BY <1>4
  <2>2. p = ds \o t /\ q = ds \o t
    BY <1>7 DEF Pseudo, PseudoHeader, s, d, h, l
  <2> HIDE DEF t, ds, p, q
  <2>3. p \in Seq(Nat) /\ Len(p) = double + 4
    <3>1. IsJoin(p, ds, t, double, 4, double + 4)
      BY <1>5, <1>6, <2>1, <2>2 DEF IsJoin
    <3> QED
      BY <3>1, JoinIs
  <2>4. q = p /\ Len(q) % 2 = 0
    BY <1>6, <2>2, <2>3
  <2> QED
    BY <2>3, <2>4 DEF p, q
<1>8. CASE cur.version # 4
  <2> DEFINE t == <<h, l, 0, 0, 0, 0, 0, protocol>>
             u == <<0, 0, h, l, 0, 0, 0, protocol>>
  <2>1. p = sd \o t /\ q = ds \o u
    BY <1>8 DEF Pseudo, PseudoHeader, s, d, h, l
  <2>2. t = <<h, l, 0, 0, 0, 0, 0, protocol>> /\ u = <<0, 0, h, l, 0, 0, 0, protocol>>
    OBVIOUS
  <2> HIDE DEF t, u, ds, sd, p, q
  <2>3. t \in Seq(Nat) /\ Len(t) = 8 /\ u \in Seq(Nat) /\ Len(u) = 8 /\ 8 \in Nat
    <3>1. 0 \in Nat /\ 8 \in Nat
      OBVIOUS
    <3> QED
      BY <1>4, <2>2, <3>1, Tuple8
  <2>4. IsEight(t, h, l, 0, 0, 0, 0, 0, protocol) /\ IsEight(u, 0, 0, h, l, 0, 0, 0, protocol)
    BY <1>4, <2>2 DEF IsEight
  <2>5. Native(t) = (h + 256 * l) + (0 + 256 * 0) + (0 + 256 * 0) + (0 + 256 * protocol)
    BY <2>4, SumOfEight
  <2>6. Native(u) = (0 + 256 * 0) + (h + 256 * l) + (0 + 256 * 0) + (0 + 256 * protocol)
    BY <2>4, SumOfEight
  <2>7. Native(t) = Native(u)
    BY <1>4, <2>5, <2>6
  <2>8. p \in Seq(Nat) /\ Native(p) = Native(sd) + Native(t)
    <3>1. IsJoin(p, sd, t, double, 8, double + 8)
      BY <1>5, <1>6, <2>1, <2>3 DEF IsJoin
    <3> QED
      BY <1>6, <3>1, JoinIs
  <2>9. q \in Seq(Nat) /\ Native(q) = Native(ds) + Native(u) /\ Len(q) = double + 8
    <3>1. IsJoin(q, ds, u, double, 8, double + 8)
      BY <1>5, <1>6, <2>1, <2>3 DEF IsJoin
    <3> QED
      BY <1>6, <3>1, JoinIs
  <2>10. Native(d) \in Nat /\ Native(s) \in Nat
    BY <1>1, NativeIsNat
  <2>11. Native(q) = Native(p) /\ Len(q) % 2 = 0
    BY <1>5, <1>6, <2>7, <2>8, <2>9, <2>10
  <2> QED
    BY <2>8, <2>9, <2>11 DEF p, q
<1> QED
  BY <1>7, <1>8

-----------------------------------------------------------------------------
(* The headers *)

LEMMA ChecksumBytes ==
  ASSUME NEW b \in Seq(Nat)
  PROVE  LET v == Complement(calc_checksum(0, b))
         IN v[1] \in Nat /\ v[2] \in Nat
<1> DEFINE m == 65535
           c == m - calc_checksum(0, b)
           v == Complement(calc_checksum(0, b))
           n == 0 + Native(b)
<1>1. calc_checksum(0, b) = Rest(n)
  BY ChecksumIsRest
<1>2. n \in Nat
  BY NativeIsNat
<1>3. IsMask(m)
  BY DEF IsMask
<1>4. v[1] = Low(c) /\ v[2] = High(c)
  BY DEF Complement, Native16
<1> HIDE DEF n, m, v
<1>5. c \in Nat
  BY <1>1, <1>2, <1>3, RestLeaves
<1> HIDE DEF c
<1>6. v[1] \in Nat /\ v[2] \in Nat
  BY <1>4, <1>5, HalvesAreNats
<1> QED
  BY <1>6 DEF v

IsHeader4(r, cur, protocol, len) ==
  /\ r \in Seq(Nat) /\ Len(r) = 20 /\ Accepted(r)
  /\ r[1] = 69 /\ Number(r, 3) = 20 + len /\ r[10] = protocol
  /\ SubSeq(r, 13, 20) = cur.daddr \o cur.saddr

LEMMA HeaderOf4 ==
  ASSUME NEW cur, IsSession(cur), cur.version = 4, NEW protocol \in Nat, NEW len \in Nat
  PROVE  IsHeader4(Ip4Header(cur, protocol, len), cur, protocol, len)
<1> DEFINE s == cur.saddr
           d == cur.daddr
           total == IpHdr + len
           t == <<69, 0, High(total), Low(total), 0, 0, 0, 0, 64, protocol, 0, 0>>
           td == t \o d
           h == td \o s
           ds == d \o s
           v == Complement(calc_checksum(0, h))
           r == With(h, 11, v)
<1>1. s \in Seq(Nat) /\ d \in Seq(Nat) /\ Len(s) = 4 /\ Len(d) = 4
  BY BytesAreNats DEF IsSession
<1>2. total \in Nat /\ total = 20 + len
  BY DEF IpHdr
<1>3. r = Ip4Header(cur, protocol, len)
  BY DEF Ip4Header
<1> HIDE DEF s, d, total
<1>4. High(total) \in Nat /\ Low(total) \in Nat /\ 256 * High(total) + Low(total) = total
  BY <1>2, HighAndLow
<1>5. /\ t \in Seq(Nat) /\ Len(t) = 12 /\ t[1] = 69 /\ t[3] = High(total) /\ t[4] = Low(total)
      /\ t[10] = protocol /\ t[11] = 0 /\ t[12] = 0
  BY <1>4, Tuple12
<1> HIDE DEF t
<1>6. 12 \in Nat /\ 4 \in Nat /\ 16 \in Nat /\ 12 + 4 = 16 /\ 16 + 4 = 20 /\ 4 + 4 = 8
  OBVIOUS
<1>7. /\ td \in Seq(Nat) /\ Len(td) = 16
      /\ \A i \in 1 .. 12 : td[i] = t[i]
      /\ \A i \in 1 .. 4 : td[12 + i] = d[i]
  <2>1. IsJoin(td, t, d, 12, 4, 16)
    BY <1>1, <1>5, <1>6 DEF IsJoin
  <2> HIDE DEF td
  <2>2. /\ td \in Seq(Nat) /\ Len(td) = 16
        /\ JoinedBytes(td, t, d, 12, 4)
    BY <2>1, JoinIs
  <2> QED
    BY <1>6, <2>2 DEF JoinedBytes
<1> HIDE DEF td
<1>8. /\ h \in Seq(Nat) /\ Len(h) = 20
      /\ \A i \in 1 .. 16 : h[i] = td[i]
      /\ \A i \in 1 .. 4 : h[16 + i] = s[i]
  <2>1. IsJoin(h, td, s, 16, 4, 20)
    BY <1>1, <1>7, <1>6 DEF IsJoin
  <2> HIDE DEF h
  <2>2. /\ h \in Seq(Nat) /\ Len(h) = 20
        /\ JoinedBytes(h, td, s, 16, 4)
    BY <2>1, JoinIs
  <2> QED
    BY <1>6, <2>2 DEF JoinedBytes
<1> HIDE DEF h
<1>9. /\ h[1] = 69 /\ h[3] = High(total) /\ h[4] = Low(total) /\ h[10] = protocol
      /\ h[11] = 0 /\ h[12] = 0
  BY <1>5, <1>7, <1>8
<1>10. /\ \A i \in 1 .. 4 : h[12 + i] = d[i]
      /\ \A i \in 1 .. 4 : h[16 + i] = s[i]
  <2>1. \A i \in 1 .. 4 : 12 + i \in 1 .. 16
    OBVIOUS
  <2> QED
    BY <1>7, <1>8, <2>1
<1>11. Accepted(r)
  <2>1. 11 \in Nat /\ 11 % 2 = 1 /\ 11 + 1 <= Len(h) /\ h[11 + 1] = 0
    BY <1>8, <1>9
  <2> QED
    BY <1>8, <1>9, <2>1, SealedByItself
<1>12. /\ r \in Seq(Nat) /\ Len(r) = 20
       /\ \A j \in 1 .. 20 : j \notin {11, 12} => r[j] = h[j]
  <2>1. v[1] \in Nat /\ v[2] \in Nat
    BY <1>8, ChecksumBytes
  <2>2. 11 \in Nat /\ 11 > 0 /\ 11 + 1 <= Len(h) /\ 11 + 1 = 12
    BY <1>8
  <2>3. r = With(h, 11, v)
    OBVIOUS
  <2> HIDE DEF v, r
  <2>4. r \in Seq(Nat) /\ Len(r) = Len(h) /\ \A j \in 1 .. Len(h) : j \notin {11, 11 + 1} => r[j] = h[j]
    <3>1. IsWith(r, h, 11, v)
      BY <1>8, <2>1, <2>2, <2>3 DEF IsWith
    <3> QED
      BY <3>1, WithIs
  <2> QED
    BY <1>8, <2>2, <2>4
<1> HIDE DEF r
<1>13. r[1] = 69 /\ r[3] = High(total) /\ r[4] = Low(total) /\ r[10] = protocol
  BY <1>9, <1>12
<1>14. Number(r, 3) = 20 + len
  BY <1>2, <1>4, <1>13 DEF Number
<1>15. SubSeq(r, 13, 20) = ds
  <2>1. /\ ds \in Seq(Nat) /\ Len(ds) = 8
        /\ \A i \in 1 .. 4 : ds[i] = d[i]
        /\ \A i \in 1 .. 4 : ds[4 + i] = s[i]
    <3>1. IsJoin(ds, d, s, 4, 4, 8)
      BY <1>1, <1>6 DEF IsJoin
    <3> HIDE DEF ds
    <3>2. /\ ds \in Seq(Nat) /\ Len(ds) = 8
          /\ JoinedBytes(ds, d, s, 4, 4)
      BY <3>1, JoinIs
    <3> QED
      BY <1>6, <3>2 DEF JoinedBytes
  <2> HIDE DEF ds
  <2>2. \A i \in 1 .. Len(ds) : r[13 + i - 1] = ds[i]
    <3> TAKE i \in 1 .. Len(ds)
    <3> DEFINE j == 12 + i
    <3>1. i \in 1 .. 8 /\ 13 + i - 1 = j /\ j \in 1 .. 20 /\ j \notin {11, 12}
      BY <2>1
    <3>2. h[j] = ds[i]
      <4>1. CASE i <= 4
        <5>1. i \in 1 .. 4
          BY <3>1, <4>1
        <5> QED
          BY <1>10, <2>1, <5>1
      <4>2. CASE i > 4
        <5> DEFINE k == i - 4
        <5>1. k \in 1 .. 4 /\ j = 16 + k /\ i = 4 + k
          BY <3>1, <4>2
        <5> HIDE DEF k, j
        <5>2. h[16 + k] = s[k] /\ ds[4 + k] = s[k]
          BY <1>10, <2>1, <5>1
        <5> QED
          BY <5>1, <5>2
      <4> QED
        BY <3>1, <4>1, <4>2
    <3> HIDE DEF j
    <3>3. r[j] = h[j]
      BY <1>12, <3>1
    <3> QED
      BY <3>1, <3>2, <3>3
  <2>3. /\ 13 \in Nat /\ 20 \in Nat /\ 13 > 0 /\ 20 <= Len(r) /\ 13 <= 20 + 1
        /\ Len(ds) = 20 + 1 - 13
    BY <1>12, <2>1
  <2> QED
    BY <1>12, <2>1, <2>2, <2>3, PieceIs
<1> QED
  BY <1>3, <1>11, <1>12, <1>13, <1>14, <1>15 DEF IsHeader4, ds, d, s

IsHeader6(r, cur, protocol, len) ==
  /\ r \in Seq(Nat) /\ Len(r) = 40
  /\ r[1] = 96 /\ Number(r, 5) = len /\ r[7] = protocol
  /\ SubSeq(r, 9, 40) = cur.daddr \o cur.saddr

LEMMA HeaderOf6 ==
  ASSUME NEW cur, IsSession(cur), cur.version # 4, NEW protocol \in Nat, NEW len \in Nat
  PROVE  IsHeader6(Ip6Header(cur, protocol, len), cur, protocol, len)
<1> DEFINE s == cur.saddr
           d == cur.daddr
           t == <<96, 0, 0, 0, High(len), Low(len), protocol, 64>>
           td == t \o d
           r == td \o s
           ds == d \o s
<1>1. s \in Seq(Nat) /\ d \in Seq(Nat) /\ Len(s) = 16 /\ Len(d) = 16
  BY BytesAreNats DEF IsSession
<1>2. r = Ip6Header(cur, protocol, len)
  BY DEF Ip6Header
<1> HIDE DEF s, d
<1>3. High(len) \in Nat /\ Low(len) \in Nat /\ 256 * High(len) + Low(len) = len
  BY HighAndLow
<1>4. /\ t \in Seq(Nat) /\ Len(t) = 8
      /\ t[1] = 96 /\ t[5] = High(len) /\ t[6] = Low(len) /\ t[7] = protocol
  <2>1. t = <<96, 0, 0, 0, High(len), Low(len), protocol, 64>> /\ 96 \in Nat /\ 0 \in Nat /\ 64 \in Nat
    OBVIOUS
  <2> HIDE DEF t
  <2> QED
    BY <1>3, <2>1, Tuple8
<1> HIDE DEF t
<1>5. /\ td \in Seq(Nat) /\ Len(td) = 24
      /\ \A i \in 1 .. 8 : td[i] = t[i]
      /\ \A i \in 1 .. 16 : td[8 + i] = d[i]
  <2>1. IsJoin(td, t, d, 8, 16, 24)
    BY <1>1, <1>4 DEF IsJoin
  <2> HIDE DEF td
  <2>2. td \in Seq(Nat) /\ Len(td) = 24 /\ JoinedBytes(td, t, d, 8, 16)
    BY <2>1, JoinIs
  <2> QED
    BY <2>2 DEF JoinedBytes
<1> HIDE DEF td
<1>6. /\ r \in Seq(Nat) /\ Len(r) = 40
      /\ \A i \in 1 .. 24 : r[i] = td[i]
      /\ \A i \in 1 .. 16 : r[24 + i] = s[i]
  <2>1. IsJoin(r, td, s, 24, 16, 40)
    BY <1>1, <1>5 DEF IsJoin
  <2> HIDE DEF r
  <2>2. r \in Seq(Nat) /\ Len(r) = 40 /\ JoinedBytes(r, td, s, 24, 16)
    BY <2>1, JoinIs
  <2> QED
    BY <2>2 DEF JoinedBytes
<1> HIDE DEF r
<1>7. r[1] = 96 /\ r[5] = High(len) /\ r[6] = Low(len) /\ r[7] = protocol
  BY <1>4, <1>5, <1>6
<1>8. Number(r, 5) = len
  BY <1>3, <1>7 DEF Number
<1>9. SubSeq(r, 9, 40) = ds
  <2>1. /\ ds \in Seq(Nat) /\ Len(ds) = 32
        /\ \A i \in 1 .. 16 : ds[i] = d[i]
        /\ \A i \in 1 .. 16 : ds[16 + i] = s[i]
    <3>1. IsJoin(ds, d, s, 16, 16, 32)
      BY <1>1 DEF IsJoin
    <3> HIDE DEF ds
    <3>2. ds \in Seq(Nat) /\ Len(ds) = 32 /\ JoinedBytes(ds, d, s, 16, 16)
      BY <3>1, JoinIs
    <3> QED
      BY <3>2 DEF JoinedBytes
  <2> HIDE DEF ds
  <2>2. \A i \in 1 .. Len(ds) : r[9 + i - 1] = ds[i]
    <3> TAKE i \in 1 .. Len(ds)
    <3> DEFINE j == 8 + i
    <3>1. i \in 1 .. 32 /\ 9 + i - 1 = j
      BY <2>1
    <3>2. r[j] = ds[i]
      <4>1. CASE i <= 16
        <5>1. i \in 1 .. 16 /\ j \in 1 .. 24
          BY <3>1, <4>1
        <5>2. td[j] = d[i] /\ ds[i] = d[i]
          BY <1>5, <2>1, <5>1
        <5> HIDE DEF j
        <5> QED
          BY <1>6, <5>1, <5>2
      <4>2. CASE i > 16
        <5> DEFINE k == i - 16
        <5>1. k \in 1 .. 16 /\ j = 24 + k /\ i = 16 + k
          BY <3>1, <4>2
        <5> HIDE DEF k, j
        <5>2. r[24 + k] = s[k] /\ ds[16 + k] = s[k]
          BY <1>6, <2>1, <5>1
        <5> QED
          BY <5>1, <5>2
      <4> QED
        BY <3>1, <4>1, <4>2
    <3> QED
      BY <3>1, <3>2
  <2>3. /\ 9 \in Nat /\ 40 \in Nat /\ 9 > 0 /\ 40 <= Len(r) /\ 9 <= 40 + 1
        /\ Len(ds) = 40 + 1 - 9
    BY <1>6, <2>1
  <2> QED
    BY <1>6, <2>1, <2>2, <2>3, PieceIs
<1> QED
  BY <1>2, <1>6, <1>7, <1>8, <1>9 DEF IsHeader6, ds, d, s

\* A header of n bytes and what it leads, which begins at k.
Leads(b, h, c, n, k) ==
  /\ h \in Seq(Nat) /\ c \in Seq(Nat) /\ n \in Nat /\ Len(h) = n /\ n >= 20
  /\ k = n + 1
  /\ b = h \o c

Led(b, h, c, n, k) ==
  /\ SubSeq(b, 1, n) = h /\ From(b, k) = c
  /\ Len(b) = n + Len(c)
  /\ \A i \in 1 .. n : b[i] = h[i]
  /\ Number(b, 3) = Number(h, 3) /\ Number(b, 5) = Number(h, 5)
  /\ \A i, j \in 1 .. n : SubSeq(b, i, j) = SubSeq(h, i, j)

LEMMA InFront ==
  ASSUME NEW b, NEW h, NEW c, NEW n, NEW k, Leads(b, h, c, n, k)
  PROVE  Led(b, h, c, n, k)
<1> DEFINE m == Len(c)
           l == n + m
<1>1. h \in Seq(Nat) /\ c \in Seq(Nat) /\ n \in Nat /\ Len(h) = n /\ n >= 20 /\ k = n + 1 /\ b = h \o c
  BY DEF Leads
<1>2. m \in Nat
  BY <1>1, LenProperties
<1>3. IsJoin(b, h, c, n, m, l)
  BY <1>1, <1>2 DEF IsJoin
<1>4. SubSeq(b, 1, n) = h /\ From(b, k) = c
  BY <1>1, PartsOf
<1>5. \A i, j \in 1 .. n : SubSeq(b, i, j) = SubSeq(h, i, j)
  BY <1>1, SubSeqOfConcat1
<1> HIDE DEF m, l
<1>6. Len(b) = l /\ JoinedBytes(b, h, c, n, m)
  BY <1>3, JoinIs
<1>7. \A i \in 1 .. n : b[i] = h[i]
  BY <1>6 DEF JoinedBytes
<1>8. b[3] = h[3] /\ b[4] = h[4] /\ b[5] = h[5] /\ b[6] = h[6]
  BY <1>1, <1>7
<1>9. Number(b, 3) = Number(h, 3) /\ Number(b, 5) = Number(h, 5)
  BY <1>8 DEF Number
<1> QED
  BY <1>4, <1>6, <1>7, <1>9, <1>5 DEF Led, m, l

LEMMA LedByBytes ==
  ASSUME NEW pkt, NEW h, NEW d, NEW m, NEW k, Led(pkt, h, d, m, k), NEW i \in 1 .. m
  PROVE  pkt[i] = h[i]
BY DEF Led

LEMMA LedByPieces ==
  ASSUME NEW pkt, NEW h, NEW d, NEW m, NEW k, Led(pkt, h, d, m, k), NEW i \in 1 .. m, NEW j \in 1 .. m
  PROVE  SubSeq(pkt, i, j) = SubSeq(h, i, j)
BY DEF Led

LEMMA LedBy ==
  ASSUME NEW pkt, NEW h, NEW d, NEW m, NEW k, Led(pkt, h, d, m, k)
  PROVE  /\ SubSeq(pkt, 1, m) = h /\ From(pkt, k) = d /\ Len(pkt) = m + Len(d)
         /\ Number(pkt, 3) = Number(h, 3) /\ Number(pkt, 5) = Number(h, 5)
BY DEF Led

LEMMA HeaderIsBlock ==
  ASSUME NEW cur, IsSession(cur), NEW protocol \in Nat, NEW len \in Nat
  PROVE  IpHeader(cur, protocol, len) \in Seq(Nat)
<1>1. CASE cur.version = 4
  <2>1. IsHeader4(Ip4Header(cur, protocol, len), cur, protocol, len)
    BY <1>1, HeaderOf4
  <2> QED
    BY <1>1, <2>1 DEF IsHeader4, IpHeader
<1>2. CASE cur.version # 4
  <2>1. IsHeader6(Ip6Header(cur, protocol, len), cur, protocol, len)
    BY <1>2, HeaderOf6
  <2> QED
    BY <1>2, <2>1 DEF IsHeader6, IpHeader
<1> QED
  BY <1>1, <1>2

IsChecked(cur, protocol, hasPseudo, content) ==
    Accepted((IF hasPseudo THEN PseudoHeader(cur, protocol, Len(content)) ELSE <<>>) \o content)

\* A packet whose content the receiver accepts is sealed by its header.
LEMMA SealedByHeader ==
  ASSUME NEW cur, IsSession(cur), NEW protocol \in Nat, NEW content \in Seq(Nat),
         NEW hasPseudo, IsChecked(cur, protocol, hasPseudo, content),
         NEW pkt, pkt = IpHeader(cur, protocol, Len(content)) \o content
  PROVE  Sealed(cur, pkt, protocol, hasPseudo)
<1> DEFINE len == Len(content)
           h == IpHeader(cur, protocol, len)
           n == IF cur.version = 4 THEN IpHdr ELSE Ip6Hdr
<1>1. len \in Nat
  BY LenProperties
<1>2. CASE cur.version = 4
  <2>1. h = Ip4Header(cur, protocol, len) /\ n = 20
    BY <1>2 DEF IpHeader, IpHdr
  <2>2. /\ h \in Seq(Nat) /\ Len(h) = 20 /\ Accepted(h)
        /\ h[1] = 69 /\ Number(h, 3) = 20 + len /\ h[10] = protocol
        /\ SubSeq(h, 13, 20) = cur.daddr \o cur.saddr
    <3> DEFINE r == Ip4Header(cur, protocol, len)
    <3> HIDE DEF h, len
    <3>1. IsHeader4(r, cur, protocol, len)
      BY <1>1, <1>2, HeaderOf4
    <3>2. h = r
      BY <2>1
    <3> HIDE DEF r
    <3> QED
      BY <3>1, <3>2 DEF IsHeader4
  <2>3. pkt = h \o content
    OBVIOUS
  <2> HIDE DEF h
  <2>4. Leads(pkt, h, content, 20, 21)
    BY <2>2, <2>3 DEF Leads
  <2>5. Led(pkt, h, content, 20, 21)
    BY <2>4, InFront
  <2>6. /\ SubSeq(pkt, 1, 20) = h /\ From(pkt, 21) = content
        /\ Len(pkt) = 20 + Len(content)
        /\ Number(pkt, 3) = Number(h, 3)
    <3> DEFINE m == 20
               k == 21
    <3>1. Led(pkt, h, content, m, k)
      BY ONLY <2>5
    <3> HIDE DEF m, k
    <3>2. /\ SubSeq(pkt, 1, m) = h /\ From(pkt, k) = content /\ Len(pkt) = m + Len(content)
          /\ Number(pkt, 3) = Number(h, 3)
      BY ONLY <3>1, LedBy
    <3> QED
      BY ONLY <3>2 DEF m, k
  <2>7. pkt[1] = h[1] /\ pkt[10] = h[10]
    <3>1. 1 \in 1 .. 20 /\ 10 \in 1 .. 20
      OBVIOUS
    <3> QED
      BY ONLY <2>5, <3>1, LedByBytes
  <2>8. SubSeq(pkt, 13, 20) = SubSeq(h, 13, 20)
    <3>1. 13 \in 1 .. 20 /\ 20 \in 1 .. 20
      OBVIOUS
    <3> QED
      BY ONLY <2>5, <3>1, LedByPieces
  <2>9. pkt[1] = 69 /\ pkt[10] = protocol /\ SubSeq(pkt, 13, 20) = cur.daddr \o cur.saddr
    BY <2>2, <2>7, <2>8
  <2>10. Number(pkt, 3) = Len(pkt)
    BY <2>2, <2>6
  <2>11. Accepted(SubSeq(pkt, 1, IpHdr))
    BY <2>2, <2>6 DEF IpHdr
  <2>12. From(pkt, IpHdr + 1) = content
    BY <2>6 DEF IpHdr
  <2> DEFINE c == From(pkt, IpHdr + 1)
  <2>13. IsChecked(cur, protocol, hasPseudo, c)
    <3> HIDE DEF len
    <3> QED
      BY <2>12
  <2> HIDE DEF len
  <2> QED
    BY <1>2, <2>9, <2>10, <2>11, <2>13 DEF Sealed, IsChecked
<1>3. CASE cur.version # 4
  <2>1. h = Ip6Header(cur, protocol, len) /\ n = 40
    BY <1>3 DEF IpHeader, Ip6Hdr
  <2>2. /\ h \in Seq(Nat) /\ Len(h) = 40
        /\ h[1] = 96 /\ Number(h, 5) = len /\ h[7] = protocol
        /\ SubSeq(h, 9, 40) = cur.daddr \o cur.saddr
    <3> DEFINE r == Ip6Header(cur, protocol, len)
    <3> HIDE DEF h, len
    <3>1. IsHeader6(r, cur, protocol, len)
      BY <1>1, <1>3, HeaderOf6
    <3>2. h = r
      BY <2>1
    <3> HIDE DEF r
    <3> QED
      BY <3>1, <3>2 DEF IsHeader6
  <2>3. pkt = h \o content
    OBVIOUS
  <2> HIDE DEF h
  <2>4. Leads(pkt, h, content, 40, 41)
    BY <2>2, <2>3 DEF Leads
  <2>5. Led(pkt, h, content, 40, 41)
    BY <2>4, InFront
  <2>6. From(pkt, 41) = content /\ Number(pkt, 5) = Number(h, 5)
    BY ONLY <2>5, LedBy
  <2>7. pkt[1] = h[1] /\ pkt[7] = h[7]
    <3>1. 1 \in 1 .. 40 /\ 7 \in 1 .. 40
      OBVIOUS
    <3> QED
      BY ONLY <2>5, <3>1, LedByBytes
  <2>8. SubSeq(pkt, 9, 40) = SubSeq(h, 9, 40)
    <3> DEFINE m == 40
               k == 41
               i == 9
    <3>1. Led(pkt, h, content, m, k) /\ i \in 1 .. m /\ m \in 1 .. m
      BY ONLY <2>5
    <3> HIDE DEF m, k, i
    <3>2. SubSeq(pkt, i, m) = SubSeq(h, i, m)
      BY ONLY <3>1, LedByPieces
    <3> QED
      BY ONLY <3>2 DEF m, i
  <2>9. pkt[1] = 96 /\ pkt[7] = protocol /\ SubSeq(pkt, 9, 40) = cur.daddr \o cur.saddr
    BY <2>2, <2>7, <2>8
  <2>10. From(pkt, Ip6Hdr + 1) = content
    BY <2>6 DEF Ip6Hdr
  <2> DEFINE c == From(pkt, Ip6Hdr + 1)
  <2>11. Number(pkt, 5) = Len(c)
    BY <2>2, <2>6, <2>10
  <2>12. IsChecked(cur, protocol, hasPseudo, c)
    <3> HIDE DEF len
    <3> QED
      BY <2>10
  <2> HIDE DEF len
  <2> QED
    BY <1>3, <2>9, <2>11, <2>12 DEF Sealed, IsChecked
<1> QED
  BY <1>2, <1>3

LEMMA BlocksAssociate ==
  ASSUME NEW a \in Seq(Nat), NEW b \in Seq(Nat), NEW c \in Seq(Nat)
  PROVE  (a \o b) \o c = a \o (b \o c)
BY ConcatAssociative

LEMMA TwoBytes ==
  ASSUME NEW n \in Nat
  PROVE  htons(n) \in Seq(Nat) /\ Len(htons(n)) = 2
BY HighAndLow DEF htons

\* The ports of a datagram or segment.
IsPorts(h, cur) == h = htons(cur.dest) \o htons(cur.source) /\ h \in Seq(Nat) /\ Len(h) = 4

LEMMA PortsAre ==
  ASSUME NEW cur, IsSession(cur)
  PROVE  IsPorts(htons(cur.dest) \o htons(cur.source), cur)
<1> DEFINE a == htons(cur.dest)
           b == htons(cur.source)
           h == a \o b
<1>1. Short \subseteq Nat
  BY DEF Short
<1>2. cur.dest \in Short /\ cur.source \in Short
  BY DEF IsSession
<1>3. a \in Seq(Nat) /\ Len(a) = 2 /\ b \in Seq(Nat) /\ Len(b) = 2
  BY <1>1, <1>2, TwoBytes
<1>4. IsJoin(h, a, b, 2, 2, 4)
  BY <1>3 DEF IsJoin
<1> HIDE DEF h
<1>5. h \in Seq(Nat) /\ Len(h) = 4
  BY <1>4, JoinIs
<1> QED
  BY <1>5 DEF IsPorts, h

\* udp.c:432-545: what write_udp sends, its receiver accepts, for every session and
\* payload: addresses, lengths, the header's checksum and that of the datagram.
THEOREM UdpIsSealed ==
  ASSUME NEW cur, IsSession(cur), NEW data \in Seq(Byte)
  PROVE  Sealed(cur, write_udp(cur, data), IPPROTO_UDP, TRUE)
<1> DEFINE len == UdpHdr + Len(data)
           header == htons(cur.dest) \o htons(cur.source) \o htons(len) \o <<0, 0>>
           csum == Summed(cur, IPPROTO_UDP, header, <<>>, data)
           w == With(header, 7, Complement(csum))
           content == w \o data
           p == Pseudo(cur, IPPROTO_UDP, len)
           q == PseudoHeader(cur, IPPROTO_UDP, len)
           head == IpHeader(cur, IPPROTO_UDP, len)
<1>1. data \in Seq(Nat) /\ Len(data) \in Nat
  BY BytesAreNats
<1>2. len \in Nat /\ len = 8 + Len(data) /\ IPPROTO_UDP \in Nat
  BY <1>1 DEF UdpHdr, IPPROTO_UDP
<1>3. write_udp(cur, data) = (head \o w) \o data
  BY DEF write_udp
<1> HIDE DEF len
<1>4. /\ header \in Seq(Nat) /\ Len(header) = 8 /\ header[7] = 0 /\ header[8] = 0
  <2> DEFINE h2 == htons(cur.dest)
             h4 == h2 \o htons(cur.source)
             h6 == h4 \o htons(len)
  <2>1. IsPorts(h4, cur)
    BY PortsAre
  <2>2. htons(len) \in Seq(Nat) /\ Len(htons(len)) = 2
    BY <1>2, TwoBytes
  <2> HIDE DEF h4
  <2>3. IsJoin(h6, h4, htons(len), 4, 2, 6)
    BY <2>1, <2>2 DEF IsPorts, IsJoin
  <2>4. header = h6 \o <<0, 0>>
    BY DEF h4
  <2> HIDE DEF h6, header
  <2>5. h6 \in Seq(Nat) /\ Len(h6) = 6
    BY <2>3, JoinIs
  <2>6. IsJoin(header, h6, <<0, 0>>, 6, 2, 8)
    BY <2>4, <2>5 DEF IsJoin
  <2>7. header \in Seq(Nat) /\ Len(header) = 8 /\ JoinedBytes(header, h6, <<0, 0>>, 6, 2)
    BY <2>6, JoinIs
  <2> DEFINE z == <<0, 0>>
  <2>8. z[1] = 0 /\ z[2] = 0 /\ \A i \in 1 .. 2 : header[6 + i] = z[i]
    BY <2>7 DEF JoinedBytes
  <2> HIDE DEF z
  <2>9. header[6 + 1] = 0 /\ header[6 + 2] = 0
    BY <2>8
  <2> QED
    BY <2>7, <2>9
<1> HIDE DEF header
<1>5. csum = calc_checksum(calc_checksum(calc_checksum(calc_checksum(0, p), header), <<>>), data)
  <2>1. Len(header) + Len(<<>>) + Len(data) = len
    BY <1>1, <1>2, <1>4
  <2> QED
    BY <2>1 DEF Summed
<1> HIDE DEF csum
<1>6. p \in Seq(Nat) /\ q \in Seq(Nat) /\ Len(q) % 2 = 0 /\ Native(q) = Native(p)
  BY <1>2, PseudosAgree
<1> HIDE DEF p, q
<1>7. w \in Seq(Nat) /\ Len(w) = 8 /\ Accepted(q \o ((w \o <<>>) \o data))
  <2>1. <<>> \in Seq(Nat) /\ Len(<<>>) = 0
    OBVIOUS
  <2>2. MaySeal(p, q, header, <<>>, data, 7, csum)
    BY <1>1, <1>4, <1>5, <1>6, <2>1 DEF MaySeal
  <2>3. IsSealed(w, q, header, <<>>, data)
    BY <2>2, SealedWithPseudo
  <2> QED
    BY <1>4, <2>3 DEF IsSealed
<1> HIDE DEF w
<1>8. w \o <<>> = w
  BY <1>7, ConcatEmptySeq
<1>9. IsJoin(content, w, data, 8, Len(data), len)
  BY <1>1, <1>2, <1>7 DEF IsJoin
<1> HIDE DEF content
<1>10. content \in Seq(Nat) /\ Len(content) = len
  BY <1>9, JoinIs
<1>11. Accepted(q \o content)
  BY <1>7, <1>8 DEF content
<1>12. head \in Seq(Nat)
  BY <1>2, HeaderIsBlock
<1> HIDE DEF head
<1>13. (head \o w) \o data = head \o content
  <2>1. (head \o w) \o data = head \o (w \o data)
    BY <1>1, <1>7, <1>12, BlocksAssociate
  <2> QED
    BY <2>1 DEF content
<1>14. write_udp(cur, data) = IpHeader(cur, IPPROTO_UDP, Len(content)) \o content
  BY <1>3, <1>10, <1>13 DEF head
<1>15. IsChecked(cur, IPPROTO_UDP, TRUE, content)
  BY <1>10, <1>11 DEF q, IsChecked
<1> QED
  BY <1>2, <1>10, <1>14, <1>15, SealedByHeader

IsOptions(o) == o \in Seq(Nat) /\ Len(o) \in Nat /\ Len(o) % 2 = 0

LEMMA OptionsAre ==
  ASSUME NEW cur, IsSession(cur), NEW syn \in BOOLEAN
  PROVE  IsOptions(IF syn THEN SynOptions(cur) ELSE <<>>)
<1>1. IsOptions(<<>>)
  BY DEF IsOptions
<1>2. IsOptions(SynOptions(cur))
  <2> DEFINE l == Low(cur.mss)
             h == High(cur.mss)
             s == cur.recv_scale
             t == <<2, 4, l, h, 3, 3, s, 0>>
  <2>1. Short \subseteq Nat /\ Byte \subseteq Nat
    BY DEF Short, Byte
  <2>2. cur.mss \in Short /\ s \in Byte
    BY DEF IsSession
  <2>3. l \in Nat /\ h \in Nat /\ s \in Nat
    BY <2>1, <2>2, HighAndLow
  <2>4. SynOptions(cur) = t
    BY DEF SynOptions
  <2>5. t = <<2, 4, l, h, 3, 3, s, 0>> /\ 2 \in Nat /\ 4 \in Nat /\ 3 \in Nat /\ 0 \in Nat
    OBVIOUS
  <2> HIDE DEF l, h, s, t
  <2>6. t \in Seq(Nat) /\ Len(t) = 8
    BY <2>3, <2>5, Tuple8
  <2>7. IsOptions(t)
    BY <2>6 DEF IsOptions
  <2> QED
    BY <2>4, <2>7
<1> QED
  BY <1>1, <1>2

\* The header of a segment before its checksum.
IsTcpHeader(h) == h \in Seq(Nat) /\ Len(h) = 20 /\ h[17] = 0 /\ h[18] = 0

LEMMA TcpHeaderIs ==
  ASSUME NEW cur, IsSession(cur), NEW number \in Seq(Byte), Len(number) = 4, NEW ack \in Seq(Byte), Len(ack) = 4,
         NEW offset \in Nat, NEW flags \in Byte
  PROVE  IsTcpHeader(htons(cur.dest) \o htons(cur.source) \o number \o ack \o <<offset, flags>>
                       \o htons(cur.window) \o <<0, 0, 0, 0>>)
<1> DEFINE h4 == htons(cur.dest) \o htons(cur.source)
           h8 == h4 \o number
           h12 == h8 \o ack
           f == <<offset, flags>>
           h14 == h12 \o f
           n == htons(cur.window)
           h16 == h14 \o n
           z == <<0, 0, 0, 0>>
           h == h16 \o z
<1>1. number \in Seq(Nat) /\ ack \in Seq(Nat)
  BY BytesAreNats
<1>2. f \in Seq(Nat) /\ Len(f) = 2
  <2>1. flags \in Nat
    BY DEF Byte
  <2> QED
    BY <2>1
<1>3. n \in Seq(Nat) /\ Len(n) = 2
  <2>1. Short \subseteq Nat
    BY DEF Short
  <2>2. cur.window \in Short
    BY DEF IsSession
  <2> QED
    BY <2>1, <2>2, TwoBytes
<1>4. z \in Seq(Nat) /\ Len(z) = 4 /\ z[1] = 0 /\ z[2] = 0
  OBVIOUS
<1>5. h4 \in Seq(Nat) /\ Len(h4) = 4
  <2>1. IsPorts(h4, cur)
    BY PortsAre
  <2> QED
    BY <2>1 DEF IsPorts
<1> HIDE DEF h4, f, n, z
<1>6. h8 \in Seq(Nat) /\ Len(h8) = 8
  <2> DEFINE m == 4
             k == 8
  <2>1. IsJoin(h8, h4, number, m, m, k)
    BY <1>1, <1>5 DEF IsJoin
  <2> HIDE DEF h8, m, k
  <2>2. h8 \in Seq(Nat) /\ Len(h8) = k
    BY <2>1, JoinIs
  <2> QED
    BY <2>2 DEF k
<1> HIDE DEF h8
<1>7. h12 \in Seq(Nat) /\ Len(h12) = 12
  <2>1. IsJoin(h12, h8, ack, 8, 4, 12)
    BY <1>1, <1>6 DEF IsJoin
  <2> HIDE DEF h12
  <2> QED
    BY <2>1, JoinIs
<1> HIDE DEF h12
<1>8. h14 \in Seq(Nat) /\ Len(h14) = 14
  <2>1. IsJoin(h14, h12, f, 12, 2, 14)
    BY <1>2, <1>7 DEF IsJoin
  <2> HIDE DEF h14
  <2> QED
    BY <2>1, JoinIs
<1> HIDE DEF h14
<1>9. h16 \in Seq(Nat) /\ Len(h16) = 16
  <2>1. IsJoin(h16, h14, n, 14, 2, 16)
    BY <1>3, <1>8 DEF IsJoin
  <2> HIDE DEF h16
  <2> QED
    BY <2>1, JoinIs
<1> HIDE DEF h16
<1>10. h \in Seq(Nat) /\ Len(h) = 20 /\ JoinedBytes(h, h16, z, 16, 4)
  <2>1. IsJoin(h, h16, z, 16, 4, 20)
    BY <1>4, <1>9 DEF IsJoin
  <2> HIDE DEF h
  <2> QED
    BY <2>1, JoinIs
<1> HIDE DEF h
<1>11. h[17] = 0 /\ h[18] = 0
  <2>1. \A i \in 1 .. 4 : h[16 + i] = z[i]
    BY <1>10 DEF JoinedBytes
  <2>2. h[16 + 1] = z[1] /\ h[16 + 2] = z[2]
    BY <2>1
  <2> QED
    BY <1>4, <2>2
<1> QED
  <2>1. IsTcpHeader(h)
    BY <1>10, <1>11 DEF IsTcpHeader
  <2> QED
    BY <2>1 DEF h, h16, h14, h12, h8, h4, f, n, z

\* tcp.c:984-1132: what write_tcp sends, its receiver accepts, with the options of a SYN and
\* without, for every session, number, flag and payload.
THEOREM TcpIsSealed ==
  ASSUME NEW cur, IsSession(cur), NEW data \in Seq(Byte), NEW seq \in Seq(Byte), Len(seq) = 4,
         NEW ack_seq \in Seq(Byte), Len(ack_seq) = 4, NEW flags \in Byte, NEW syn \in BOOLEAN
  PROVE  Sealed(cur, write_tcp(cur, data, seq, ack_seq, flags, syn), IPPROTO_TCP, TRUE)
<1> DEFINE options == IF syn THEN SynOptions(cur) ELSE <<>>
           offset == ((TcpHdr + Len(options)) \div 4) * 16
           header == htons(cur.dest) \o htons(cur.source) \o seq \o ack_seq
                       \o <<offset, flags>> \o htons(cur.window) \o <<0, 0, 0, 0>>
           len == Len(header) + Len(options) + Len(data)
           csum == Summed(cur, IPPROTO_TCP, header, options, data)
           w == With(header, 17, Complement(csum))
           wo == w \o options
           content == wo \o data
           p == Pseudo(cur, IPPROTO_TCP, len)
           q == PseudoHeader(cur, IPPROTO_TCP, len)
           head == IpHeader(cur, IPPROTO_TCP, len)
<1>1. data \in Seq(Nat) /\ Len(data) \in Nat
  BY BytesAreNats
<1>2. IsOptions(options)
  BY OptionsAre
<1>3. write_tcp(cur, data, seq, ack_seq, flags, syn) = ((head \o w) \o options) \o data
  BY DEF write_tcp
<1> HIDE DEF options
<1>4. options \in Seq(Nat) /\ Len(options) \in Nat /\ Len(options) % 2 = 0
  BY <1>2 DEF IsOptions
<1>5. IsTcpHeader(header)
  <2>1. offset \in Nat
    BY <1>4 DEF TcpHdr
  <2> HIDE DEF offset
  <2> QED
    BY <2>1, TcpHeaderIs
<1> HIDE DEF header
<1>6. header \in Seq(Nat) /\ Len(header) = 20 /\ header[17] = 0 /\ header[18] = 0
  BY <1>5 DEF IsTcpHeader
<1>7. len \in Nat /\ IPPROTO_TCP \in Nat
  BY <1>1, <1>4, <1>6 DEF IPPROTO_TCP
<1>8. csum = calc_checksum(calc_checksum(calc_checksum(calc_checksum(0, p), header), options), data)
  BY DEF Summed
<1> HIDE DEF csum
<1>9. len = (20 + Len(options)) + Len(data)
  BY <1>6
<1> HIDE DEF len
<1>10. p \in Seq(Nat) /\ q \in Seq(Nat) /\ Len(q) % 2 = 0 /\ Native(q) = Native(p)
  BY <1>7, PseudosAgree
<1> HIDE DEF p, q
<1>11. w \in Seq(Nat) /\ Len(w) = 20 /\ Accepted(q \o (wo \o data))
  <2>1. MaySeal(p, q, header, options, data, 17, csum)
    BY <1>1, <1>4, <1>6, <1>8, <1>10 DEF MaySeal
  <2>2. IsSealed(w, q, header, options, data)
    BY <2>1, SealedWithPseudo
  <2> QED
    BY <1>6, <2>2 DEF IsSealed
<1> HIDE DEF w
<1> DEFINE size == 20 + Len(options)
<1>12. size \in Nat
  BY <1>4
<1>13. wo \in Seq(Nat) /\ Len(wo) = size
  <2>1. IsJoin(wo, w, options, 20, Len(options), size)
    BY <1>4, <1>11 DEF IsJoin
  <2> HIDE DEF wo, size
  <2> QED
    BY <2>1, JoinIs
<1>14. len = size + Len(data)
  BY <1>9
<1> HIDE DEF wo, size
<1>15. content \in Seq(Nat) /\ Len(content) = len
  <2>1. IsJoin(content, wo, data, size, Len(data), len)
    BY <1>1, <1>12, <1>13, <1>14 DEF IsJoin
  <2> HIDE DEF content
  <2> QED
    BY <2>1, JoinIs
<1>16. head \in Seq(Nat)
  BY <1>7, HeaderIsBlock
<1> HIDE DEF head
<1>17. ((head \o w) \o options) \o data = head \o content
  <2>1. (head \o w) \o options = head \o wo
    BY <1>4, <1>11, <1>16, BlocksAssociate DEF wo
  <2>2. (head \o wo) \o data = head \o (wo \o data)
    BY <1>1, <1>13, <1>16, BlocksAssociate
  <2> QED
    BY <2>1, <2>2
<1> HIDE DEF content
<1>18. Accepted(q \o content)
  BY <1>11 DEF content
<1>19. write_tcp(cur, data, seq, ack_seq, flags, syn) = IpHeader(cur, IPPROTO_TCP, Len(content)) \o content
  BY <1>3, <1>15, <1>17 DEF head
<1>20. IsChecked(cur, IPPROTO_TCP, TRUE, content)
  BY <1>15, <1>18 DEF q, IsChecked
<1> QED
  BY <1>7, <1>15, <1>19, <1>20, SealedByHeader

\* icmp.c:117-132 and 301-378: the reply of a ping over IPv4, as it is passed on with the
\* session's identifier, its receiver accepts, whatever the network answered.
THEOREM PingIsSealed ==
  ASSUME NEW cur, IsSession(cur), cur.version = 4, NEW message \in Seq(Byte), Len(message) >= 8
  PROVE  LET reply == IcmpReply(cur, message)
         IN /\ Sealed(cur, write_icmp(cur, reply), IPPROTO_ICMP, FALSE)
            /\ SubSeq(reply, 5, 6) = cur.id
<1> DEFINE named == With(message, 5, cur.id)
           blank == With(named, 3, <<0, 0>>)
           v == Complement(calc_checksum(0, blank))
           reply == With(blank, 3, v)
<1>1. message \in Seq(Nat) /\ Len(message) \in Nat /\ cur.id \in Seq(Nat) /\ Len(cur.id) = 2
  BY BytesAreNats DEF IsSession
<1>2. cur.id[1] \in Nat /\ cur.id[2] \in Nat
  BY <1>1
<1>3. IcmpReply(cur, message) = reply
  BY DEF IcmpReply
<1>4. IsWith(named, message, 5, cur.id)
  BY <1>1, <1>2 DEF IsWith
<1> HIDE DEF named
<1>5. /\ named \in Seq(Nat) /\ Len(named) = Len(message)
      /\ named[5] = cur.id[1] /\ named[5 + 1] = cur.id[2]
  BY <1>4, WithIs
<1>6. IsWith(blank, named, 3, <<0, 0>>)
  BY <1>1, <1>5 DEF IsWith
<1> HIDE DEF blank
<1>7. /\ blank \in Seq(Nat) /\ Len(blank) = Len(named)
      /\ blank[3] = 0 /\ blank[3 + 1] = 0
      /\ \A j \in 1 .. Len(named) : j \notin {3, 3 + 1} => blank[j] = named[j]
  <2>1. /\ blank \in Seq(Nat) /\ Len(blank) = Len(named)
        /\ blank[3] = <<0, 0>>[1] /\ blank[3 + 1] = <<0, 0>>[2]
        /\ \A j \in 1 .. Len(named) : j \notin {3, 3 + 1} => blank[j] = named[j]
    BY <1>6, WithIs
  <2> QED
    BY <2>1
<1>8. Accepted(reply)
  <2>1. 3 \in Nat /\ 3 % 2 = 1 /\ 3 + 1 <= Len(blank)
    BY <1>1, <1>5, <1>7
  <2> QED
    BY <1>7, <2>1, SealedByItself
<1>9. IsWith(reply, blank, 3, v)
  <2>1. v[1] \in Nat /\ v[2] \in Nat
    BY <1>7, ChecksumBytes
  <2>2. 3 \in Nat /\ 3 > 0 /\ 3 + 1 <= Len(blank)
    BY <1>1, <1>5, <1>7
  <2> QED
    BY <1>7, <2>1, <2>2 DEF IsWith
<1> HIDE DEF reply
<1>10. /\ reply \in Seq(Nat) /\ Len(reply) = Len(blank)
       /\ \A j \in 1 .. Len(blank) : j \notin {3, 3 + 1} => reply[j] = blank[j]
  BY <1>9, WithIs, SMTT(20)
<1>11. reply[5] = cur.id[1] /\ reply[6] = cur.id[2]
  <2>1. 5 \in 1 .. Len(named) /\ 6 \in 1 .. Len(named) /\ 5 \notin {3, 3 + 1} /\ 6 \notin {3, 3 + 1}
    <3> DEFINE n == Len(named)
    <3>1. n \in Nat /\ n >= 8
      BY <1>1, <1>5
    <3> HIDE DEF n
    <3>2. 5 \in 1 .. n /\ 6 \in 1 .. n
      BY <3>1
    <3>3. 5 \notin {3, 3 + 1} /\ 6 \notin {3, 3 + 1}
      OBVIOUS
    <3> QED
      BY <3>2, <3>3 DEF n
  <2>2. reply[5] = blank[5] /\ reply[6] = blank[6]
    BY <1>7, <1>10, <2>1
  <2>3. blank[5] = named[5] /\ blank[6] = named[6]
    BY <1>7, <2>1
  <2> QED
    BY <1>5, <2>2, <2>3
<1>12. SubSeq(reply, 5, 6) = cur.id
  <2>1. \A i \in 1 .. Len(cur.id) : reply[5 + i - 1] = cur.id[i]
    BY <1>1, <1>11, SMTT(20)
  <2>2. 5 \in Nat /\ 6 \in Nat /\ 5 > 0 /\ 6 <= Len(reply) /\ 5 <= 6 + 1 /\ Len(cur.id) = 6 + 1 - 5
    BY <1>1, <1>5, <1>7, <1>10
  <2> QED
    BY <1>1, <1>10, <2>1, <2>2, PieceIs
<1> DEFINE pkt == write_icmp(cur, reply)
<1>13. pkt = IpHeader(cur, IPPROTO_ICMP, Len(reply)) \o reply
  BY DEF write_icmp
<1>14. IsChecked(cur, IPPROTO_ICMP, FALSE, reply)
  <2>1. <<>> \o reply = reply
    BY <1>10, ConcatEmptySeq
  <2> QED
    BY <1>8, <2>1 DEF IsChecked
<1>15. IPPROTO_ICMP \in Nat
  BY DEF IPPROTO_ICMP
<1> HIDE DEF pkt
<1>16. Sealed(cur, pkt, IPPROTO_ICMP, FALSE)
  BY <1>10, <1>13, <1>14, <1>15, SealedByHeader
<1> QED
  BY <1>3, <1>12, <1>16 DEF pkt

\* Blocks of bytes.
LEMMA AreBytes ==
  ASSUME NEW r \in Seq(Nat), \A i \in 1 .. Len(r) : r[i] \in Byte
  PROVE  r \in Seq(Byte)
<1>1. Len(r) \in Nat /\ r = [i \in 1 .. Len(r) |-> r[i]]
  BY LenProperties
<1>2. r \in [1 .. Len(r) -> Byte]
  BY <1>1
<1> QED
  BY <1>1, <1>2

IsBytes(s, n) == s \in Seq(Byte) /\ Len(s) = n /\ n \in Nat
Adds(m, n, k) == k = m + n

LEMMA BytesJoin ==
  ASSUME NEW s, NEW t, NEW m, NEW n, NEW k, IsBytes(s, m), IsBytes(t, n), Adds(m, n, k)
  PROVE  IsBytes(s \o t, k)
<1>1. s \in Seq(Byte) /\ Len(s) = m /\ m \in Nat /\ t \in Seq(Byte) /\ Len(t) = n /\ n \in Nat /\ k = m + n
  BY DEF IsBytes, Adds
<1>2. s \o t \in Seq(Byte) /\ Len(s \o t) = Len(s) + Len(t)
  BY <1>1, ConcatProperties
<1> QED
  BY <1>1, <1>2 DEF IsBytes

LEMMA SmallRanges == Byte \subseteq Nat /\ Short \subseteq Nat
BY DEF Byte, Short

LEMMA BytesOf ==
  ASSUME NEW s \in Seq(Byte), NEW i \in 1 .. Len(s)
  PROVE  s[i] \in Byte
BY LenProperties

LEMMA HalvesAreBytes ==
  ASSUME NEW n \in Nat, n < 65536
  PROVE  High(n) \in Byte /\ Low(n) \in Byte
<1>1. n \div 256 \in Nat /\ n \div 256 <= 255 /\ n % 256 \in Nat /\ n % 256 <= 255
  OBVIOUS
<1> QED
  BY <1>1 DEF High, Low, Byte

\* A number written over two bytes.
LEMMA BytesWith ==
  ASSUME NEW r, NEW b, NEW i, NEW v, IsWith(r, b, i, v), b \in Seq(Byte), v[1] \in Byte, v[2] \in Byte
  PROVE  r \in Seq(Byte) /\ Len(r) = Len(b)
<1>1. /\ r \in Seq(Nat) /\ Len(r) = Len(b)
      /\ r[i] = v[1] /\ r[i + 1] = v[2]
      /\ \A j \in 1 .. Len(b) : j \notin {i, i + 1} => r[j] = b[j]
  BY WithIs
<1>2. \A j \in 1 .. Len(b) : b[j] \in Byte
  BY BytesOf
<1>3. \A j \in 1 .. Len(r) : r[j] \in Byte
  <2> TAKE j \in 1 .. Len(r)
  <2>1. j \in 1 .. Len(b)
    BY <1>1
  <2>2. CASE j = i
    BY <1>1, <2>2
  <2>3. CASE j = i + 1
    BY <1>1, <2>3
  <2>4. CASE j \notin {i, i + 1}
    BY <1>1, <1>2, <2>1, <2>4
  <2> QED
    BY <2>2, <2>3, <2>4
<1> QED
  BY <1>1, <1>3, AreBytes

\* A checksum is two bytes.
LEMMA ComplementIsBytes ==
  ASSUME NEW total \in Nat, NEW v, v = Complement(Rest(total))
  PROVE  v[1] \in Byte /\ v[2] \in Byte
<1> DEFINE m == 65535
           c == m - Rest(total)
<1>1. IsMask(m)
  BY DEF IsMask
<1>2. v[1] = Low(c) /\ v[2] = High(c)
  BY DEF Complement, Native16
<1> HIDE DEF m
<1>3. c \in Nat /\ c <= m
  BY <1>1, RestIsNat, RestLeaves
<1>4. c < 65536
  BY <1>1, <1>3 DEF IsMask
<1> HIDE DEF c
<1> QED
  BY <1>2, <1>3, <1>4, HalvesAreBytes

LEMMA Eight ==
  ASSUME NEW a \in Byte, NEW b \in Byte, NEW c \in Byte, NEW d \in Byte, NEW e \in Byte, NEW f \in Byte,
         NEW g \in Byte, NEW h \in Byte
  PROVE  <<a, b, c, d, e, f, g, h>> \in Seq(Byte)
OBVIOUS

LEMMA SmallBytes ==
  /\ 0 \in Byte /\ 2 \in Byte /\ 3 \in Byte /\ 4 \in Byte /\ 64 \in Byte /\ 69 \in Byte /\ 96 \in Byte
  /\ IPPROTO_ICMP \in Byte /\ IPPROTO_TCP \in Byte /\ IPPROTO_UDP \in Byte
BY DEF Byte, IPPROTO_ICMP, IPPROTO_TCP, IPPROTO_UDP

\* A length its two bytes hold, with the header of version 4.
Fits(len) == len \in Nat /\ len <= 65515

LEMMA FittingLength ==
  ASSUME NEW len, Fits(len), NEW total, total = 20 + len
  PROVE  /\ len \in Nat /\ High(len) \in Byte /\ Low(len) \in Byte /\ len \in Short
         /\ total \in Nat /\ High(total) \in Byte /\ Low(total) \in Byte
<1>1. len \in Nat /\ len < 65536 /\ total \in Nat /\ total < 65536
  BY DEF Fits
<1>2. len \in Short
  BY <1>1 DEF Short
<1> QED
  BY <1>1, <1>2, HalvesAreBytes

LEMMA HeaderIsBytes ==
  ASSUME NEW cur, IsSession(cur), NEW protocol \in Byte, NEW len, Fits(len)
  PROVE  IsBytes(IpHeader(cur, protocol, len), IF cur.version = 4 THEN 20 ELSE 40)
<1> DEFINE s == cur.saddr
           d == cur.daddr
<1>1. CASE cur.version = 4
  <2> DEFINE total == IpHdr + len
             a == High(total)
             b == Low(total)
             t == <<69, 0, a, b, 0, 0, 0, 0, 64, protocol, 0, 0>>
             h == t \o d \o s
             v == Complement(calc_checksum(0, h))
             r == With(h, 11, v)
  <2>1. IsBytes(s, 4) /\ IsBytes(d, 4)
    BY <1>1 DEF IsSession, IsBytes
  <2>2. total = 20 + len
    BY DEF IpHdr
  <2>3. IpHeader(cur, protocol, len) = r
    BY <1>1 DEF IpHeader, Ip4Header
  <2> HIDE DEF total
  <2>4. a \in Byte /\ b \in Byte
    BY <2>2, FittingLength
  <2> HIDE DEF a, b
  <2>5. IsBytes(t, 12)
    <3>1. t \in Seq(Byte) /\ Len(t) = 12
      BY <2>4, SmallBytes
    <3> QED
      BY <3>1 DEF IsBytes
  <2> HIDE DEF t, s, d
  <2>6. IsBytes(h, 20)
    <3>1. Adds(12, 4, 16) /\ Adds(16, 4, 20)
      BY DEF Adds
    <3>2. IsBytes(t \o d, 16)
      BY <2>1, <2>5, <3>1, BytesJoin
    <3> QED
      BY <2>1, <3>1, <3>2, BytesJoin
  <2> HIDE DEF h
  <2>7. h \in Seq(Byte) /\ Len(h) = 20
    BY <2>6 DEF IsBytes
  <2>8. h \in Seq(Nat)
    BY <2>7, BytesAreNats
  <2>9. v[1] \in Byte /\ v[2] \in Byte
    <3> DEFINE n == 0 + Native(h)
    <3>1. calc_checksum(0, h) = Rest(n)
      BY <2>8, ChecksumIsRest
    <3>2. n \in Nat
      BY <2>8, NativeIsNat
    <3> HIDE DEF n
    <3> QED
      BY <3>1, <3>2, ComplementIsBytes
  <2>10. IsWith(r, h, 11, v)
    <3> HIDE DEF v
    <3>1. Byte \subseteq Nat
      BY SmallRanges
    <3>2. v[1] \in Nat /\ v[2] \in Nat
      BY <2>9, <3>1
    <3>3. 11 \in Nat /\ 11 > 0 /\ 11 + 1 <= Len(h)
      BY <2>7
    <3>4. r = With(h, 11, v)
      OBVIOUS
    <3> QED
      BY <2>8, <3>2, <3>3, <3>4 DEF IsWith
  <2> HIDE DEF v, r
  <2>11. r \in Seq(Byte) /\ Len(r) = 20
    BY <2>7, <2>9, <2>10, BytesWith
  <2>12. IsBytes(r, 20)
    BY <2>11 DEF IsBytes
  <2> QED
    BY <1>1, <2>3, <2>12
<1>2. CASE cur.version # 4
  <2> DEFINE a == High(len)
             b == Low(len)
             t == <<96, 0, 0, 0, a, b, protocol, 64>>
  <2>1. IsBytes(s, 16) /\ IsBytes(d, 16)
    BY <1>2 DEF IsSession, IsBytes
  <2>2. IpHeader(cur, protocol, len) = (t \o d) \o s
    <3>1. IpHeader(cur, protocol, len) = Ip6Header(cur, protocol, len)
      BY <1>2 DEF IpHeader
    <3> QED
      BY <3>1 DEF Ip6Header
  <2>3. a \in Byte /\ b \in Byte
    BY FittingLength
  <2> HIDE DEF a, b
  <2>4. IsBytes(t, 8)
    <3>1. t \in Seq(Byte)
      BY <2>3, SmallBytes, Eight
    <3>2. Len(t) = 8
      OBVIOUS
    <3> HIDE DEF t
    <3> QED
      BY <3>1, <3>2 DEF IsBytes
  <2> HIDE DEF t, s, d
  <2>5. Adds(8, 16, 24) /\ Adds(24, 16, 40)
    BY DEF Adds
  <2>6. IsBytes(t \o d, 24)
    BY <2>1, <2>4, <2>5, BytesJoin
  <2>7. IsBytes((t \o d) \o s, 40)
    BY <2>1, <2>5, <2>6, BytesJoin
  <2> QED
    BY <1>2, <2>2, <2>7
<1> QED
  BY <1>1, <1>2

LEMMA TwoAreBytes ==
  ASSUME NEW n \in Short
  PROVE  IsBytes(htons(n), 2)
<1>1. n \in Nat /\ n < 65536
  BY DEF Short
<1>2. High(n) \in Byte /\ Low(n) \in Byte
  BY <1>1, HalvesAreBytes
<1>3. htons(n) \in Seq(Byte) /\ Len(htons(n)) = 2
  BY <1>2 DEF htons
<1> QED
  BY <1>3 DEF IsBytes

\* Two bytes from i on are among n.
Inside(i, n) == i \in Nat /\ i > 0 /\ i + 1 <= n

\* What is written of a datagram or segment.
LEMMA ContentIsBytes ==
  ASSUME NEW cur, IsSession(cur), NEW protocol \in Byte,
         NEW header, NEW options \in Seq(Byte), NEW data \in Seq(Byte), NEW n, IsBytes(header, n),
         NEW i, Inside(i, n)
  PROVE  IsBytes(With(header, i, Complement(Summed(cur, protocol, header, options, data))), n)
<1> DEFINE len == Len(header) + Len(options) + Len(data)
           p == Pseudo(cur, protocol, len)
           csum == Summed(cur, protocol, header, options, data)
           v == Complement(csum)
           w == With(header, i, v)
           total == Native(p) + Native(header) + Native(options) + Native(data)
<1>1. header \in Seq(Byte) /\ Len(header) = n /\ i \in Nat /\ i > 0 /\ i + 1 <= Len(header)
  BY DEF IsBytes, Inside
<1>2. /\ header \in Seq(Nat) /\ options \in Seq(Nat) /\ data \in Seq(Nat)
      /\ Len(header) \in Nat /\ Len(options) \in Nat /\ Len(data) \in Nat
  BY <1>1, BytesAreNats
<1>3. len \in Nat /\ protocol \in Nat
  BY <1>2 DEF Byte
<1>4. csum = calc_checksum(calc_checksum(calc_checksum(calc_checksum(0, p), header), options), data)
  BY DEF Summed
<1> HIDE DEF len, csum
<1>5. p \in Seq(Nat)
  BY <1>3, PseudosAgree
<1> HIDE DEF p
<1>6. csum = Rest(total)
  BY <1>2, <1>4, <1>5, ContinuedChecksum
<1>7. total \in Nat
  BY <1>2, <1>5, NativeIsNat
<1> HIDE DEF total
<1>8. v[1] \in Byte /\ v[2] \in Byte
  BY <1>6, <1>7, ComplementIsBytes
<1>9. IsWith(w, header, i, v)
  <2> HIDE DEF v
  <2>1. Byte \subseteq Nat
    BY SmallRanges
  <2>2. v[1] \in Nat /\ v[2] \in Nat
    BY <1>8, <2>1
  <2> QED
    BY <1>2, <1>1, <2>2 DEF IsWith
<1> HIDE DEF v, w
<1>10. w \in Seq(Byte) /\ Len(w) = Len(header)
  BY <1>8, <1>9, <1>1, BytesWith
<1> QED
  BY <1>10, <1>1 DEF IsBytes, w, v, csum

\* udp.c:432-545: a datagram that fits an IP packet is written as bytes, none of which
\* loses a carry, and as many as its headers and payload are.
THEOREM UdpIsBytes ==
  ASSUME NEW cur, IsSession(cur), NEW data \in Seq(Byte), Fits(UdpHdr + Len(data))
  PROVE  IsBytes(write_udp(cur, data), (IF cur.version = 4 THEN 28 ELSE 48) + Len(data))
<1> DEFINE l == Len(data)
           len == UdpHdr + l
           h2 == htons(cur.dest)
           h4 == h2 \o htons(cur.source)
           h6 == h4 \o htons(len)
           z == <<0, 0>>
           header == h6 \o z
           w == With(header, 7, Complement(Summed(cur, IPPROTO_UDP, header, <<>>, data)))
           head == IpHeader(cur, IPPROTO_UDP, len)
           n == IF cur.version = 4 THEN 20 ELSE 40
           n8 == n + 8
           all == n8 + l
<1>1. l \in Nat
  BY LenProperties
<1>2. write_udp(cur, data) = (head \o w) \o data
  BY DEF write_udp
<1> HIDE DEF l
<1>3. Fits(len) /\ len \in Short
  <2>1. Fits(len)
    BY DEF l
  <2> HIDE DEF len
  <2> QED
    BY <2>1, FittingLength
<1> HIDE DEF len
<1>4. cur.dest \in Short /\ cur.source \in Short
  BY DEF IsSession
<1>5. Adds(2, 2, 4) /\ Adds(4, 2, 6) /\ Adds(6, 2, 8) /\ Adds(n, 8, n8) /\ Adds(n8, l, all)
  BY DEF Adds
<1>6. n + 8 + l = (IF cur.version = 4 THEN 28 ELSE 48) + l
  BY <1>1
<1> HIDE DEF n, n8, all
<1>7. IsBytes(htons(len), 2)
  BY <1>3, TwoAreBytes
<1>8. IsBytes(h2, 2) /\ IsBytes(htons(cur.source), 2)
  BY <1>3, <1>4, TwoAreBytes
<1>9. IsBytes(z, 2)
  BY SmallBytes DEF IsBytes
<1> HIDE DEF h2, z
<1>10. IsBytes(h4, 4)
  BY <1>5, <1>8, BytesJoin
<1> HIDE DEF h4
<1>11. IsBytes(h6, 6)
  BY <1>5, <1>7, <1>10, BytesJoin
<1> HIDE DEF h6
<1>12. IsBytes(header, 8)
  BY <1>5, <1>9, <1>11, BytesJoin
<1> HIDE DEF header
<1>13. IsBytes(w, 8)
  <2>1. <<>> \in Seq(Byte)
    OBVIOUS
  <2>2. Inside(7, 8)
    BY DEF Inside
  <2>3. IPPROTO_UDP \in Byte
    BY SmallBytes
  <2> QED
    BY <1>12, <2>1, <2>2, <2>3, ContentIsBytes
<1> HIDE DEF w
<1>14. IsBytes(head, n)
  BY <1>3, SmallBytes, HeaderIsBytes DEF n
<1> HIDE DEF head
<1>15. IsBytes(head \o w, n8)
  BY <1>5, <1>13, <1>14, BytesJoin
<1>16. IsBytes(data, l)
  BY <1>1 DEF IsBytes, l
<1>17. IsBytes((head \o w) \o data, all)
  BY <1>5, <1>15, <1>16, BytesJoin
<1>18. all = (IF cur.version = 4 THEN 28 ELSE 48) + l
  BY <1>6 DEF all, n8
<1> QED
  BY <1>2, <1>17, <1>18 DEF l

LEMMA OptionsAreBytes ==
  ASSUME NEW cur, IsSession(cur)
  PROVE  IsBytes(SynOptions(cur), 8)
<1> DEFINE l == Low(cur.mss)
           h == High(cur.mss)
           s == cur.recv_scale
           t == <<2, 4, l, h, 3, 3, s, 0>>
<1>1. cur.mss \in Short /\ s \in Byte
  BY DEF IsSession
<1>2. l \in Byte /\ h \in Byte
  <2>1. cur.mss \in Nat /\ cur.mss < 65536
    BY <1>1 DEF Short
  <2> QED
    BY <2>1, HalvesAreBytes
<1>3. SynOptions(cur) = t
  BY DEF SynOptions
<1> HIDE DEF l, h, s
<1>4. t \in Seq(Byte)
  BY <1>1, <1>2, SmallBytes, Eight
<1>5. Len(t) = 8
  OBVIOUS
<1> HIDE DEF t
<1>6. IsBytes(t, 8)
  BY <1>4, <1>5 DEF IsBytes
<1> QED
  BY <1>3, <1>6

LEMMA TcpHeaderIsBytes ==
  ASSUME NEW cur, IsSession(cur), NEW number, IsBytes(number, 4), NEW ack, IsBytes(ack, 4),
         NEW offset \in Byte, NEW flags \in Byte
  PROVE  IsBytes(htons(cur.dest) \o htons(cur.source) \o number \o ack \o <<offset, flags>>
                   \o htons(cur.window) \o <<0, 0, 0, 0>>, 20)
<1> DEFINE d == htons(cur.dest)
           s == htons(cur.source)
           h4 == d \o s
           h8 == h4 \o number
           h12 == h8 \o ack
           f == <<offset, flags>>
           h14 == h12 \o f
           n == htons(cur.window)
           h16 == h14 \o n
           z == <<0, 0, 0, 0>>
           h == h16 \o z
<1>1. /\ Adds(2, 2, 4) /\ Adds(4, 4, 8) /\ Adds(8, 4, 12) /\ Adds(12, 2, 14) /\ Adds(14, 2, 16)
      /\ Adds(16, 4, 20)
  BY DEF Adds
<1>2. cur.dest \in Short /\ cur.source \in Short /\ cur.window \in Short
  BY DEF IsSession
<1>3. IsBytes(d, 2) /\ IsBytes(s, 2) /\ IsBytes(n, 2)
  BY <1>2, TwoAreBytes
<1>4. IsBytes(f, 2)
  BY DEF IsBytes
<1>5. IsBytes(z, 4)
  BY SmallBytes DEF IsBytes
<1> HIDE DEF d, s, n, f, z
<1>6. IsBytes(h4, 4)
  BY <1>1, <1>3, BytesJoin
<1> HIDE DEF h4
<1>7. IsBytes(h8, 8)
  BY <1>1, <1>6, BytesJoin
<1> HIDE DEF h8
<1>8. IsBytes(h12, 12)
  BY <1>1, <1>7, BytesJoin
<1> HIDE DEF h12
<1>9. IsBytes(h14, 14)
  BY <1>1, <1>4, <1>8, BytesJoin
<1> HIDE DEF h14
<1>10. IsBytes(h16, 16)
  BY <1>1, <1>3, <1>9, BytesJoin
<1> HIDE DEF h16
<1>11. IsBytes(h, 20)
  BY <1>1, <1>5, <1>10, BytesJoin
<1> QED
  BY <1>11 DEF h16, h14, h12, h8, h4, d, s, f, n, z

\* tcp.c:984-1132: so is a segment, with the options of a SYN and without.
THEOREM TcpIsBytes ==
  ASSUME NEW cur, IsSession(cur), NEW data \in Seq(Byte), NEW seq, IsBytes(seq, 4),
         NEW ack_seq, IsBytes(ack_seq, 4), NEW flags \in Byte, NEW syn \in BOOLEAN,
         Fits(TcpHdr + (IF syn THEN 8 ELSE 0) + Len(data))
  PROVE  IsBytes(write_tcp(cur, data, seq, ack_seq, flags, syn),
                 (IF cur.version = 4 THEN 20 ELSE 40) + (IF syn THEN 28 ELSE 20) + Len(data))
<1> DEFINE l == Len(data)
           o == IF syn THEN 8 ELSE 0
           options == IF syn THEN SynOptions(cur) ELSE <<>>
           offset == ((TcpHdr + Len(options)) \div 4) * 16
           header == htons(cur.dest) \o htons(cur.source) \o seq \o ack_seq
                       \o <<offset, flags>> \o htons(cur.window) \o <<0, 0, 0, 0>>
           len == Len(header) + Len(options) + l
           w == With(header, 17, Complement(Summed(cur, IPPROTO_TCP, header, options, data)))
           head == IpHeader(cur, IPPROTO_TCP, len)
           n == IF cur.version = 4 THEN 20 ELSE 40
           n20 == n + 20
           n28 == n20 + o
           all == n28 + l
<1>1. l \in Nat
  BY LenProperties
<1>2. write_tcp(cur, data, seq, ack_seq, flags, syn) = ((head \o w) \o options) \o data
  BY DEF write_tcp
<1>3. Adds(n, 20, n20) /\ Adds(n20, o, n28) /\ Adds(n28, l, all)
  BY DEF Adds
<1>4. all = n + (IF syn THEN 28 ELSE 20) + l
  <2>1. n \in Nat
    OBVIOUS
  <2> HIDE DEF l, n
  <2> QED
    BY <1>1, <2>1
<1>5. IsBytes(options, o)
  <2>1. CASE syn
    BY <2>1, OptionsAreBytes
  <2>2. CASE ~syn
    <3>1. options = <<>> /\ o = 0
      BY <2>2
    <3>2. IsBytes(<<>>, 0)
      BY DEF IsBytes
    <3> HIDE DEF options, o
    <3> QED
      BY <3>1, <3>2
  <2> QED
    BY <2>1, <2>2
<1>6. Fits(20 + o + l)
  BY DEF TcpHdr
<1>7. o = 8 \/ o = 0
  OBVIOUS
<1> HIDE DEF options, l, o, n, n20, n28, all
<1>8. options \in Seq(Byte) /\ Len(options) = o
  BY <1>5 DEF IsBytes
<1>9. offset \in Byte
  <2>1. CASE o = 8
    <3>1. offset = 112
      BY <1>8, <2>1 DEF TcpHdr
    <3> QED
      BY <3>1 DEF Byte
  <2>2. CASE o = 0
    <3>1. offset = 80
      BY <1>8, <2>2 DEF TcpHdr
    <3> QED
      BY <3>1 DEF Byte
  <2> QED
    BY <1>7, <2>1, <2>2
<1> HIDE DEF offset
<1>10. IsBytes(header, 20)
  BY <1>9, TcpHeaderIsBytes
<1> HIDE DEF header
<1>11. len = 20 + o + l
  BY <1>8, <1>10 DEF IsBytes
<1>12. Fits(len)
  BY <1>6, <1>11
<1> HIDE DEF len
<1>13. IsBytes(w, 20)
  <2>1. Inside(17, 20)
    BY DEF Inside
  <2>2. IPPROTO_TCP \in Byte
    BY SmallBytes
  <2> QED
    BY <1>8, <1>10, <2>1, <2>2, ContentIsBytes
<1> HIDE DEF w
<1>14. IsBytes(head, n)
  BY <1>12, SmallBytes, HeaderIsBytes DEF n
<1> HIDE DEF head
<1>15. IsBytes(head \o w, n20)
  BY <1>3, <1>13, <1>14, BytesJoin
<1>16. IsBytes((head \o w) \o options, n28)
  BY <1>3, <1>5, <1>15, BytesJoin
<1>17. IsBytes(data, l)
  BY <1>1 DEF IsBytes, l
<1>18. IsBytes(((head \o w) \o options) \o data, all)
  BY <1>3, <1>16, <1>17, BytesJoin
<1> QED
  BY <1>2, <1>4, <1>18 DEF n, l

-----------------------------------------------------------------------------
(* The packets that are tried *)

LEMMA ZerosAre ==
  ASSUME NEW n \in Nat
  PROVE  IsBytes(Zeros(n), n)
<1>1. Zeros(n) \in [1 .. n -> Byte]
  BY SmallBytes DEF Zeros
<1>2. Zeros(n) \in Seq(Byte) /\ Len(Zeros(n)) = n
  BY <1>1
<1> QED
  BY <1>2 DEF IsBytes

LEMMA TriedSessions ==
  ASSUME NEW cur \in Tried
  PROVE  IsSession(cur)
<1>1. ASSUME NEW port \in Short PROVE IsSession(Session4(port)) /\ Session4(port).version = 4
  <2> DEFINE low == port % 256
             id == <<1, low>>
             s == <<10, 1, 10, 1>>
             d == <<255, 255, 254, 3>>
  <2>1. low \in Byte
    BY DEF Short, Byte
  <2>2. 1 \in Byte /\ 10 \in Byte /\ 255 \in Byte /\ 254 \in Byte /\ 3 \in Byte /\ 7 \in Byte
    BY DEF Byte
  <2>3. 65535 \in Short /\ 1460 \in Short
    BY DEF Short
  <2>4. /\ Session4(port).version = 4
        /\ Session4(port).saddr = s /\ Session4(port).daddr = d
        /\ Session4(port).source = port /\ Session4(port).dest = 65535
        /\ Session4(port).window = 65535 /\ Session4(port).recv_scale = 7
        /\ Session4(port).mss = 1460 /\ Session4(port).id = id
    BY DEF Session4
  <2> HIDE DEF low
  <2>5. s \in Seq(Byte) /\ Len(s) = 4 /\ d \in Seq(Byte) /\ Len(d) = 4 /\ id \in Seq(Byte) /\ Len(id) = 2
    BY <2>1, <2>2
  <2> HIDE DEF s, d, id
  <2> QED
    BY <2>2, <2>3, <2>4, <2>5 DEF IsSession
<1>2. 53 \in Short /\ 65280 \in Short
  BY DEF Short
<1>3. IsSession(Session6(53))
  <2> DEFINE cur4 == Session4(53)
             cur6 == Session6(53)
             s == <<253>> \o Zeros(14) \o <<1>>
             d == [i \in 1 .. 16 |-> 255 - i]
  <2>1. IsSession(cur4)
    BY <1>1, <1>2
  <2>2. /\ cur6.version = 6 /\ cur6.saddr = s /\ cur6.daddr = d
        /\ cur6.source = cur4.source /\ cur6.dest = cur4.dest
        /\ cur6.window = cur4.window /\ cur6.recv_scale = cur4.recv_scale
        /\ cur6.mss = cur4.mss /\ cur6.id = cur4.id
    BY DEF Session6, Session4
  <2>3. IsBytes(s, 16)
    <3>1. IsBytes(<<253>>, 1) /\ IsBytes(<<1>>, 1)
      <4>1. 253 \in Byte /\ 1 \in Byte
        BY DEF Byte
      <4> QED
        BY <4>1 DEF IsBytes
    <3>2. IsBytes(Zeros(14), 14)
      <4>1. 14 \in Nat
        OBVIOUS
      <4> QED
        BY <4>1, ZerosAre
    <3>3. Adds(1, 14, 15) /\ Adds(15, 1, 16)
      BY DEF Adds
    <3>4. IsBytes(<<253>> \o Zeros(14), 15)
      BY <3>1, <3>2, <3>3, BytesJoin
    <3> QED
      BY <3>1, <3>3, <3>4, BytesJoin
  <2>4. d \in Seq(Byte) /\ Len(d) = 16
    <3>1. \A i \in 1 .. 16 : 255 - i \in Byte
      BY DEF Byte
    <3>2. d \in [1 .. 16 -> Byte]
      BY <3>1
    <3> QED
      BY <3>2
  <2> HIDE DEF s, d, cur4, cur6
  <2>5. /\ cur4.source \in Short /\ cur4.dest \in Short /\ cur4.window \in Short /\ cur4.mss \in Short
        /\ cur4.recv_scale \in Byte /\ cur4.id \in Seq(Byte) /\ Len(cur4.id) = 2
    BY <2>1 DEF IsSession
  <2>6. s \in Seq(Byte) /\ Len(s) = 16
    BY <2>3 DEF IsBytes
  <2>7. IsSession(cur6)
    BY <2>2, <2>4, <2>5, <2>6 DEF IsSession
  <2> QED
    BY <2>7 DEF cur6
<1> QED
  BY <1>1, <1>2, <1>3 DEF Tried

\* The checksum of a datagram is two bytes of it.
LEMMA DatagramChecksum ==
  ASSUME NEW cur, IsSession(cur)
  PROVE  LET u == UdpChecksum(cur, Zeros(4)) IN u[1] \in Nat /\ u[2] \in Nat
<1> DEFINE u == UdpChecksum(cur, Zeros(4))
           pkt == write_udp(cur, Zeros(4))
           m == 4
           h == IF cur.version = 4 THEN 28 ELSE 48
           n == h + m
           at == Len(pkt) - Len(Zeros(4)) - 1
           zeros == Zeros(4)
<1>1. m \in Nat /\ h \in Nat /\ h >= 2 /\ zeros = Zeros(m) /\ Fits(UdpHdr + m)
  BY DEF Fits, UdpHdr
<1>2. u = <<pkt[at], pkt[at + 1]>> /\ at = (Len(pkt) - Len(zeros)) - 1
  BY DEF UdpChecksum
<1> HIDE DEF m, zeros
<1>3. zeros \in Seq(Byte) /\ Len(zeros) = m
  BY <1>1, ZerosAre DEF IsBytes
<1>4. IsBytes(pkt, n)
  <2>1. IsBytes(write_udp(cur, zeros), h + Len(zeros))
    BY <1>1, <1>3, UdpIsBytes
  <2> QED
    BY <1>3, <2>1 DEF zeros
<1> HIDE DEF u, pkt, h, at
<1>5. pkt \in Seq(Byte) /\ Len(pkt) = h + m
  BY <1>4 DEF IsBytes
<1>6. at \in 1 .. Len(pkt) /\ at + 1 \in 1 .. Len(pkt)
  BY <1>1, <1>2, <1>3, <1>5
<1>7. pkt[at] \in Byte /\ pkt[at + 1] \in Byte
  BY <1>5, <1>6
<1>8. pkt[at] \in Nat /\ pkt[at + 1] \in Nat
  BY <1>7 DEF Byte
<1>9. u[1] \in Nat /\ u[2] \in Nat
  BY <1>2, <1>8
<1> QED
  BY <1>9 DEF u

LEMMA TriedPayloads ==
  ASSUME NEW cur, IsSession(cur), NEW data \in Payloads(UdpChecksum(cur, Zeros(4)))
  PROVE  data \in Seq(Byte)
<1> DEFINE u == UdpChecksum(cur, Zeros(4))
<1>1. u[1] \in Nat /\ u[2] \in Nat
  BY DatagramChecksum
<1>2. \/ data \in ShortPayloads \cup TwoByteLoads
      \/ \E k \in 0 .. 2 : data = CarryingLoad(u, k)
  BY DEF Payloads
<1> HIDE DEF u
<1>3. \A a \in {0, 1, 2, 3, 127, 128, 254, 255} : a \in Byte
  BY DEF Byte
<1>4. ShortPayloads \subseteq Seq(Byte)
  <2>1. <<>> \in Seq(Byte) /\ <<255>> \in Seq(Byte) /\ <<1, 2, 3>> \in Seq(Byte)
    BY <1>3
  <2> QED
    BY <2>1 DEF ShortPayloads
<1>5. TwoByteLoads \subseteq Seq(Byte)
  <2>1. \A a \in Byte, b \in Byte : <<a, b>> \in Seq(Byte)
    OBVIOUS
  <2>2. ASSUME NEW load \in TwoByteLoads
        PROVE  \E a \in Byte, b \in Byte : load = <<a, b>>
    BY <1>3 DEF TwoByteLoads
  <2> QED
    BY <2>1, <2>2
<1>6. ASSUME NEW k \in 0 .. 2, data = CarryingLoad(u, k) PROVE data \in Seq(Byte)
  <2> DEFINE c == (u[1] + 256 * u[2] + k) % 65536
  <2>1. c \in Nat /\ c < 65536
    BY <1>1
  <2> HIDE DEF c
  <2>2. Low(c) \in Byte /\ High(c) \in Byte
    BY <2>1, HalvesAreBytes
  <2>3. IsBytes(Native16(c), 2)
    BY <2>2 DEF Native16, IsBytes
  <2>4. IsBytes(<<255, 255>>, 2)
    BY <1>3 DEF IsBytes
  <2>5. Adds(2, 2, 4)
    BY DEF Adds
  <2>6. IsBytes(<<255, 255>> \o Native16(c), 4)
    BY <2>3, <2>4, <2>5, BytesJoin
  <2> QED
    BY <1>6, <2>6 DEF IsBytes, c, CarryingLoad
<1> QED
  BY <1>2, <1>4, <1>5, <1>6

LEMMA TriedPings ==
  ASSUME NEW message \in Pings
  PROVE  message \in Seq(Byte) /\ Len(message) >= 8
<1>1. 1 \in Byte /\ 7 \in Byte /\ 8 \in Byte /\ 9 \in Byte /\ 255 \in Byte /\ 0 \in Byte
  BY DEF Byte
<1>2. PingHeader \in Seq(Byte) /\ Len(PingHeader) = 8
  BY <1>1 DEF PingHeader
<1>3. PICK p \in PingLoads : message = PingHeader \o p
  BY DEF Pings
<1>4. p \in Seq(Byte)
  <2>1. <<>> \in Seq(Byte) /\ <<255, 255>> \in Seq(Byte) /\ <<7, 8, 9>> \in Seq(Byte)
    BY <1>1
  <2> QED
    BY <1>3, <2>1 DEF PingLoads
<1> DEFINE k == 8 + Len(p)
<1>5. IsBytes(PingHeader, 8) /\ IsBytes(p, Len(p)) /\ Adds(8, Len(p), k) /\ k \in Nat /\ k >= 8
  BY <1>2, <1>4 DEF IsBytes, Adds
<1> HIDE DEF k
<1>6. IsBytes(message, k)
  BY <1>3, <1>5, BytesJoin
<1> QED
  BY <1>5, <1>6 DEF IsBytes

\* PacketsAreSealed, which the run algorithms checks: the sessions and payloads
\* it tries are among those of the three theorems above.
THEOREM TriedPacketsAreSealed == PacketsAreSealed
<1>1. ASSUME NEW cur, IsSession(cur), NEW data \in Payloads(UdpChecksum(cur, Zeros(4)))
      PROVE  SegmentsAreSealed(cur, data)
  <2>1. data \in Seq(Byte)
    BY <1>1, TriedPayloads
  <2>2. Sealed(cur, write_udp(cur, data), IPPROTO_UDP, TRUE)
    BY <1>1, <2>1, UdpIsSealed
  <2>3. LastSeq \in Seq(Byte) /\ Len(LastSeq) = 4 /\ FirstAck \in Seq(Byte) /\ Len(FirstAck) = 4
    <3>1. 0 \in Byte /\ 1 \in Byte /\ 255 \in Byte
      BY DEF Byte
    <3> QED
      BY <3>1 DEF LastSeq, FirstAck
  <2>4. 16 \in Byte
    BY DEF Byte
  <2>5. ASSUME NEW syn \in BOOLEAN
        PROVE  Sealed(cur, write_tcp(cur, data, LastSeq, FirstAck, 16, syn), IPPROTO_TCP, TRUE)
    BY <1>1, <2>1, <2>3, <2>4, TcpIsSealed
  <2> QED
    BY <2>2, <2>5 DEF SegmentsAreSealed
<1>2. ASSUME NEW cur, IsSession(cur), cur.version = 4, NEW message \in Pings
      PROVE  ReplyIsSealed(cur, message)
  <2>1. message \in Seq(Byte) /\ Len(message) >= 8
    BY TriedPings
  <2> QED
    BY <1>2, <2>1, PingIsSealed DEF ReplyIsSealed
<1>3. \A cur \in Tried : IsSession(cur)
  BY TriedSessions
<1> QED
  BY <1>1, <1>2, <1>3 DEF PacketsAreSealed
-----------------------------------------------------------------------------
(* The string functions *)

\* p points to a string of m, and s is that string.
IsString(m, p, s) ==
  /\ s \in Seq(Nat) /\ Len(s) \in Nat /\ p \in Nat /\ p .. p + Len(s) \subseteq DOMAIN m
  /\ \A i \in 1 .. Len(s) : s[i] = m[p + i - 1] /\ s[i] # 0
  /\ m[p + Len(s)] = 0

\* A memory of numbers.
IsMemory(m) == Memory(m) /\ DOMAIN m \subseteq Nat /\ \A a \in DOMAIN m : m[a] \in Nat

LEMMA LengthIs ==
  ASSUME NEW m, NEW p, NEW n \in Nat
  PROVE  LET k == Length(m, p, n)
         IN k \in 0 .. n /\ (m[p + k] = 0 \/ k = n) /\ \A j \in 0 .. k - 1 : m[p + j] # 0
<1> DEFINE T == {i \in 0 .. n : m[p + i] = 0 \/ i = n}
<1>1. T \subseteq Nat /\ n \in T
  OBVIOUS
<1> HIDE DEF T
<1>2. PICK k \in T : \A j \in T : k <= j
  BY <1>1, LeastNat
<1> USE DEF T
<1>3. /\ k \in 0 .. n /\ (m[p + k] = 0 \/ k = n)
      /\ \A j \in 0 .. k - 1 : ~(m[p + j] = 0 \/ j = n)
  BY <1>2
<1> QED
  BY <1>3 DEF Length, FirstRound

\* It is the only such number.
LEMMA LengthOf ==
  ASSUME NEW m, NEW p, NEW n \in Nat, NEW k \in 0 .. n, m[p + k] = 0 \/ k = n,
         \A j \in 0 .. k - 1 : m[p + j] # 0
  PROVE  Length(m, p, n) = k
<1> DEFINE l == Length(m, p, n)
<1>1. l \in 0 .. n /\ (m[p + l] = 0 \/ l = n) /\ \A j \in 0 .. l - 1 : m[p + j] # 0
  BY LengthIs
<1> HIDE DEF l
<1>2. ~(l < k)
  BY <1>1
<1>3. ~(k < l)
  BY <1>1
<1> QED
  BY <1>1, <1>2, <1>3 DEF l

LEMMA StringAtIs ==
  ASSUME NEW m, NEW p, NEW s, IsString(m, p, s), DOMAIN m \subseteq Nat
  PROVE  StringAt(m, p) = s
<1> DEFINE ends == {a \in DOMAIN m : a >= p /\ m[a] = 0}
           e == p + Len(s)
<1>1. p \in Nat /\ Len(s) \in Nat /\ s \in Seq(Nat)
  BY DEF IsString
<1>2. e \in ends /\ ends \subseteq Nat
  BY <1>1 DEF IsString
<1>3. ASSUME NEW a \in ends PROVE e <= a
  <2>1. a \in Nat /\ p <= a /\ m[a] = 0
    BY <1>2
  <2>2. CASE a < e
    <3> DEFINE i == a - p + 1
    <3>1. i \in 1 .. Len(s) /\ p + i - 1 = a
      BY <1>1, <2>1, <2>2
    <3> HIDE DEF i
    <3> QED
      BY <2>1, <3>1 DEF IsString
  <2> QED
    BY <1>1, <2>1, <2>2
<1>4. Min(ends) = e
  <2> HIDE DEF ends
  <2>1. e \in Nat
    BY <1>1
  <2> HIDE DEF e
  <2>2. ASSUME NEW x \in ends, \A y \in ends : x <= y PROVE x = e
    BY <1>2, <1>3, <2>1, <2>2
  <2> QED
    BY <1>2, <1>3, <2>2 DEF Min
<1>5. StringAt(m, p) = [i \in 1 .. e - p |-> m[p + i - 1]]
  BY <1>4 DEF StringAt
<1>6. e - p = Len(s)
  BY <1>1
<1>7. [i \in 1 .. Len(s) |-> m[p + i - 1]] = [i \in 1 .. Len(s) |-> s[i]]
  BY DEF IsString
<1>8. [i \in 1 .. Len(s) |-> s[i]] = s
  BY <1>1
<1> HIDE DEF e, ends
<1> QED
  BY <1>5, <1>6, <1>7, <1>8

\* In a memory with a 0 behind p there is a string at p.
LEMMA StringThere ==
  ASSUME NEW m, IsMemory(m), NEW p \in Nat, NEW z \in Nat, p <= z, p .. z \subseteq DOMAIN m,
         m[z] = 0
  PROVE  /\ IsString(m, p, StringAt(m, p))
         /\ Len(StringAt(m, p)) \in 0 .. z - p
<1> DEFINE n == z - p
           k == Length(m, p, n)
           s == [i \in 1 .. k |-> m[p + i - 1]]
<1>1. n \in Nat /\ p + n = z
  OBVIOUS
<1>2. k \in 0 .. n /\ (m[p + k] = 0 \/ k = n) /\ \A j \in 0 .. k - 1 : m[p + j] # 0
  <2> HIDE DEF n
  <2> QED
    BY <1>1, LengthIs
<1> HIDE DEF k
<1>3. k \in Nat /\ m[p + k] = 0 /\ p .. p + k \subseteq DOMAIN m
  BY <1>1, <1>2
<1>4. ASSUME NEW i \in 1 .. k PROVE m[p + i - 1] \in Nat /\ m[p + i - 1] # 0
  <2> DEFINE j == i - 1
  <2>1. j \in 0 .. k - 1 /\ p + j = p + i - 1 /\ p + j \in DOMAIN m
    BY <1>3
  <2> QED
    BY <1>2, <2>1 DEF IsMemory
<1>5. s \in Seq(Nat) /\ Len(s) = k
  <2>1. \A i \in 1 .. k : m[p + i - 1] \in Nat
    BY <1>4
  <2> QED
    BY <1>3, <2>1
<1>6. \A i \in 1 .. k : s[i] = m[p + i - 1] /\ s[i] # 0
  BY <1>4
<1> HIDE DEF s
<1>7. IsString(m, p, s)
  BY <1>3, <1>5, <1>6 DEF IsString
<1>8. StringAt(m, p) = s
  BY <1>7, StringAtIs DEF IsMemory
<1> QED
  BY <1>2, <1>5, <1>7, <1>8
-----------------------------------------------------------------------------
(* The loop of the copies *)

\* What a copy of at most slen cells takes from src.
IsSource(m, src, slen, t) ==
  /\ t \in Seq(Nat) /\ Len(t) \in Nat /\ Within(m, src, Len(t))
  /\ \A i \in 1 .. Len(t) : t[i] = m[src + i - 1] /\ t[i] # 0 /\ i - 1 # slen
  /\ Len(t) = slen \/ (src + Len(t) \in DOMAIN m /\ m[src + Len(t)] = 0)

\* After how many cells the copy bumps into the other end.
Gap(dest, d, src) == IF dest < src THEN src - d ELSE dest - src

\* Where a copy can begin.
MayCopy(m, dest, d, src) ==
  /\ Memory(m) /\ dest \in Nat /\ d \in Nat /\ src \in Nat
  /\ dest <= d /\ dest # src /\ (dest < src => d <= src)

LEMMA GapIs ==
  ASSUME NEW m, NEW dest, NEW d, NEW src, MayCopy(m, dest, d, src)
  PROVE  /\ Gap(dest, d, src) \in Nat
         /\ \A i \in Nat : Bumped(dest, d + i, src, src + i) <=> i = Gap(dest, d, src)
BY DEF MayCopy, Gap, Bumped

\* Up to there the cells that are copied are those that were there before.
LEMMA CopyCellsIs ==
  ASSUME NEW m, NEW dest, NEW d, NEW src, MayCopy(m, dest, d, src), NEW n \in Nat,
         n <= Gap(dest, d, src), Within(m, src, n)
  PROVE  /\ CopyCells(m, d, src, n) = CopyBlock(m, d, src, n)
         /\ n < Gap(dest, d, src) \/ dest < src =>
               \A a \in DOMAIN m : a = src + n => CopyBlock(m, d, src, n)[a] = m[a]
<1>1. d < src \/ src + n <= d
  BY DEF MayCopy, Gap
<1>2. n \in 0 .. n /\ d \in Nat /\ src \in Nat /\ Memory(m)
  BY DEF MayCopy
<1>3. MoveUpwards(m, d, src, n, n) = CopyBlock(m, d, src, n)
  BY <1>1, <1>2, MoveUpwardsIsACopy
<1>4. n < Gap(dest, d, src) \/ dest < src => src + n \notin d .. d + n - 1
  BY <1>2 DEF MayCopy, Gap
<1> QED
  BY <1>3, <1>4 DEF CopyCells, CopyBlock

\* strncpy.c:151-234: where the loop stops.
LEMMA CopyRoundsIs ==
  ASSUME NEW m, NEW dest, NEW d, NEW src, MayCopy(m, dest, d, src), NEW dmax \in Nat,
         NEW slen, NEW t, IsSource(m, src, slen, t)
  PROVE  LET n == CopyRounds(m, dest, d, src, dmax, slen)
             gap == Gap(dest, d, src)
         IN /\ n \in Nat /\ n <= dmax /\ n <= gap /\ n <= Len(t)
            /\ n = dmax \/ n = gap \/ n = Len(t)
<1> DEFINE gap == Gap(dest, d, src)
           len == Len(t)
           k == IF dmax <= gap /\ dmax <= len THEN dmax ELSE IF gap <= len THEN gap ELSE len
<1>1. gap \in Nat /\ len \in Nat /\ \A i \in Nat : Bumped(dest, d + i, src, src + i) <=> i = gap
  BY GapIs DEF IsSource
<1>2. src \in Nat /\ Within(m, src, len)
  BY DEF IsSource, MayCopy
<1> HIDE DEF gap, len
<1>3. /\ k \in Nat /\ k <= dmax /\ k <= gap /\ k <= len
      /\ k = dmax \/ k = gap \/ k = len
  BY <1>1
<1> HIDE DEF k
<1>4. ASSUME NEW i \in Nat, i <= k PROVE CopyCells(m, d, src, i) = CopyBlock(m, d, src, i)
  <2>1. i <= gap /\ Within(m, src, i)
    BY <1>1, <1>2, <1>3, <1>4 DEF Within
  <2> QED
    BY <2>1, CopyCellsIs DEF gap
<1>5. ASSUME NEW i \in 0 .. k - 1
      PROVE  ~(\/ i = dmax \/ Bumped(dest, d + i, src, src + i) \/ i = slen
               \/ CopyCells(m, d, src, i)[src + i] = 0)
  <2>1. i \in Nat /\ i <= k /\ i < gap /\ i < len /\ i # dmax /\ i <= gap
    BY <1>1, <1>3
  <2>2. i + 1 \in 1 .. len /\ src + (i + 1) - 1 = src + i /\ (i + 1) - 1 = i
    BY <1>1, <1>2, <2>1
  <2>3. m[src + i] # 0 /\ i # slen
    <3> DEFINE j == i + 1
    <3>1. j \in 1 .. Len(t) /\ src + j - 1 = src + i /\ j - 1 = i
      BY <2>2 DEF len
    <3> HIDE DEF j
    <3> QED
      BY <3>1 DEF IsSource
  <2>4. src + i \in DOMAIN m /\ Within(m, src, i)
    BY <1>1, <1>2, <2>1 DEF Within
  <2>5. CopyBlock(m, d, src, i)[src + i] = m[src + i]
    BY <2>1, <2>4, CopyCellsIs DEF gap
  <2> QED
    BY <1>1, <1>4, <2>1, <2>3, <2>5
<1>6. \/ k = dmax \/ Bumped(dest, d + k, src, src + k) \/ k = slen
      \/ CopyCells(m, d, src, k)[src + k] = 0
  <2>1. CASE k = dmax \/ k = gap
    BY <1>1, <1>3, <2>1
  <2>2. CASE k = len /\ k < gap /\ k # slen
    <3>1. src + k \in DOMAIN m /\ m[src + k] = 0
      BY <2>2 DEF IsSource, len
    <3>2. k <= gap /\ k \in Nat
      BY <1>3
    <3>3. CopyBlock(m, d, src, k)[src + k] = m[src + k]
      BY <2>2, <1>2, <3>1, <3>2, CopyCellsIs DEF gap
    <3> QED
      BY <1>4, <3>1, <3>2, <3>3
  <2>3. k = slen \/ k = dmax \/ k = gap \/ (k = len /\ k < gap /\ k # slen)
    BY <1>1, <1>3
  <2> QED
    BY <2>1, <2>2, <2>3
<1> DEFINE n == CopyRounds(m, dest, d, src, dmax, slen)
           Stops(i) == \/ i = dmax \/ Bumped(dest, d + i, src, src + i) \/ i = slen
                       \/ CopyCells(m, d, src, i)[src + i] = 0
<1>7. n = CHOOSE i \in 0 .. dmax : Stops(i) /\ \A j \in 0 .. i - 1 : ~Stops(j)
  BY DEF CopyRounds, FirstRound
<1>8. Stops(k) /\ k \in 0 .. dmax /\ \A j \in 0 .. k - 1 : ~Stops(j)
  BY <1>3, <1>5, <1>6
<1> HIDE DEF Stops, n
<1>9. n \in 0 .. dmax /\ Stops(n) /\ \A j \in 0 .. n - 1 : ~Stops(j)
  BY <1>7, <1>8
<1>10. n = k
  BY <1>8, <1>9
<1> QED
  BY <1>3, <1>10 DEF n, gap, len

\* r is what the loop gives when it stops after n cells of the source t.
Stopped(r, n, m, dest, d, src, dmax, t) ==
  LET gap == Gap(dest, d, src)
      copied == CopyBlock(m, d, src, n)
  IN /\ n <= dmax /\ n <= gap /\ n <= Len(t)
     /\ \/ /\ n = Len(t) /\ n # dmax /\ n # gap
           /\ r.err = "EOK" /\ r.end = d + n /\ r.mem = [copied EXCEPT ![d + n] = 0]
        \/ /\ n = dmax \/ n = gap
           /\ r.err # "EOK" /\ r.mem = [copied EXCEPT ![dest] = 0]

\* strncpy.c:151-234: what the loop leaves behind.
LEMMA CopyLoopIs ==
  ASSUME NEW m, NEW dest, NEW d, NEW src, MayCopy(m, dest, d, src), NEW dmax \in Nat,
         NEW slen, NEW t, IsSource(m, src, slen, t)
  PROVE  \E n \in Nat : Stopped(CopyLoop(m, dest, d, src, dmax, slen), n, m, dest, d, src, dmax, t)
<1> DEFINE gap == Gap(dest, d, src)
           n == CopyRounds(m, dest, d, src, dmax, slen)
           copied == CopyBlock(m, d, src, n)
           r == CopyLoop(m, dest, d, src, dmax, slen)
<1>1. n \in Nat /\ n <= dmax /\ n <= gap /\ n <= Len(t) /\ (n = dmax \/ n = gap \/ n = Len(t))
  BY CopyRoundsIs
<1>2. Bumped(dest, d + n, src, src + n) <=> n = gap
  BY <1>1, GapIs
<1>3. CopyCells(m, d, src, n) = copied
  <2>1. Within(m, src, n)
    BY <1>1 DEF IsSource, Within
  <2> QED
    BY <1>1, <2>1, CopyCellsIs
<1>4. r = IF n = dmax THEN safe_handle_error(copied, dest, "ESNOSPC")
          ELSE IF Bumped(dest, d + n, src, src + n) THEN safe_handle_error(copied, dest, "ESOVRLP")
          ELSE Ended([copied EXCEPT ![d + n] = 0], d + n)
  BY <1>3 DEF CopyLoop
<1> HIDE DEF gap, n, r, copied
<1>5. CASE n = dmax \/ n = gap
  <2>1. r.err # "EOK" /\ r.mem = [copied EXCEPT ![dest] = 0]
    BY <1>2, <1>4, <1>5 DEF safe_handle_error, Kept
  <2> QED
    BY <1>1, <1>5, <2>1 DEF Stopped, gap, r, copied
<1>6. CASE n # dmax /\ n # gap
  <2>1. r.err = "EOK" /\ r.end = d + n /\ r.mem = [copied EXCEPT ![d + n] = 0]
    BY <1>2, <1>4, <1>6 DEF Ended
  <2>2. n = Len(t)
    BY <1>1, <1>6
  <2> QED
    BY <1>1, <1>6, <2>1, <2>2 DEF Stopped, gap, r, copied
<1> QED
  BY <1>5, <1>6

\* The cells at p are those of s.
IsBegun(m, p, s) ==
  /\ s \in Seq(Nat) /\ Len(s) \in Nat
  /\ \A i \in 1 .. Len(s) : s[i] = m[p + i - 1] /\ s[i] # 0

\* strncpy.c:151-234, strncat.c:164-254: behind the string d in dest the loop leaves all of
\* the source, ended, or an error and an empty string.
LEMMA LoopKept ==
  ASSUME NEW m, NEW dest, NEW src, NEW d, IsBegun(m, dest, d), DOMAIN m \subseteq Nat,
         MayCopy(m, dest, dest + Len(d), src), NEW room \in Nat, Len(d) < room,
         Within(m, dest, room), NEW slen, NEW t, IsSource(m, src, slen, t), NEW max,
         NEW may \in BOOLEAN, may => Len(t) < Gap(dest, dest + Len(d), src)
  PROVE  StringKept(m, CopyLoop(m, dest, dest + Len(d), src, room - Len(d), slen), dest, room,
                    max, d \o t, may)
<1> DEFINE ld == Len(d)
           e == dest + ld
           left == room - ld
           gap == Gap(dest, e, src)
           r == CopyLoop(m, dest, e, src, left, slen)
<1>1. /\ ld \in Nat /\ dest \in Nat /\ e \in Nat /\ left \in Nat /\ left > 0 /\ src \in Nat
      /\ ld + left = room /\ Len(t) \in Nat
  BY DEF IsBegun, MayCopy, IsSource
<1>2. PICK n \in Nat : Stopped(r, n, m, dest, e, src, left, t)
  <2>1. MayCopy(m, dest, e, src)
    OBVIOUS
  <2> HIDE DEF e, left
  <2> QED
    BY <1>1, <2>1, CopyLoopIs
<1> DEFINE copied == CopyBlock(m, e, src, n)
<1>3. /\ DOMAIN copied = DOMAIN m
      /\ \A a \in DOMAIN m : copied[a] = IF a \in e .. e + n - 1 THEN m[src + (a - e)] ELSE m[a]
  BY DEF CopyBlock
<1>4. /\ n <= left /\ n <= gap /\ n <= Len(t)
       /\ \/ /\ n = Len(t) /\ n # left /\ n # gap
             /\ r.err = "EOK" /\ r.end = e + n /\ r.mem = [copied EXCEPT ![e + n] = 0]
          \/ /\ n = left \/ n = gap
             /\ r.err # "EOK" /\ r.mem = [copied EXCEPT ![dest] = 0]
  <2> HIDE DEF r
  <2> QED
    BY <1>2 DEF Stopped
<1>5. Len(d \o t) = ld + Len(t) /\ d \o t \in Seq(Nat)
  BY DEF IsBegun, IsSource
<1>6. Cells(dest, room) = dest .. dest + room - 1 /\ Cells(dest, room) \subseteq DOMAIN m
  BY DEF Cells, Within
<1>7. may => Len(t) < gap
  OBVIOUS
<1> HIDE DEF r, gap, copied, left, e, ld
<1>8. e = dest + ld
  BY DEF e
<1>9. CASE r.err = "EOK"
  <2>1. n = Len(t) /\ n < left /\ r.end = e + n /\ r.mem = [copied EXCEPT ![e + n] = 0]
    BY <1>1, <1>4, <1>9
  <2>2. /\ DOMAIN r.mem = DOMAIN m
        /\ \A a \in DOMAIN m : r.mem[a] = IF a = e + n THEN 0
                                          ELSE IF a \in e .. e + n - 1 THEN m[src + (a - e)] ELSE m[a]
    BY <1>3, <2>1
  <2>3. Unchanged(m, r.mem, Cells(dest, room))
    <3>1. ASSUME NEW a \in DOMAIN m, a \notin dest .. dest + room - 1
          PROVE  a # e + n /\ a \notin e .. e + n - 1
      BY <1>1, <1>8, <2>1, <3>1, SMTT(20)
    <3> QED
      BY <1>6, <2>2, <3>1 DEF Unchanged
  <2>4. ASSUME NEW i \in 1 .. ld + n
        PROVE  (d \o t)[i] = r.mem[dest + i - 1] /\ (d \o t)[i] # 0
    <3>1. dest + i - 1 \in DOMAIN m /\ dest + i - 1 # e + n
      BY <1>1, <1>6, <1>8, <2>1
    <3>2. CASE i <= ld
      <4>1. (d \o t)[i] = d[i]
        BY <3>2 DEF IsBegun, IsSource, ld
      <4>2. d[i] = m[dest + i - 1] /\ d[i] # 0
        BY <1>1, <3>2 DEF IsBegun, ld
      <4>3. dest + i - 1 \notin e .. e + n - 1
        BY <1>1, <1>8, <3>2
      <4> QED
        BY <2>2, <3>1, <4>1, <4>2, <4>3
    <3>3. CASE i > ld
      <4> DEFINE j == i - ld
      <4>1. j \in 1 .. n /\ i = ld + j
        BY <1>1, <2>1, <3>3
      <4>2. (d \o t)[i] = t[j]
        BY <2>1, <3>3, <4>1 DEF IsBegun, IsSource, ld
      <4>3. dest + i - 1 \in e .. e + n - 1 /\ src + ((dest + i - 1) - e) = src + j - 1
        BY <1>1, <1>8, <4>1
      <4> HIDE DEF j
      <4>4. t[j] = m[src + j - 1] /\ t[j] # 0
        BY <2>1, <4>1 DEF IsSource
      <4> QED
        BY <2>2, <3>1, <4>2, <4>3, <4>4
    <3>4. i <= ld \/ i > ld
      BY <1>1
    <3> QED
      BY <3>2, <3>3, <3>4
  <2>5. IsString(r.mem, dest, d \o t)
    <3>1. dest .. dest + (ld + n) \subseteq DOMAIN m /\ dest + (ld + n) = e + n
      BY <1>1, <1>6, <1>8, <2>1, SMTT(20)
    <3>2. r.mem[dest + (ld + n)] = 0
      BY <1>1, <2>2, <3>1
    <3> DEFINE s == d \o t
    <3>3. s \in Seq(Nat) /\ Len(s) = ld + n /\ Len(s) \in Nat /\ dest \in Nat
      BY <1>1, <1>5, <2>1
    <3>4. \A i \in 1 .. ld + n : s[i] = r.mem[dest + i - 1] /\ s[i] # 0
      BY <2>4
    <3> HIDE DEF s
    <3>5. IsString(r.mem, dest, s)
      BY <2>2, <3>1, <3>2, <3>3, <3>4 DEF IsString
    <3> QED
      BY <3>5 DEF s
  <2>6. StringAt(r.mem, dest) = d \o t
    BY <2>2, <2>5, StringAtIs
  <2>7. Len(d \o t) < room /\ r.end = dest + Len(d \o t)
    BY <1>1, <1>5, <1>8, <2>1
  <2> QED
    BY <1>9, <2>3, <2>6, <2>7 DEF StringKept, r, left, e, ld
<1>10. CASE r.err # "EOK"
  <2>1. (n = left \/ n = gap) /\ r.mem = [copied EXCEPT ![dest] = 0]
    BY <1>4, <1>10
  <2>2. /\ DOMAIN r.mem = DOMAIN m
        /\ \A a \in DOMAIN m : r.mem[a] = IF a = dest THEN 0
                                          ELSE IF a \in e .. e + n - 1 THEN m[src + (a - e)] ELSE m[a]
    BY <1>3, <2>1
  <2>3. dest \in DOMAIN m
    BY <1>1, <1>6
  <2>4. Unchanged(m, r.mem, Cells(dest, room))
    <3>1. ASSUME NEW a \in DOMAIN m, a \notin dest .. dest + room - 1
          PROVE  a # dest /\ a \notin e .. e + n - 1
      BY <1>1, <1>4, <1>8, <3>1, SMTT(20)
    <3> QED
      BY <1>6, <2>2, <3>1 DEF Unchanged
  <2>5. ~(may /\ Len(d \o t) < room)
    BY <1>1, <1>4, <1>5, <1>7, <2>1
  <2>6. r.mem[dest] = 0
    BY <2>2, <2>3
  <2> QED
    BY <1>10, <2>4, <2>5, <2>6 DEF StringKept, r, left, e, ld
<1> QED
  BY <1>9, <1>10
-----------------------------------------------------------------------------
(* The calls that copy or append *)

\* What safe_handle_error makes of m.
Emptied(m, r, dest) == r.err # "EOK" /\ r.mem = [m EXCEPT ![dest] = 0]

\* An error empties dest, or leaves it when its size cannot be right.
LEMMA ErrorKept ==
  ASSUME NEW m, NEW r, NEW dest \in Nat, NEW room \in Nat, room > 0, Within(m, dest, room),
         NEW max, NEW s, NEW may \in BOOLEAN, ~(may /\ room \in 1 .. max /\ Len(s) < room),
         Emptied(m, r, dest)
  PROVE  StringKept(m, r, dest, room, max, s, may)
<1>1. dest \in DOMAIN m /\ dest \in Cells(dest, room)
  BY DEF Within, Cells
<1>2. r.err # "EOK" /\ r.mem[dest] = 0 /\ \A a \in DOMAIN m : a # dest => r.mem[a] = m[a]
  BY <1>1 DEF Emptied
<1> QED
  BY <1>1, <1>2 DEF StringKept, Unchanged

LEMMA RefusedKept ==
  ASSUME NEW m, NEW r, NEW dest, NEW room, NEW max, NEW s, NEW may \in BOOLEAN,
         room \notin 1 .. max, r.err # "EOK", r.mem = m
  PROVE  StringKept(m, r, dest, room, max, s, may)
BY DEF StringKept, Unchanged

\* The n + 1 cells at dest and the k + 1 at src have nothing in common.
Clear(dest, src, n, k) == IF dest < src THEN dest + n < src ELSE src + k < dest

LEMMA ClearIs ==
  ASSUME NEW dest \in Nat, NEW src \in Nat, dest # src, NEW n \in Nat, NEW k \in Nat,
         Cells(dest, n + 1) \cap Cells(src, k + 1) = {}
  PROVE  Clear(dest, src, n, k)
<1>1. dest \in Cells(dest, n + 1) /\ src \in Cells(src, k + 1)
  BY DEF Cells
<1>2. dest \notin Cells(src, k + 1) /\ src \notin Cells(dest, n + 1)
  BY <1>1
<1> QED
  BY <1>2 DEF Clear, Cells

\* r is what is given when the search for the end of dest stops after n cells.
Looked(r, n, m, dest, d, src, room, slen) ==
  /\ n <= Len(d) /\ (dest < src => dest + n <= src)
  /\ \/ n = Len(d) /\ r = CopyLoop(m, dest, dest + n, src, room - n, slen)
     \/ /\ n < Len(d) /\ (n = room - 1 \/ (dest < src /\ dest + n = src))
        /\ r.err # "EOK" /\ r.mem = [m EXCEPT ![dest] = 0]

\* strncat.c:144-162, 204-218: the end of dest is looked for.
LEMMA AppendRoundsIs ==
  ASSUME NEW m, NEW dest, NEW d, IsString(m, dest, d), NEW src \in Nat,
         NEW room \in Nat, room > 0, NEW slen
  PROVE  \E n \in 0 .. room - 1 :
            Looked(AppendLoop(m, dest, room, src, slen), n, m, dest, d, src, room, slen)
<1> DEFINE Stops(i) == m[dest + i] = 0 \/ (dest < src /\ dest + i = src) \/ i = room - 1
           n == CHOOSE i \in 0 .. room - 1 : Stops(i) /\ \A j \in 0 .. i - 1 : ~Stops(j)
           T == {i \in 0 .. room - 1 : Stops(i)}
           r == AppendLoop(m, dest, room, src, slen)
<1>1. dest \in Nat /\ Len(d) \in Nat
  BY DEF IsString
<1>2. T \subseteq Nat /\ room - 1 \in T
  OBVIOUS
<1>3. n \in 0 .. room - 1 /\ Stops(n) /\ \A j \in 0 .. n - 1 : ~Stops(j)
  <2> HIDE DEF T
  <2>1. PICK k \in T : \A j \in T : k <= j
    BY <1>2, LeastNat
  <2> USE DEF T
  <2> HIDE DEF Stops
  <2>2. k \in 0 .. room - 1 /\ Stops(k) /\ \A j \in 0 .. k - 1 : ~Stops(j)
    BY <2>1
  <2> QED
    BY <2>2
<1>4. r = IF m[dest + n] = 0 THEN CopyLoop(m, dest, dest + n, src, room - n, slen)
          ELSE IF dest < src /\ dest + n = src THEN safe_handle_error(m, dest, "ESOVRLP")
          ELSE safe_handle_error(m, dest, "ESUNTERM")
  BY DEF AppendLoop, FirstRound
<1> HIDE DEF n, T, r
<1>5. n <= Len(d)
  <2>1. ~Stops(Len(d)) => m[dest + Len(d)] # 0
    OBVIOUS
  <2>2. m[dest + Len(d)] = 0
    BY DEF IsString
  <2> QED
    BY <1>1, <1>3, <2>1, <2>2
<1>6. dest < src => dest + n <= src
  <2>1. ASSUME dest < src, src < dest + n PROVE FALSE
    <3>1. src - dest \in 0 .. n - 1 /\ dest + (src - dest) = src
      BY <1>1, <1>3, <2>1
    <3> DEFINE j == src - dest
    <3>2. j \in 0 .. n - 1 /\ dest + j = src
      BY <3>1
    <3> HIDE DEF j
    <3>3. Stops(j)
      BY <2>1, <3>2
    <3> QED
      BY <1>3, <3>2, <3>3
  <2> QED
    BY <1>1, <1>3, <2>1
<1>7. m[dest + n] = 0 <=> n = Len(d)
  <2>1. CASE n = Len(d)
    BY <2>1 DEF IsString
  <2>2. CASE n < Len(d)
    <3> DEFINE i == n + 1
    <3>1. i \in 1 .. Len(d) /\ dest + i - 1 = dest + n
      BY <1>1, <1>3, <2>2
    <3> HIDE DEF i
    <3> QED
      BY <2>2, <3>1, <1>3 DEF IsString
  <2> QED
    BY <1>1, <1>3, <1>5, <2>1, <2>2
<1>8. CASE n = Len(d)
  <2>1. r = CopyLoop(m, dest, dest + n, src, room - n, slen)
    BY <1>4, <1>7, <1>8
  <2> QED
    BY <1>3, <1>5, <1>6, <1>8, <2>1 DEF Looked, r
<1>9. CASE n # Len(d)
  <2>1. n < Len(d) /\ (n = room - 1 \/ (dest < src /\ dest + n = src))
    BY <1>1, <1>3, <1>5, <1>7, <1>9
  <2>2. r.err # "EOK" /\ r.mem = [m EXCEPT ![dest] = 0]
    BY <1>4, <1>7, <1>9 DEF safe_handle_error, Kept
  <2> QED
    BY <1>3, <1>6, <2>1, <2>2 DEF Looked, r
<1> QED
  BY <1>8, <1>9

LEMMA AppendKept ==
  ASSUME NEW m, Memory(m), DOMAIN m \subseteq Nat, NEW dest, NEW d, IsString(m, dest, d),
         NEW src \in Nat, dest # src, NEW room \in Nat, room > 0, Within(m, dest, room),
         NEW slen, NEW t, IsSource(m, src, slen, t), NEW max, NEW may \in BOOLEAN,
         may => Len(d) < room /\ Clear(dest, src, Len(d) + Len(t), Len(t))
  PROVE  StringKept(m, AppendLoop(m, dest, room, src, slen), dest, room, max, d \o t, may)
<1> DEFINE r == AppendLoop(m, dest, room, src, slen)
<1>1. dest \in Nat /\ Len(d) \in Nat /\ Len(t) \in Nat
  BY DEF IsString, IsSource
<1>2. PICK n \in 0 .. room - 1 : Looked(r, n, m, dest, d, src, room, slen)
  BY AppendRoundsIs
<1> HIDE DEF r
<1>3. CASE n = Len(d)
  <2>1. Len(d) < room /\ MayCopy(m, dest, dest + Len(d), src)
    BY <1>1, <1>2, <1>3 DEF Looked, MayCopy
  <2>2. IsBegun(m, dest, d)
    BY DEF IsBegun, IsString
  <2>3. may => Len(t) < Gap(dest, dest + Len(d), src)
    BY <1>1 DEF Clear, Gap
  <2>4. r = CopyLoop(m, dest, dest + Len(d), src, room - Len(d), slen)
    BY <1>1, <1>2, <1>3 DEF Looked
  <2> QED
    BY <2>1, <2>2, <2>3, <2>4, LoopKept DEF r
<1>4. CASE n # Len(d)
  <2>1. n < Len(d) /\ (n = room - 1 \/ (dest < src /\ dest + n = src))
    BY <1>2, <1>4 DEF Looked
  <2>2. Emptied(m, r, dest)
    BY <1>2, <1>4 DEF Looked, Emptied
  <2>3. ~may
    BY <1>1, <2>1 DEF Clear
  <2>4. StringKept(m, r, dest, room, max, d \o t, may)
    <3> DEFINE s == d \o t
    <3>1. ~(may /\ room \in 1 .. max /\ Len(s) < room)
      BY <2>3
    <3> HIDE DEF s
    <3>2. StringKept(m, r, dest, room, max, s, may)
      BY <1>1, <2>2, <3>1, ErrorKept
    <3> QED
      BY <3>2 DEF s
  <2> QED
    BY <2>4 DEF r
<1> QED
  BY <1>3, <1>4

\* What a call is given: dmax cells at dest, and the string s somewhere else.
IsCall(m, dest, dmax, src, s) ==
  /\ Memory(m) /\ DOMAIN m \subseteq Nat
  /\ dest \in Nat /\ src \in Nat /\ dest # src
  /\ dmax \in Nat /\ dmax > 0 /\ Within(m, dest, dmax)
  /\ IsString(m, src, s)

LEMMA WholeSource ==
  ASSUME NEW m, NEW src, NEW s, IsString(m, src, s)
  PROVE  IsSource(m, src, NoLimit, s)
<1>1. src \in Nat /\ Len(s) \in Nat /\ src .. src + Len(s) \subseteq DOMAIN m
  BY DEF IsString
<1>2. Within(m, src, Len(s)) /\ src + Len(s) \in DOMAIN m
  BY <1>1 DEF Within
<1>3. \A i \in 1 .. Len(s) : i - 1 # NoLimit
  BY DEF NoLimit
<1> QED
  BY <1>2, <1>3 DEF IsSource, IsString

LEMMA FirstIs ==
  ASSUME NEW s \in Seq(Nat), NEW n \in Nat
  PROVE  /\ First(s, n) \in Seq(Nat)
         /\ Len(First(s, n)) = IF Len(s) < n THEN Len(s) ELSE n
         /\ \A i \in 1 .. Len(First(s, n)) : First(s, n)[i] = s[i]
<1> DEFINE k == IF Len(s) < n THEN Len(s) ELSE n
<1>1. Len(s) \in Nat /\ k \in 0 .. Len(s)
  OBVIOUS
<1> HIDE DEF k
<1>2. SubSeq(s, 1, k) \in Seq(Nat) /\ Len(SubSeq(s, 1, k)) = k
  BY <1>1
<1>3. \A i \in 1 .. k : SubSeq(s, 1, k)[i] = s[i]
  BY <1>1
<1> QED
  BY <1>2, <1>3 DEF First, k

LEMMA PartSource ==
  ASSUME NEW m, NEW src, NEW s, IsString(m, src, s), NEW slen \in Nat
  PROVE  IsSource(m, src, slen, First(s, slen))
<1> DEFINE f == First(s, slen)
<1>1. /\ f \in Seq(Nat) /\ Len(f) = IF Len(s) < slen THEN Len(s) ELSE slen
      /\ \A i \in 1 .. Len(f) : f[i] = s[i]
  BY FirstIs DEF IsString
<1>2. src \in Nat /\ Len(s) \in Nat /\ src .. src + Len(s) \subseteq DOMAIN m
  BY DEF IsString
<1> HIDE DEF f
<1>3. Len(f) \in Nat /\ Len(f) <= Len(s) /\ Len(f) <= slen
  BY <1>1, <1>2
<1>4. Within(m, src, Len(f))
  BY <1>2, <1>3 DEF Within
<1>5. ASSUME NEW i \in 1 .. Len(f) PROVE f[i] = m[src + i - 1] /\ f[i] # 0 /\ i - 1 # slen
  <2>1. i \in 1 .. Len(s) /\ i - 1 # slen
    BY <1>2, <1>3
  <2> QED
    BY <1>1, <2>1 DEF IsString
<1>6. Len(f) = slen \/ (src + Len(f) \in DOMAIN m /\ m[src + Len(f)] = 0)
  <2>1. CASE Len(s) < slen
    BY <1>1, <1>2, <2>1 DEF IsString
  <2>2. CASE ~(Len(s) < slen)
    BY <1>1, <2>2
  <2> QED
    BY <2>1, <2>2
<1> QED
  BY <1>1, <1>3, <1>4, <1>5, <1>6 DEF IsSource, f

\* strncpy.c:151-234: a copy to the begin of dest.
LEMMA CopyKeeps ==
  ASSUME NEW m, NEW dest, NEW dmax, NEW src, NEW s, IsCall(m, dest, dmax, src, s),
         NEW slen, NEW t, IsSource(m, src, slen, t), NEW max,
         NEW may \in BOOLEAN, may => Clear(dest, src, Len(t), Len(t))
  PROVE  StringKept(m, Copy(m, dest, dmax, src, slen), dest, dmax, max, t, may)
<1> DEFINE d == <<>>
<1>1. /\ dest \in Nat /\ src \in Nat /\ dmax \in Nat /\ dmax > 0 /\ Within(m, dest, dmax)
      /\ DOMAIN m \subseteq Nat
  BY DEF IsCall
<1>2. Len(d) = 0 /\ dest + 0 = dest /\ dmax - 0 = dmax
  BY <1>1
<1>3. IsBegun(m, dest, d)
  BY DEF IsBegun
<1>4. d \o t = t
  BY DEF IsSource
<1> HIDE DEF d
<1>5. MayCopy(m, dest, dest + Len(d), src)
  BY <1>2 DEF MayCopy, IsCall
<1>6. may => Len(t) < Gap(dest, dest + Len(d), src)
  <2>1. Len(t) \in Nat
    BY DEF IsSource
  <2> QED
    BY <1>1, <1>2, <2>1 DEF Clear, Gap
<1>7. StringKept(m, CopyLoop(m, dest, dest + Len(d), src, dmax - Len(d), slen), dest, dmax,
                 max, d \o t, may)
  BY <1>1, <1>2, <1>3, <1>5, <1>6, LoopKept
<1> QED
  BY <1>2, <1>4, <1>7 DEF Copy

LEMMA CopyOfKept ==
  ASSUME NEW max \in Nat, NEW same, NEW m, NEW dest, NEW dmax, NEW src, NEW s,
         IsCall(m, dest, dmax, src, s), NEW may \in BOOLEAN, may => Clear(dest, src, Len(s), Len(s))
  PROVE  StringKept(m, CopyOf(max, same, m, dest, dmax, src), dest, dmax, max, s, may)
<1> DEFINE r == CopyOf(max, same, m, dest, dmax, src)
<1>1. dest # Null /\ src # Null /\ src # dest /\ dmax \in Nat /\ dmax > 0
  BY DEF IsCall, Null
<1>2. Unusable(dest, dmax, max) = IF dmax > max THEN "ESLEMAX" ELSE "EOK"
  BY <1>1, UnusableIs
<1>3. CASE dmax > max
  <2>1. r.err # "EOK" /\ r.mem = m /\ dmax \notin 1 .. max
    BY <1>1, <1>2, <1>3 DEF CopyOf, Kept
  <2> HIDE DEF r
  <2>2. StringKept(m, r, dest, dmax, max, s, may)
    BY <2>1, RefusedKept
  <2> QED
    BY <2>2 DEF r
<1>4. CASE ~(dmax > max)
  <2>1. r = Copy(m, dest, dmax, src, NoLimit)
    BY <1>1, <1>2, <1>4 DEF CopyOf
  <2>2. IsSource(m, src, NoLimit, s)
    BY WholeSource DEF IsCall
  <2>3. StringKept(m, Copy(m, dest, dmax, src, NoLimit), dest, dmax, max, s, may)
    BY <2>2, CopyKeeps
  <2> QED
    BY <2>1, <2>3
<1> QED
  BY <1>3, <1>4

LEMMA CopyAtMostKept ==
  ASSUME NEW max \in Nat, NEW m, NEW dest, NEW dmax, NEW src, NEW s,
         IsCall(m, dest, dmax, src, s), NEW slen \in 1 .. max, NEW may \in BOOLEAN,
         may => Clear(dest, src, Len(First(s, slen)), Len(First(s, slen)))
  PROVE  StringKept(m, CopyAtMost(max, m, dest, dmax, src, slen), dest, dmax, max,
                    First(s, slen), may)
<1> DEFINE r == CopyAtMost(max, m, dest, dmax, src, slen)
           t == First(s, slen)
           error == FirstError(<<Check(src = Null, "ESNULLP"), Check(slen = 0, "ESZEROL"),
                                 Check(slen > max, "ESLEMAX")>>)
<1>1. dest # Null /\ src # Null /\ src # dest /\ dmax \in Nat /\ dmax > 0
  BY DEF IsCall, Null
<1>2. Unusable(dest, dmax, max) = IF dmax > max THEN "ESLEMAX" ELSE "EOK"
  BY <1>1, UnusableIs
<1>3. error = "EOK"
  <2>1. /\ Check(src = Null, "ESNULLP") = "EOK" /\ Check(slen = 0, "ESZEROL") = "EOK"
        /\ Check(slen > max, "ESLEMAX") = "EOK"
    BY <1>1 DEF Check
  <2> QED
    BY <2>1, FirstOfThree
<1>4. CASE dmax > max
  <2>1. r.err # "EOK" /\ r.mem = m /\ dmax \notin 1 .. max
    BY <1>1, <1>2, <1>4 DEF CopyAtMost, Kept
  <2> HIDE DEF r
  <2>2. StringKept(m, r, dest, dmax, max, t, may)
    BY <2>1, RefusedKept
  <2> QED
    BY <2>2 DEF r
<1>5. CASE ~(dmax > max)
  <2> HIDE DEF error
  <2>1. r = Copy(m, dest, dmax, src, slen)
    BY <1>1, <1>2, <1>3, <1>5 DEF CopyAtMost, error
  <2>2. IsSource(m, src, slen, t)
    BY PartSource DEF IsCall
  <2>3. StringKept(m, Copy(m, dest, dmax, src, slen), dest, dmax, max, t, may)
    BY <2>2, CopyKeeps
  <2> QED
    BY <2>1, <2>3
<1> QED
  BY <1>4, <1>5

\* The checks of strcat and its relatives: slen may be NoLimit.
LEMMA AppendAtMostIs ==
  ASSUME NEW max \in Nat, NEW m, NEW dest \in Nat, NEW dmax \in Nat, dmax > 0, NEW src \in Nat,
         NEW slen \in Int, slen <= max
  PROVE  AppendAtMost(max, m, dest, dmax, src, slen) =
           IF dmax > max THEN Kept(m, "ESLEMAX") ELSE AppendLoop(m, dest, dmax, src, slen)
<1> DEFINE error == FirstError(<<Check(dest = Null \/ src = Null, "ESNULLP"), Check(slen > max, "ESLEMAX"),
                                 Check(dmax = 0, "ESZEROL"), Check(dmax > max, "ESLEMAX")>>)
<1>1. /\ Check(dest = Null \/ src = Null, "ESNULLP") = "EOK" /\ Check(slen > max, "ESLEMAX") = "EOK"
      /\ Check(dmax = 0, "ESZEROL") = "EOK"
  BY DEF Check, Null
<1>2. error = Check(dmax > max, "ESLEMAX")
  BY <1>1, FirstOfFour
<1>3. error = IF dmax > max THEN "ESLEMAX" ELSE "EOK"
  BY <1>2 DEF Check
<1>4. AppendAtMost(max, m, dest, dmax, src, slen) =
        IF error # "EOK" THEN Kept(m, error) ELSE AppendLoop(m, dest, dmax, src, slen)
  BY DEF AppendAtMost
<1> HIDE DEF error
<1> QED
  BY <1>3, <1>4

LEMMA AppendAtMostKept ==
  ASSUME NEW max \in Nat, NEW m, NEW dest, NEW dmax, NEW src, NEW s,
         IsCall(m, dest, dmax, src, s), NEW d, IsString(m, dest, d),
         NEW slen \in Int, slen <= max, NEW t, IsSource(m, src, slen, t), NEW may \in BOOLEAN,
         may => Len(d) < dmax /\ Clear(dest, src, Len(d) + Len(t), Len(t))
  PROVE  Appended(m, AppendAtMost(max, m, dest, dmax, src, slen), dest, dmax, max, d, t, may)
<1> DEFINE r == AppendAtMost(max, m, dest, dmax, src, slen)
           u == d \o t
<1>1. /\ dest \in Nat /\ src \in Nat /\ src # dest /\ dmax \in Nat /\ dmax > 0
      /\ Memory(m) /\ DOMAIN m \subseteq Nat /\ Within(m, dest, dmax)
  BY DEF IsCall
<1>2. r = IF dmax > max THEN Kept(m, "ESLEMAX") ELSE AppendLoop(m, dest, dmax, src, slen)
  BY <1>1, AppendAtMostIs
<1>3. StringKept(m, r, dest, dmax, max, d \o t, may)
  <2>1. CASE dmax > max
    <3>1. r.err # "EOK" /\ r.mem = m /\ dmax \notin 1 .. max
      BY <1>2, <2>1 DEF Kept
    <3> HIDE DEF r, u
    <3>2. StringKept(m, r, dest, dmax, max, u, may)
      BY <3>1, RefusedKept
    <3> QED
      BY <3>2 DEF u
  <2>2. CASE ~(dmax > max)
    <3>1. r = AppendLoop(m, dest, dmax, src, slen)
      BY <1>2, <2>2
    <3>2. StringKept(m, AppendLoop(m, dest, dmax, src, slen), dest, dmax, max, d \o t, may)
      BY <1>1, AppendKept
    <3> QED
      BY <3>1, <3>2
  <2> QED
    BY <2>1, <2>2
<1> QED
  BY <1>3 DEF Appended

LEMMA FirstOfTwo ==
  ASSUME NEW a, NEW b
  PROVE  FirstError(<<a, b>>) = IF a # "EOK" THEN a ELSE b
<1> DEFINE checks == <<a, b>>
<1>1. Len(checks) = 2 /\ checks[1] = a /\ checks[2] = b
  OBVIOUS
<1>2. \A j \in 1 .. 2 : j = 1 \/ j = 2
  OBVIOUS
<1> HIDE DEF checks
<1>3. CASE a # "EOK"
  BY <1>1, <1>2, <1>3, FirstCheck
<1>4. CASE a = "EOK" /\ b # "EOK"
  BY <1>1, <1>2, <1>4, FirstCheck
<1>5. CASE a = "EOK" /\ b = "EOK"
  BY <1>1, <1>2, <1>5, NoCheck
<1> QED
  BY <1>3, <1>4, <1>5 DEF checks

\* stpncpy.c:245-273: zeros behind the n characters up to smax, or one.
Padded(m, dest, src, n, smax) ==
  CopyBlock(prim_set_cells(m, dest + n, IF n < smax THEN smax - n ELSE 1, 0), dest, src, n)

IsPadded(m, padded, dest, dmax, src, n) ==
  /\ DOMAIN padded = DOMAIN m /\ Unchanged(m, padded, Cells(dest, dmax))
  /\ \A j \in 0 .. n - 1 : padded[dest + j] = m[src + j]
  /\ padded[dest + n] = 0

LEMMA PaddedIs ==
  ASSUME NEW m, DOMAIN m \subseteq Nat, NEW dest \in Nat, NEW src \in Nat, NEW dmax \in Nat,
         Within(m, dest, dmax), NEW smax \in Nat, smax < dmax, Clear(dest, src, smax, smax),
         NEW n \in 0 .. smax, dest # src, Within(m, src, n)
  PROVE  IsPadded(m, Padded(m, dest, src, n, smax), dest, dmax, src, n)
<1> DEFINE room == IF n < smax THEN smax - n ELSE 1
           filled == prim_set_cells(m, dest + n, room, 0)
           padded == CopyBlock(filled, dest, src, n)
<1>1. room \in Nat /\ room > 0 /\ dest + n + room <= dest + smax + 1
  OBVIOUS
<1> HIDE DEF room
<1>2. /\ DOMAIN filled = DOMAIN m
      /\ \A a \in DOMAIN m : filled[a] = IF a \in dest + n .. dest + n + room - 1 THEN 0 ELSE m[a]
  BY DEF prim_set_cells
<1> HIDE DEF filled
<1>3. /\ DOMAIN padded = DOMAIN m
      /\ \A a \in DOMAIN m : padded[a] = IF a \in dest .. dest + n - 1 THEN filled[src + (a - dest)]
                                         ELSE filled[a]
  BY <1>2 DEF CopyBlock
<1> HIDE DEF padded
<1>4. dest .. dest + dmax - 1 \subseteq DOMAIN m
  BY DEF Within
<1>5. Unchanged(m, padded, Cells(dest, dmax))
  <2>1. ASSUME NEW a \in DOMAIN m, a \notin dest .. dest + dmax - 1
        PROVE  a \notin dest .. dest + n - 1 /\ a \notin dest + n .. dest + n + room - 1
    BY <1>1, <2>1
  <2> QED
    BY <1>2, <1>3, <2>1 DEF Unchanged, Cells
<1>6. ASSUME NEW j \in 0 .. n - 1 PROVE padded[dest + j] = m[src + j]
  <2>1. dest + j \in DOMAIN m /\ dest + j \in dest .. dest + n - 1 /\ src + ((dest + j) - dest) = src + j
    BY <1>4
  <2>2. src + j \in DOMAIN m /\ src + j \notin dest + n .. dest + n + room - 1
    BY <1>1 DEF Within, Clear
  <2> QED
    BY <1>2, <1>3, <2>1, <2>2
<1>7. padded[dest + n] = 0
  <2>1. dest + n \in DOMAIN m /\ dest + n \notin dest .. dest + n - 1
        /\ dest + n \in dest + n .. dest + n + room - 1
    BY <1>1, <1>4
  <2> QED
    BY <1>2, <1>3, <2>1
<1> QED
  BY <1>3, <1>5, <1>6, <1>7 DEF IsPadded, Padded, padded, filled, room

LEMMA StpncpyKept ==
  ASSUME NEW m, NEW dest, NEW dmax, NEW src, NEW s, IsCall(m, dest, dmax, src, s),
         NEW slen \in 1 .. MaxStr, NEW may \in BOOLEAN,
         may => slen < dmax /\ Clear(dest, src, slen, slen)
  PROVE  StringKept(m, safe_stpncpy(m, dest, dmax, src, slen), dest, dmax, MaxStr,
                    First(s, slen), may)
<1> DEFINE r == safe_stpncpy(m, dest, dmax, src, slen)
           t == First(s, slen)
           size == FirstError(<<Check(dmax = 0, "ESZEROL"), Check(dmax > MaxStr \/ slen > MaxStr, "ESLEMAX")>>)
           error == FirstError(<<Check(dmax < slen + 1, "ESNOSPC"),
                               Check(src < dest /\ src + slen >= dest, "ESOVRLP"),
                               Check(dest < src /\ dest + slen >= src, "ESOVRLP")>>)
           n == Length(m, src, slen)
<1>1. /\ dest \in Nat /\ src \in Nat /\ src # dest /\ dmax \in Nat /\ dmax > 0
      /\ Memory(m) /\ DOMAIN m \subseteq Nat /\ Within(m, dest, dmax) /\ IsString(m, src, s)
      /\ slen \in Nat /\ MaxStr \in Nat
  BY StringAssumption DEF IsCall
<1>2. size = IF dmax > MaxStr THEN "ESLEMAX" ELSE "EOK"
  <2>1. Check(dmax = 0, "ESZEROL") = "EOK"
    BY <1>1 DEF Check
  <2>2. size = Check(dmax > MaxStr \/ slen > MaxStr, "ESLEMAX")
    BY <2>1, FirstOfTwo
  <2> HIDE DEF size
  <2> QED
    BY <1>1, <2>2 DEF Check
<1>3. error = "EOK" <=> slen < dmax /\ Clear(dest, src, slen, slen)
  <2>1. error = LET a == Check(dmax < slen + 1, "ESNOSPC")
                    b == Check(src < dest /\ src + slen >= dest, "ESOVRLP")
                IN IF a # "EOK" THEN a ELSE IF b # "EOK" THEN b
                   ELSE Check(dest < src /\ dest + slen >= src, "ESOVRLP")
    BY FirstOfThree
  <2> HIDE DEF error
  <2> QED
    BY <1>1, <2>1 DEF Check, Clear
<1>4. dest # Null /\ src # Null
  BY <1>1 DEF Null
<1>5. r = IF size # "EOK" THEN Kept(m, size)
          ELSE IF error # "EOK" THEN safe_handle_error(m, dest, error)
          ELSE Ended(Padded(m, dest, src, n, slen), dest + n)
  BY <1>4 DEF safe_stpncpy, Padded
<1>6. /\ t \in Seq(Nat) /\ Len(t) = (IF Len(s) < slen THEN Len(s) ELSE slen)
      /\ \A i \in 1 .. Len(t) : t[i] = s[i]
  BY <1>1, FirstIs DEF IsString
<1>7. IsSource(m, src, slen, t)
  BY <1>1, PartSource
<1> HIDE DEF size, error, r, t
<1>8. Len(t) \in Nat /\ Len(t) <= slen /\ Within(m, src, Len(t))
  BY <1>1, <1>6, <1>7 DEF IsSource
<1>9. n = Len(t)
  <2> DEFINE k == Len(t)
  <2>1. k \in 0 .. slen /\ (m[src + k] = 0 \/ k = slen)
    BY <1>1, <1>7, <1>8 DEF IsSource
  <2>2. ASSUME NEW j \in 0 .. k - 1 PROVE m[src + j] # 0
    <3> DEFINE i == j + 1
    <3>1. i \in 1 .. Len(t) /\ src + i - 1 = src + j
      BY <1>1, <1>8
    <3> HIDE DEF i
    <3> QED
      BY <1>7, <3>1 DEF IsSource
  <2> HIDE DEF k
  <2>3. Length(m, src, slen) = k
    BY <1>1, <2>1, <2>2, LengthOf
  <2> QED
    BY <2>3 DEF k
<1> HIDE DEF n
<1>10. CASE dmax > MaxStr
  <2>1. r.err # "EOK" /\ r.mem = m /\ dmax \notin 1 .. MaxStr
    BY <1>1, <1>2, <1>5, <1>10 DEF Kept
  <2>2. StringKept(m, r, dest, dmax, MaxStr, t, may)
    BY <2>1, RefusedKept
  <2> QED
    BY <2>2 DEF r, t
<1>11. CASE ~(dmax > MaxStr) /\ error # "EOK"
  <2>1. r.err # "EOK" /\ r.mem = [m EXCEPT ![dest] = 0] /\ ~may
    BY <1>2, <1>3, <1>5, <1>11 DEF safe_handle_error, Kept
  <2>2. StringKept(m, r, dest, dmax, MaxStr, t, may)
    <3>1. ~(may /\ dmax \in 1 .. MaxStr /\ Len(t) < dmax)
      BY <2>1
    <3>2. Emptied(m, r, dest)
      BY <2>1 DEF Emptied
    <3> QED
      BY <1>1, <3>1, <3>2, ErrorKept
  <2> QED
    BY <2>2 DEF r, t
<1>12. CASE ~(dmax > MaxStr) /\ error = "EOK"
  <2>1. r.err = "EOK" /\ r.end = dest + n /\ r.mem = Padded(m, dest, src, n, slen)
    BY <1>2, <1>5, <1>12 DEF Ended
  <2>2. slen < dmax /\ Clear(dest, src, slen, slen)
    BY <1>3, <1>12
  <2>3. n \in 0 .. slen /\ Within(m, src, n)
    BY <1>1, <1>8, <1>9
  <2>4. /\ DOMAIN r.mem = DOMAIN m /\ Unchanged(m, r.mem, Cells(dest, dmax))
        /\ \A j \in 0 .. n - 1 : r.mem[dest + j] = m[src + j]
        /\ r.mem[dest + n] = 0
    <3>1. IsPadded(m, Padded(m, dest, src, n, slen), dest, dmax, src, n)
      BY <1>1, <2>2, <2>3, PaddedIs
    <3> QED
      BY <2>1, <3>1 DEF IsPadded
  <2>5. ASSUME NEW i \in 1 .. Len(t) PROVE t[i] = r.mem[dest + i - 1] /\ t[i] # 0
    <3> DEFINE j == i - 1
    <3>1. j \in 0 .. n - 1 /\ dest + j = dest + i - 1 /\ src + j = src + i - 1
      BY <1>1, <1>8, <1>9
    <3> HIDE DEF j
    <3>2. r.mem[dest + j] = m[src + j]
      BY <2>4, <3>1
    <3> QED
      BY <3>1, <3>2, <1>7 DEF IsSource
  <2>6. dest .. dest + Len(t) \subseteq DOMAIN m
    BY <1>1, <1>8, <1>9, <2>2, <2>3 DEF Within
  <2>7. IsString(r.mem, dest, t)
    BY <1>1, <1>6, <1>8, <1>9, <2>4, <2>5, <2>6 DEF IsString
  <2>8. StringAt(r.mem, dest) = t
    BY <1>1, <2>4, <2>7, StringAtIs
  <2>9. Len(t) < dmax
    BY <1>1, <1>8, <2>2
  <2> QED
    BY <1>9, <2>1, <2>4, <2>8, <2>9 DEF StringKept, r, t
<1> QED
  BY <1>10, <1>11, <1>12
-----------------------------------------------------------------------------
(* Fields *)

\* e of at most n cells are to be copied from src, those before a 0 if stops holds.
IsField(m, src, n, stops, e) ==
  /\ e \in 0 .. n /\ Within(m, src, e)
  /\ stops => \A j \in 0 .. e - 1 : m[src + j] # 0
  /\ e = n \/ (stops /\ src + e \in DOMAIN m /\ m[src + e] = 0)

\* strcpyfld.c:149-194 and its relatives: where the loop stops.
LEMMA FieldRoundsIs ==
  ASSUME NEW m, NEW dest, NEW src, MayCopy(m, dest, dest, src), NEW n \in Nat,
         NEW stops \in BOOLEAN, NEW e, IsField(m, src, n, stops, e)
  PROVE  LET k == FieldRounds(m, dest, src, n, stops)
             gap == Gap(dest, dest, src)
         IN k \in Nat /\ k <= e /\ k <= gap /\ (k = e \/ k = gap)
<1> DEFINE gap == Gap(dest, dest, src)
           k == IF gap <= e THEN gap ELSE e
<1>1. gap \in Nat /\ \A i \in Nat : Bumped(dest, dest + i, src, src + i) <=> i = gap
  BY GapIs
<1>2. src \in Nat /\ e \in Nat /\ e <= n /\ Within(m, src, e)
  BY DEF IsField, MayCopy
<1> HIDE DEF gap
<1>3. k \in Nat /\ k <= gap /\ k <= e /\ (k = gap \/ k = e)
  BY <1>1, <1>2
<1> HIDE DEF k
<1>4. ASSUME NEW i \in Nat, i <= k
      PROVE  /\ CopyCells(m, dest, src, i) = CopyBlock(m, dest, src, i)
             /\ i < gap /\ src + i \in DOMAIN m => CopyBlock(m, dest, src, i)[src + i] = m[src + i]
  <2>1. i <= gap /\ Within(m, src, i)
    BY <1>1, <1>2, <1>3, <1>4 DEF Within
  <2> QED
    BY <2>1, CopyCellsIs DEF gap
<1> DEFINE Stops(i) == \/ i = n \/ (stops /\ CopyCells(m, dest, src, i)[src + i] = 0)
                       \/ Bumped(dest, dest + i, src, src + i)
           l == FieldRounds(m, dest, src, n, stops)
<1>5. ASSUME NEW i \in 0 .. k - 1 PROVE ~Stops(i)
  <2>1. i \in Nat /\ i <= k /\ i < gap /\ i # n /\ i # gap /\ i \in 0 .. e - 1
    BY <1>1, <1>2, <1>3
  <2>2. src + i \in DOMAIN m
    BY <1>2, <2>1 DEF Within
  <2>3. CopyCells(m, dest, src, i)[src + i] = m[src + i]
    BY <1>4, <2>1, <2>2
  <2>4. stops => m[src + i] # 0
    BY <2>1 DEF IsField
  <2> QED
    BY <1>1, <2>1, <2>3, <2>4
<1>6. Stops(k)
  <2>1. CASE k = gap
    BY <1>1, <1>3, <2>1
  <2>2. CASE k = e /\ k < gap /\ k # n
    <3>1. stops /\ src + k \in DOMAIN m /\ m[src + k] = 0
      BY <2>2 DEF IsField
    <3>2. k <= k
      BY <1>3
    <3> QED
      BY <1>3, <1>4, <2>2, <3>1, <3>2
  <2> QED
    BY <1>1, <1>3, <2>1, <2>2
<1>7. l = CHOOSE i \in 0 .. n : Stops(i) /\ \A j \in 0 .. i - 1 : ~Stops(j)
  BY DEF FieldRounds, FirstRound
<1>8. Stops(k) /\ k \in 0 .. n /\ \A j \in 0 .. k - 1 : ~Stops(j)
  BY <1>2, <1>3, <1>5, <1>6
<1> HIDE DEF Stops, l
<1>9. l \in 0 .. n /\ Stops(l) /\ \A j \in 0 .. l - 1 : ~Stops(j)
  BY <1>7, <1>8
<1>10. l = k
  BY <1>8, <1>9
<1> QED
  BY <1>3, <1>10 DEF l, gap

\* All of dest: the first n cells of src and zeros, or zeros.
FieldDone(m, r, dest, dmax, src, n) ==
  /\ Unchanged(m, r.mem, Cells(dest, dmax))
  /\ \A k \in 0 .. dmax - 1 : r.mem[dest + k] = IF r.err = "EOK" /\ k < n THEN m[src + k] ELSE 0

\* strcpyfld.c:149-198: the cells that are copied, and zeros behind them.
LEMMA FilledIs ==
  ASSUME NEW m, NEW dest \in Nat, NEW src \in Nat, NEW dmax \in Nat, DOMAIN m \subseteq Nat,
         Within(m, dest, dmax), NEW n \in 0 .. dmax, NEW err
  PROVE  /\ FieldDone(m, Cleared(CopyBlock(m, dest, src, n), dest + n, dmax - n, "EOK"),
                      dest, dmax, src, n)
         /\ err # "EOK" => FieldDone(m, Cleared(CopyBlock(m, dest, src, n), dest, dmax, err),
                                     dest, dmax, src, n)
<1> DEFINE copied == CopyBlock(m, dest, src, n)
           good == Cleared(copied, dest + n, dmax - n, "EOK")
           bad == Cleared(copied, dest, dmax, err)
<1>1. /\ DOMAIN copied = DOMAIN m
      /\ \A a \in DOMAIN m : copied[a] = IF a \in dest .. dest + n - 1 THEN m[src + (a - dest)] ELSE m[a]
  BY DEF CopyBlock
<1>2. Cells(dest, dmax) = dest .. dest + dmax - 1 /\ dest .. dest + dmax - 1 \subseteq DOMAIN m
  BY DEF Cells, Within
<1> HIDE DEF copied
<1>3. FieldDone(m, good, dest, dmax, src, n)
  <2>1. /\ good.err = "EOK" /\ DOMAIN good.mem = DOMAIN m
        /\ \A a \in DOMAIN m : good.mem[a] = IF a \in dest + n .. dest + n + (dmax - n) - 1 THEN 0
                                              ELSE copied[a]
    BY <1>1 DEF Cleared, Kept, prim_set_cells
  <2> HIDE DEF good
  <2>2. Unchanged(m, good.mem, dest .. dest + dmax - 1)
    <3>1. ASSUME NEW a \in DOMAIN m, a \notin dest .. dest + dmax - 1
          PROVE  a \notin dest + n .. dest + n + (dmax - n) - 1 /\ a \notin dest .. dest + n - 1
      BY <3>1
    <3> QED
      BY <1>1, <2>1, <3>1 DEF Unchanged
  <2>3. ASSUME NEW k \in 0 .. dmax - 1
        PROVE  good.mem[dest + k] = IF k < n THEN m[src + k] ELSE 0
    <3>1. dest + k \in DOMAIN m /\ (dest + k) - dest = k
      BY <1>2
    <3>2. dest + k \in dest .. dest + n - 1 <=> k < n
      OBVIOUS
    <3>3. dest + k \in dest + n .. dest + n + (dmax - n) - 1 <=> ~(k < n)
      OBVIOUS
    <3> QED
      BY <1>1, <2>1, <3>1, <3>2, <3>3
  <2> QED
    BY <1>2, <2>1, <2>2, <2>3 DEF FieldDone
<1>4. ASSUME err # "EOK" PROVE FieldDone(m, bad, dest, dmax, src, n)
  <2>1. /\ bad.err # "EOK" /\ DOMAIN bad.mem = DOMAIN m
        /\ \A a \in DOMAIN m : bad.mem[a] = IF a \in dest .. dest + dmax - 1 THEN 0 ELSE copied[a]
    BY <1>1, <1>4 DEF Cleared, Kept, prim_set_cells
  <2> HIDE DEF bad
  <2>2. Unchanged(m, bad.mem, dest .. dest + dmax - 1)
    <3>1. ASSUME NEW a \in DOMAIN m, a \notin dest .. dest + dmax - 1 PROVE a \notin dest .. dest + n - 1
      BY <3>1
    <3> QED
      BY <1>1, <2>1, <3>1 DEF Unchanged
  <2>3. ASSUME NEW k \in 0 .. dmax - 1 PROVE bad.mem[dest + k] = 0
    BY <1>2, <2>1
  <2> QED
    BY <1>2, <2>1, <2>2, <2>3 DEF FieldDone
<1> QED
  BY <1>3, <1>4 DEF good, bad, copied

\* When no cell of the field is overwritten before it is copied.
FieldFits(dest, src, n, e) ==
  LET gap == Gap(dest, dest, src) IN e < gap \/ (e = gap /\ (e = n \/ dest < src))

LEMMA FieldLoopIs ==
  ASSUME NEW m, NEW dest, NEW src, MayCopy(m, dest, dest, src), NEW dmax \in Nat,
         Within(m, dest, dmax), DOMAIN m \subseteq Nat, NEW n \in 0 .. dmax,
         NEW stops \in BOOLEAN, NEW e, IsField(m, src, n, stops, e)
  PROVE  LET r == FieldLoop(m, dest, dmax, src, n, stops)
         IN FieldDone(m, r, dest, dmax, src, e) /\ (FieldFits(dest, src, n, e) => r.err = "EOK")
<1> DEFINE gap == Gap(dest, dest, src)
           k == FieldRounds(m, dest, src, n, stops)
           copied == CopyBlock(m, dest, src, k)
           r == FieldLoop(m, dest, dmax, src, n, stops)
           Good == k = n \/ (stops /\ copied[src + k] = 0)
<1>1. k \in Nat /\ k <= e /\ k <= gap /\ (k = e \/ k = gap)
  BY FieldRoundsIs
<1>2. dest \in Nat /\ src \in Nat /\ dest # src /\ e \in Nat /\ e <= n /\ gap \in Nat /\ gap > 0
  BY GapIs DEF MayCopy, IsField, Gap
<1> HIDE DEF k
<1>3. CopyCells(m, dest, src, k) = copied
      /\ (k < gap \/ dest < src => (src + k \in DOMAIN m => copied[src + k] = m[src + k]))
  <2>1. Within(m, src, k)
    BY <1>1, <1>2 DEF IsField, Within
  <2> QED
    BY <1>1, <2>1, CopyCellsIs
<1>4. r = IF Good THEN Cleared(copied, dest + k, dmax - k, "EOK") ELSE Cleared(copied, dest, dmax, "ESOVRLP")
  BY <1>3 DEF FieldLoop, k
<1>5. ~(dest < src) /\ k = gap => src + k = dest /\ copied[src + k] = m[src]
  <2>1. ASSUME ~(dest < src), k = gap PROVE src + k = dest /\ copied[src + k] = m[src]
    <3>1. src + k = dest
      BY <1>2, <2>1 DEF Gap
    <3>2. dest \in DOMAIN m
      BY <1>1, <1>2, <2>1 DEF Within, IsField
    <3>3. dest \in dest .. dest + k - 1 /\ src + (dest - dest) = src
      BY <1>2, <2>1
    <3> QED
      BY <3>1, <3>2, <3>3 DEF CopyBlock
  <2> QED
    BY <2>1
<1> HIDE DEF gap, copied, r
<1>6. Good => k = e
  <2>1. ASSUME k < e, Good PROVE FALSE
    <3>1. k = gap /\ k # n /\ stops /\ copied[src + k] = 0
      BY <1>1, <1>2, <2>1
    <3>2. m[src + k] # 0 /\ src + k \in DOMAIN m
      BY <1>1, <1>2, <2>1, <3>1 DEF IsField, Within
    <3>3. m[src] # 0
      <4>1. 0 \in 0 .. e - 1 /\ src + 0 = src
        BY <1>1, <1>2, <2>1
      <4> QED
        BY <3>1, <4>1 DEF IsField
    <3> QED
      BY <1>3, <1>5, <3>1, <3>2, <3>3
  <2> QED
    BY <1>1, <1>2, <2>1
<1>7. FieldFits(dest, src, n, e) => Good
  <2>1. ASSUME FieldFits(dest, src, n, e) PROVE Good
    <3>1. k = e /\ (e < gap \/ (e = gap /\ (e = n \/ dest < src)))
      BY <1>1, <1>2, <2>1 DEF FieldFits, gap
    <3>2. CASE e = n
      BY <3>1, <3>2
    <3>3. CASE e # n
      <4>1. stops /\ src + k \in DOMAIN m /\ m[src + k] = 0
        BY <3>1, <3>3 DEF IsField
      <4> QED
        BY <1>3, <3>1, <3>3, <4>1
    <3> QED
      BY <3>2, <3>3
  <2> QED
    BY <2>1
<1>8. CASE Good
  <2>1. r = Cleared(copied, dest + k, dmax - k, "EOK") /\ k = e
    BY <1>4, <1>6, <1>8
  <2>2. FieldDone(m, r, dest, dmax, src, e)
    <3>1. k \in 0 .. dmax
      BY <1>1, <1>2
    <3>2. FieldDone(m, Cleared(CopyBlock(m, dest, src, k), dest + k, dmax - k, "EOK"), dest, dmax, src, k)
      BY <1>2, <3>1, FilledIs
    <3> QED
      BY <2>1, <3>2 DEF copied
  <2>3. r.err = "EOK"
    BY <2>1 DEF Cleared, Kept
  <2> QED
    BY <2>2, <2>3 DEF r
<1>9. CASE ~Good
  <2>1. r = Cleared(copied, dest, dmax, "ESOVRLP") /\ r.err # "EOK"
    BY <1>4, <1>9 DEF Cleared, Kept
  <2>2. k \in 0 .. dmax
    BY <1>1, <1>2
  <2>3. FieldDone(m, r, dest, dmax, src, k)
    BY <1>2, <2>1, <2>2, FilledIs DEF copied
  <2>4. FieldDone(m, r, dest, dmax, src, e)
    BY <2>1, <2>3 DEF FieldDone
  <2> QED
    BY <1>7, <1>9, <2>4 DEF r
<1> QED
  BY <1>8, <1>9

IsCleared(m, r, dest, dmax, err) ==
  /\ r.err = err /\ Unchanged(m, r.mem, Cells(dest, dmax))
  /\ \A k \in 0 .. dmax - 1 : r.mem[dest + k] = 0

LEMMA ClearedIs ==
  ASSUME NEW m, NEW dest \in Nat, NEW dmax \in Nat, Within(m, dest, dmax), NEW err
  PROVE  IsCleared(m, Cleared(m, dest, dmax, err), dest, dmax, err)
<1> DEFINE r == Cleared(m, dest, dmax, err)
<1>1. /\ r.err = err /\ DOMAIN r.mem = DOMAIN m
      /\ \A a \in DOMAIN m : r.mem[a] = IF a \in dest .. dest + dmax - 1 THEN 0 ELSE m[a]
  BY DEF Cleared, Kept, prim_set_cells
<1> HIDE DEF r
<1>2. \A k \in 0 .. dmax - 1 : dest + k \in DOMAIN m /\ dest + k \in dest .. dest + dmax - 1
  BY DEF Within
<1> QED
  BY <1>1, <1>2 DEF IsCleared, Unchanged, Cells, r

\* The checks before the loop: a source that is too long clears dest as well.
LEMMA FieldCallKept ==
  ASSUME NEW m, NEW dest, NEW dmax, NEW src, NEW s, IsCall(m, dest, dmax, src, s),
         NEW slen \in Nat, slen > 0, NEW n, NEW stops \in BOOLEAN, NEW e,
         slen <= dmax => n \in 0 .. dmax /\ IsField(m, src, n, stops, e),
         NEW may \in BOOLEAN, may => slen <= dmax /\ FieldFits(dest, src, n, e)
  PROVE  FieldKept(m, Field(m, dest, dmax, src, slen, n, stops), dest, dmax, src, e, may)
<1> DEFINE r == Field(m, dest, dmax, src, slen, n, stops)
           error == FirstError(<<Check(src = Null, "ESNULLP"), Check(slen = 0, "ESZEROL"),
                                 Check(slen > dmax, "ESLEMAX")>>)
<1>1. /\ dest # Null /\ src # Null /\ src # dest /\ dmax \in Nat /\ dmax > 0 /\ dest \in Nat
      /\ src \in Nat /\ Within(m, dest, dmax) /\ DOMAIN m \subseteq Nat /\ Memory(m)
  BY DEF IsCall, Null
<1>2. Unusable(dest, dmax, MaxStr) = IF dmax > MaxStr THEN "ESLEMAX" ELSE "EOK"
  BY <1>1, UnusableIs
<1>3. error = IF slen > dmax THEN "ESLEMAX" ELSE "EOK"
  <2>1. Check(src = Null, "ESNULLP") = "EOK" /\ Check(slen = 0, "ESZEROL") = "EOK"
    BY <1>1 DEF Check
  <2>2. error = Check(slen > dmax, "ESLEMAX")
    BY <2>1, FirstOfThree
  <2> HIDE DEF error
  <2> QED
    BY <2>2 DEF Check
<1>4. r = IF Unusable(dest, dmax, MaxStr) # "EOK" THEN Kept(m, Unusable(dest, dmax, MaxStr))
          ELSE IF error # "EOK" THEN Cleared(m, dest, dmax, error)
          ELSE FieldLoop(m, dest, dmax, src, n, stops)
  BY DEF Field
<1> HIDE DEF error, r
<1>5. CASE dmax > MaxStr
  <2>1. r.mem = m /\ r.err # "EOK"
    BY <1>2, <1>4, <1>5 DEF Kept
  <2>2. ~(dmax <= MaxStr)
    BY <1>1, <1>5, StringAssumption
  <2> QED
    BY <2>1, <2>2 DEF FieldKept, Unchanged, r
<1>6. CASE ~(dmax > MaxStr) /\ slen > dmax
  <2>1. r = Cleared(m, dest, dmax, "ESLEMAX")
    BY <1>2, <1>3, <1>4, <1>6
  <2>2. /\ r.err # "EOK" /\ Unchanged(m, r.mem, Cells(dest, dmax))
        /\ \A k \in 0 .. dmax - 1 : r.mem[dest + k] = 0
    <3>1. IsCleared(m, Cleared(m, dest, dmax, "ESLEMAX"), dest, dmax, "ESLEMAX")
      BY <1>1, ClearedIs
    <3> QED
      BY <2>1, <3>1 DEF IsCleared
  <2>3. ~may
    BY <1>1, <1>6
  <2> QED
    BY <2>2, <2>3 DEF FieldKept, r
<1>7. CASE ~(dmax > MaxStr) /\ ~(slen > dmax)
  <2>1. r = FieldLoop(m, dest, dmax, src, n, stops)
    BY <1>2, <1>3, <1>4, <1>7
  <2>2. n \in 0 .. dmax /\ IsField(m, src, n, stops, e)
    BY <1>1, <1>7
  <2>3. MayCopy(m, dest, dest, src)
    BY <1>1 DEF MayCopy
  <2>4. FieldDone(m, r, dest, dmax, src, e) /\ (FieldFits(dest, src, n, e) => r.err = "EOK")
    BY <1>1, <2>1, <2>2, <2>3, FieldLoopIs
  <2> QED
    BY <2>4 DEF FieldDone, FieldKept, r
<1> QED
  BY <1>5, <1>6, <1>7

\* strcpyfld.c, strcpyfldin.c, strcpyfldout.c: the cells the loops copy. That of
\* strcpyfldin.c ends with dest or with s, wherever slen is.
LEMMA FieldsKept ==
  ASSUME NEW m, NEW dest, NEW dmax, NEW src, NEW s, IsCall(m, dest, dmax, src, s),
         NEW slen \in Nat, slen > 0, Within(m, src, slen)
  PROVE  LET n == IF Len(s) < dmax THEN Len(s) ELSE dmax
             out == IF slen < dmax THEN slen ELSE dmax - 1
             Disjoint(k, l) == Cells(dest, k) \cap Cells(src, l) = {}
         IN /\ FieldKept(m, safe_strcpyfld(m, dest, dmax, src, slen), dest, dmax, src, slen,
                         slen <= dmax /\ Disjoint(slen, slen))
            /\ FieldKept(m, safe_strcpyfldin(m, dest, dmax, src, slen), dest, dmax, src, n,
                         slen <= dmax /\ Disjoint(n, n + 1))
            /\ Unchanged(m, safe_strcpyfldin(m, dest, dmax, src, slen).mem, Cells(dest, dmax))
            /\ FieldKept(m, safe_strcpyfldout(m, dest, dmax, src, slen), dest, dmax, src, out,
                         slen <= dmax /\ Disjoint(out, out))
<1> DEFINE n == IF Len(s) < dmax THEN Len(s) ELSE dmax
           out == IF slen < dmax THEN slen ELSE dmax - 1
           Disjoint(k, l) == Cells(dest, k) \cap Cells(src, l) = {}
<1>1. /\ dest \in Nat /\ src \in Nat /\ src # dest /\ dmax \in Nat /\ dmax > 0
      /\ IsString(m, src, s) /\ Len(s) \in Nat
  BY DEF IsCall, IsString
<1>2. ASSUME NEW k \in Nat, Disjoint(k, k) PROVE FieldFits(dest, src, k, k)
  <2>1. CASE k = 0
    BY <1>1, <2>1 DEF FieldFits, Gap
  <2>2. CASE k # 0
    <3>1. dest \in Cells(dest, k) /\ src \in Cells(src, k)
      BY <1>1, <2>2 DEF Cells
    <3>2. dest \notin Cells(src, k) /\ src \notin Cells(dest, k)
      BY <1>2, <3>1
    <3> QED
      BY <1>1, <3>2 DEF FieldFits, Gap, Cells
  <2> QED
    BY <2>1, <2>2
<1>3. ASSUME Disjoint(n, n + 1) PROVE FieldFits(dest, src, dmax, n)
  <2>1. n \in Nat
    BY <1>1
  <2> HIDE DEF n
  <2>2. CASE n = 0
    BY <1>1, <2>2 DEF FieldFits, Gap
  <2>3. CASE n # 0
    <3>1. dest \in Cells(dest, n) /\ src \in Cells(src, n + 1)
      BY <1>1, <2>1, <2>3 DEF Cells
    <3>2. dest \notin Cells(src, n + 1) /\ src \notin Cells(dest, n)
      BY <1>3, <3>1
    <3> QED
      BY <1>1, <2>1, <3>2 DEF FieldFits, Gap, Cells
  <2> QED
    BY <2>2, <2>3
<1>4. FieldKept(m, safe_strcpyfld(m, dest, dmax, src, slen), dest, dmax, src, slen,
                slen <= dmax /\ Disjoint(slen, slen))
  <2> DEFINE may == slen <= dmax /\ Disjoint(slen, slen)
  <2>1. may \in BOOLEAN /\ (may => slen <= dmax /\ FieldFits(dest, src, slen, slen))
    BY <1>2
  <2>2. slen <= dmax => slen \in 0 .. dmax /\ IsField(m, src, slen, FALSE, slen)
    BY <1>1 DEF IsField
  <2> HIDE DEF may
  <2>3. FieldKept(m, Field(m, dest, dmax, src, slen, slen, FALSE), dest, dmax, src, slen, may)
    BY <2>1, <2>2, FieldCallKept
  <2> QED
    BY <2>3 DEF safe_strcpyfld, may
<1>5. FieldKept(m, safe_strcpyfldin(m, dest, dmax, src, slen), dest, dmax, src, n,
                slen <= dmax /\ Disjoint(n, n + 1))
  <2> DEFINE may == slen <= dmax /\ Disjoint(n, n + 1)
  <2>1. may \in BOOLEAN /\ (may => slen <= dmax /\ FieldFits(dest, src, dmax, n))
    BY <1>3
  <2>2. n \in 0 .. dmax /\ n <= Len(s) /\ (n = dmax \/ n = Len(s))
    BY <1>1
  <2> HIDE DEF may, n
  <2>3. dmax \in 0 .. dmax /\ IsField(m, src, dmax, TRUE, n)
    <3>1. src .. src + Len(s) \subseteq DOMAIN m /\ m[src + Len(s)] = 0
      BY <1>1 DEF IsString
    <3>2. Within(m, src, n)
      <4>1. n \in Nat
        BY <2>2
      <4>2. src .. src + n - 1 \subseteq src .. src + Len(s)
        BY <1>1, <2>2, <4>1
      <4> QED
        BY <3>1, <4>2 DEF Within
    <3>3. ASSUME NEW j \in 0 .. n - 1 PROVE m[src + j] # 0
      <4> DEFINE i == j + 1
      <4>1. i \in 1 .. Len(s) /\ src + i - 1 = src + j
        BY <1>1, <2>2
      <4> HIDE DEF i
      <4> QED
        BY <1>1, <4>1 DEF IsString
    <3>4. n = dmax \/ (src + n \in DOMAIN m /\ m[src + n] = 0)
      <4>1. src + Len(s) \in src .. src + Len(s)
        BY <1>1
      <4> QED
        BY <2>2, <3>1, <4>1
    <3> QED
      BY <1>1, <2>2, <3>2, <3>3, <3>4 DEF IsField
  <2>4. FieldKept(m, Field(m, dest, dmax, src, slen, dmax, TRUE), dest, dmax, src, n, may)
    BY <2>1, <2>3, FieldCallKept
  <2> QED
    BY <2>4 DEF safe_strcpyfldin, may, n
<1>6. FieldKept(m, safe_strcpyfldout(m, dest, dmax, src, slen), dest, dmax, src, out,
                slen <= dmax /\ Disjoint(out, out))
  <2> DEFINE may == slen <= dmax /\ Disjoint(out, out)
  <2>1. (out \in Nat /\ out <= dmax /\ out <= slen) \/ ~(slen <= dmax)
    BY <1>1
  <2>2. out \in Nat
    BY <1>1
  <2>3. may \in BOOLEAN /\ (may => slen <= dmax /\ FieldFits(dest, src, out, out))
    BY <1>2, <2>2
  <2> HIDE DEF may, out
  <2>4. slen <= dmax => out \in 0 .. dmax /\ IsField(m, src, out, FALSE, out)
    BY <1>1, <2>1 DEF IsField, Within
  <2>5. FieldKept(m, Field(m, dest, dmax, src, slen, out, FALSE), dest, dmax, src, out, may)
    BY <2>3, <2>4, FieldCallKept
  <2> QED
    BY <2>5 DEF safe_strcpyfldout, may, out
<1>7. Unchanged(m, safe_strcpyfldin(m, dest, dmax, src, slen).mem, Cells(dest, dmax))
  <2> HIDE DEF n, Disjoint
  <2> QED
    BY <1>5, Zenon DEF FieldKept
<1> QED
  BY <1>4, <1>5, <1>6, <1>7
-----------------------------------------------------------------------------
(* The calls that work in place *)

\* The string d lies at dest, of which dmax cells are at hand.
IsPlace(m, dest, dmax, d) ==
  /\ Memory(m) /\ DOMAIN m \subseteq Nat
  /\ dest \in Nat /\ dmax \in Nat /\ dmax > 0 /\ dmax <= MaxStr /\ Within(m, dest, dmax)
  /\ IsString(m, dest, d)

\* The cells of p are those of t and a 0.
IsWritten(m, p, t) ==
  /\ t \in Seq(Nat) /\ Len(t) \in Nat /\ p \in Nat /\ p .. p + Len(t) \subseteq DOMAIN m
  /\ \A j \in 0 .. Len(t) - 1 : m[p + j] = t[j + 1] /\ t[j + 1] # 0
  /\ m[p + Len(t)] = 0

LEMMA WrittenIsString ==
  ASSUME NEW m, NEW p, NEW t, IsWritten(m, p, t)
  PROVE  IsString(m, p, t)
<1>1. ASSUME NEW i \in 1 .. Len(t) PROVE t[i] = m[p + i - 1] /\ t[i] # 0
  <2> DEFINE j == i - 1
  <2>1. j \in 0 .. Len(t) - 1 /\ j + 1 = i /\ p + j = p + i - 1
    BY DEF IsWritten
  <2> HIDE DEF j
  <2>2. m[p + j] = t[j + 1] /\ t[j + 1] # 0
    BY <2>1 DEF IsWritten
  <2> QED
    BY <2>1, <2>2
<1> QED
  BY <1>1 DEF IsWritten, IsString

LEMMA StringIsWritten ==
  ASSUME NEW m, NEW p, NEW t, IsString(m, p, t)
  PROVE  IsWritten(m, p, t)
<1>1. ASSUME NEW j \in 0 .. Len(t) - 1 PROVE m[p + j] = t[j + 1] /\ t[j + 1] # 0
  <2> DEFINE i == j + 1
  <2>1. i \in 1 .. Len(t) /\ p + i - 1 = p + j
    BY DEF IsString
  <2> HIDE DEF i
  <2>2. t[i] = m[p + i - 1] /\ t[i] # 0
    BY <2>1 DEF IsString
  <2> QED
    BY <2>1, <2>2 DEF i
<1> QED
  BY <1>1 DEF IsWritten, IsString

LEMMA InPlaceIs ==
  ASSUME NEW m, DOMAIN m \subseteq Nat, NEW r, r.err = "EOK", DOMAIN r.mem = DOMAIN m, NEW dest,
         NEW dmax, Unchanged(m, r.mem, Cells(dest, dmax)), NEW t, IsWritten(r.mem, dest, t)
  PROVE  InPlaceKept(m, r, dest, dmax, t)
<1>1. StringAt(r.mem, dest) = t
  BY WrittenIsString, StringAtIs
<1> QED
  BY <1>1 DEF InPlaceKept

LEMMA PlaceIs ==
  ASSUME NEW m, NEW dest, NEW dmax, NEW d, IsPlace(m, dest, dmax, d)
  PROVE  /\ dest \in Nat /\ dmax \in Nat /\ dmax > 0 /\ dmax - 1 \in Nat /\ Within(m, dest, dmax)
         /\ DOMAIN m \subseteq Nat /\ IsWritten(m, dest, d) /\ d \in Seq(Nat) /\ Len(d) \in Nat
         /\ dest .. dest + Len(d) \subseteq DOMAIN m
         /\ \A i \in 1 .. Len(d) : d[i] \in Nat /\ d[i] # 0
<1>1. IsString(m, dest, d) /\ DOMAIN m \subseteq Nat /\ dest \in Nat /\ Within(m, dest, dmax)
  BY DEF IsPlace
<1>2. dmax \in Nat /\ dmax > 0
  BY DEF IsPlace
<1>3. dmax - 1 \in Nat
  BY <1>2
<1>4. IsWritten(m, dest, d)
  BY <1>1, StringIsWritten
<1>5. /\ d \in Seq(Nat) /\ Len(d) \in Nat /\ dest .. dest + Len(d) \subseteq DOMAIN m
      /\ \A i \in 1 .. Len(d) : d[i] # 0
  BY <1>1 DEF IsString
<1>6. \A i \in 1 .. Len(d) : d[i] \in Nat
  BY <1>5
<1> QED
  BY <1>1, <1>2, <1>3, <1>4, <1>5, <1>6

\* The walk to the end of a string, or to where the room ends.
LEMMA WrittenLength ==
  ASSUME NEW m, NEW p, NEW d, IsWritten(m, p, d), NEW n \in Nat
  PROVE  Length(m, p, n) = IF Len(d) < n THEN Len(d) ELSE n
<1> DEFINE k == IF Len(d) < n THEN Len(d) ELSE n
<1>1. k \in 0 .. n /\ k <= Len(d) /\ (k = Len(d) \/ k = n)
  BY DEF IsWritten
<1> HIDE DEF k
<1>2. m[p + k] = 0 \/ k = n
  BY <1>1 DEF IsWritten
<1>3. ASSUME NEW j \in 0 .. k - 1 PROVE m[p + j] # 0
  <2>1. j \in 0 .. Len(d) - 1
    BY <1>1 DEF IsWritten
  <2> QED
    BY <2>1 DEF IsWritten
<1> QED
  BY <1>1, <1>2, <1>3, LengthOf DEF k

LEMMA PlaceLength ==
  ASSUME NEW m, NEW dest, NEW dmax, NEW d, IsPlace(m, dest, dmax, d), NEW n \in Nat
  PROVE  Length(m, dest, n) = IF Len(d) < n THEN Len(d) ELSE n
BY PlaceIs, WrittenLength

LEMMA PlaceIsUsable ==
  ASSUME NEW m, NEW dest, NEW dmax, NEW d, IsPlace(m, dest, dmax, d)
  PROVE  Unusable(dest, dmax, MaxStr) = "EOK"
<1>1. dest # Null /\ dmax # 0 /\ ~(dmax > MaxStr)
  BY StringAssumption DEF IsPlace, Null
<1> QED
  BY <1>1, UnusableIs

\* strnterminate.c
LEMMA TerminateKept ==
  ASSUME NEW m, NEW dest, NEW dmax, NEW d, IsPlace(m, dest, dmax, d)
  PROVE  LET n == IF Len(d) < dmax THEN Len(d) ELSE dmax - 1
             ended == safe_strnterminate(m, dest, dmax)
         IN /\ ended.count = n
            /\ InPlaceKept(m, [mem |-> ended.mem, err |-> "EOK"], dest, dmax, First(d, n))
<1> DEFINE n == IF Len(d) < dmax THEN Len(d) ELSE dmax - 1
           ended == safe_strnterminate(m, dest, dmax)
           t == First(d, n)
           r == [mem |-> ended.mem, err |-> "EOK"]
<1>1. /\ dest \in Nat /\ dmax \in Nat /\ dmax > 0 /\ dmax - 1 \in Nat /\ Within(m, dest, dmax)
      /\ DOMAIN m \subseteq Nat /\ IsWritten(m, dest, d) /\ d \in Seq(Nat) /\ Len(d) \in Nat
      /\ dest .. dest + Len(d) \subseteq DOMAIN m
  BY PlaceIs
<1>2. n \in Nat /\ n <= dmax - 1 /\ n <= Len(d)
      /\ n = IF Len(d) < dmax - 1 THEN Len(d) ELSE dmax - 1
  BY <1>1
<1> HIDE DEF n
<1>3. Length(m, dest, dmax - 1) = n
  <2> DEFINE l == dmax - 1
  <2>1. l \in Nat /\ n = IF Len(d) < l THEN Len(d) ELSE l
    BY <1>1, <1>2
  <2> HIDE DEF l
  <2>2. Length(m, dest, l) = n
    BY <2>1, PlaceLength
  <2> QED
    BY <2>2 DEF l
<1>4. ended.mem = [m EXCEPT ![dest + n] = 0] /\ ended.count = n
  BY <1>3, PlaceIsUsable DEF safe_strnterminate
<1> HIDE DEF ended
<1>5. r.mem = [m EXCEPT ![dest + n] = 0] /\ r.err = "EOK" /\ DOMAIN r.mem = DOMAIN m
  BY <1>4
<1> HIDE DEF r
<1>6. t \in Seq(Nat) /\ Len(t) = n /\ \A i \in 1 .. n : t[i] = d[i]
  <2>1. /\ t \in Seq(Nat) /\ Len(t) = (IF Len(d) < n THEN Len(d) ELSE n)
        /\ \A i \in 1 .. Len(t) : t[i] = d[i]
    BY <1>1, <1>2, FirstIs
  <2> HIDE DEF t
  <2>2. Len(t) = n
    BY <1>1, <1>2, <2>1
  <2> QED
    BY <2>1, <2>2
<1> HIDE DEF t
<1>7. dest .. dest + n \subseteq DOMAIN m /\ dest + n \in DOMAIN m
  <2>1. dest .. dest + n \subseteq dest .. dest + Len(d) /\ dest + n \in dest .. dest + n
    BY <1>1, <1>2
  <2> QED
    BY <1>1, <2>1
<1>8. Unchanged(m, r.mem, Cells(dest, dmax))
  <2>1. dest + n \in Cells(dest, dmax)
    BY <1>1, <1>2 DEF Cells
  <2> QED
    BY <1>5, <1>7, <2>1 DEF Unchanged
<1>9. ASSUME NEW j \in 0 .. n - 1 PROVE r.mem[dest + j] = t[j + 1] /\ t[j + 1] # 0
  <2>1. dest + j \in dest .. dest + n /\ dest + j # dest + n
    BY <1>1, <1>2
  <2>2. j \in 0 .. Len(d) - 1
    BY <1>1, <1>2
  <2>3. j + 1 \in 1 .. n
    BY <1>1, <1>2
  <2>4. dest + j \in DOMAIN m
    BY <1>7, <2>1
  <2>5. m[dest + j] = d[j + 1] /\ d[j + 1] # 0
    BY <1>1, <2>2 DEF IsWritten
  <2> QED
    BY <1>5, <1>6, <2>1, <2>5, <2>4, <2>3
<1>10. IsWritten(r.mem, dest, t)
  BY <1>1, <1>2, <1>5, <1>6, <1>7, <1>9 DEF IsWritten
<1>11. InPlaceKept(m, r, dest, dmax, t)
  BY <1>1, <1>5, <1>8, <1>10, InPlaceIs
<1> QED
  BY <1>4, <1>11 DEF r, t, ended, n

\* strzero.c
LEMMA ZeroKept ==
  ASSUME NEW m, NEW dest, NEW dmax, NEW d, IsPlace(m, dest, dmax, d)
  PROVE  FieldKept(m, safe_strzero(m, dest, dmax), dest, dmax, dest, 0, TRUE)
<1> DEFINE r == safe_strzero(m, dest, dmax)
<1>1. r = Cleared(m, dest, dmax, "EOK")
  BY PlaceIsUsable DEF safe_strzero
<1>2. IsCleared(m, Cleared(m, dest, dmax, "EOK"), dest, dmax, "EOK")
  BY ClearedIs DEF IsPlace
<1> HIDE DEF r
<1>3. /\ r.err = "EOK" /\ Unchanged(m, r.mem, Cells(dest, dmax))
      /\ \A k \in 0 .. dmax - 1 : r.mem[dest + k] = 0
  BY <1>1, <1>2 DEF IsCleared
<1>4. \A k \in 0 .. dmax - 1 : ~(k < 0)
  OBVIOUS
<1> QED
  BY <1>3, <1>4 DEF FieldKept, r

LEMMA LetterIs ==
  ASSUME NEW c \in Nat, c # 0
  PROVE  tolower(c) \in Nat /\ tolower(c) # 0 /\ toupper(c) \in Nat /\ toupper(c) # 0
BY DEF tolower, toupper, Lower, Upper

\* strtolowercase.c, strtouppercase.c: u is d with every character changed.
LEMMA MappedKept ==
  ASSUME NEW m, NEW dest, NEW dmax, NEW d, IsPlace(m, dest, dmax, d), Len(d) <= dmax,
         NEW u \in Seq(Nat), Len(u) = Len(d), \A i \in 1 .. Len(u) : u[i] # 0,
         NEW r, r.err = "EOK", DOMAIN r.mem = DOMAIN m,
         \A a \in DOMAIN m : r.mem[a] = IF a \in dest .. dest + Len(d) - 1 THEN u[a - dest + 1] ELSE m[a]
  PROVE  InPlaceKept(m, r, dest, dmax, u) /\ IsWritten(r.mem, dest, u)
<1>1. /\ dest \in Nat /\ dmax \in Nat /\ DOMAIN m \subseteq Nat /\ IsWritten(m, dest, d)
      /\ Len(d) \in Nat /\ dest .. dest + Len(d) \subseteq DOMAIN m
  BY PlaceIs
<1>2. Unchanged(m, r.mem, Cells(dest, dmax))
  <2>1. ASSUME NEW a \in DOMAIN m, a \notin dest .. dest + dmax - 1
        PROVE  a \notin dest .. dest + Len(d) - 1
    BY <1>1, <2>1
  <2> QED
    BY <2>1 DEF Unchanged, Cells
<1>3. ASSUME NEW j \in 0 .. Len(u) - 1 PROVE r.mem[dest + j] = u[j + 1] /\ u[j + 1] # 0
  <2> DEFINE a == dest + j
  <2>1. j \in 0 .. Len(d) - 1
    OBVIOUS
  <2>2. a \in dest .. dest + Len(d) - 1 /\ a \in dest .. dest + Len(d) /\ a - dest + 1 = j + 1
    BY <1>1, <2>1
  <2>3. a \in DOMAIN m
    <3> HIDE DEF a
    <3> QED
      BY <1>1, <2>2
  <2>4. j + 1 \in 1 .. Len(u)
    BY <1>1, <2>1
  <2> HIDE DEF a
  <2>5. r.mem[a] = u[j + 1]
    BY <2>2, <2>3
  <2> QED
    BY <2>5, <2>4 DEF a
<1>4. r.mem[dest + Len(u)] = 0
  <2>1. dest + Len(d) \in DOMAIN m /\ dest + Len(d) \notin dest .. dest + Len(d) - 1
    BY <1>1
  <2> QED
    BY <1>1, <2>1 DEF IsWritten
<1>5. IsWritten(r.mem, dest, u)
  BY <1>1, <1>3, <1>4 DEF IsWritten
<1> QED
  BY <1>1, <1>2, <1>5, InPlaceIs

LEMMA CasesKept ==
  ASSUME NEW m, NEW dest, NEW dmax, NEW d, IsPlace(m, dest, dmax, d), Len(d) <= dmax
  PROVE  /\ InPlaceKept(m, safe_strtolowercase(m, dest, dmax), dest, dmax,
                        [i \in DOMAIN d |-> tolower(d[i])])
         /\ InPlaceKept(m, safe_strtouppercase(m, dest, dmax), dest, dmax,
                        [i \in DOMAIN d |-> toupper(d[i])])
         /\ IsWritten(safe_strtolowercase(m, dest, dmax).mem, dest, [i \in 1 .. Len(d) |-> tolower(d[i])])
         /\ IsWritten(safe_strtouppercase(m, dest, dmax).mem, dest, [i \in 1 .. Len(d) |-> toupper(d[i])])
<1>1. /\ dest \in Nat /\ dmax \in Nat /\ d \in Seq(Nat) /\ Len(d) \in Nat /\ IsWritten(m, dest, d)
      /\ \A i \in 1 .. Len(d) : d[i] \in Nat /\ d[i] # 0
  BY PlaceIs
<1>2. Length(m, dest, dmax) = Len(d)
  <2> DEFINE l == Length(m, dest, dmax)
  <2>1. l = IF Len(d) < dmax THEN Len(d) ELSE dmax
    BY <1>1, PlaceLength
  <2> HIDE DEF l
  <2>2. Len(d) < dmax \/ Len(d) = dmax
    BY <1>1
  <2>3. l = Len(d)
    BY <1>1, <2>1, <2>2
  <2> QED
    BY <2>3 DEF l
<1>3. ASSUME NEW a \in dest .. dest + Len(d) - 1 PROVE a - dest + 1 \in 1 .. Len(d) /\ m[a] = d[a - dest + 1]
  <2> DEFINE j == a - dest
  <2>1. j \in 0 .. Len(d) - 1 /\ dest + j = a
    BY <1>1
  <2> HIDE DEF j
  <2>2. m[dest + j] = d[j + 1]
    BY <1>1, <2>1 DEF IsWritten
  <2> QED
    BY <1>1, <2>1, <2>2 DEF j
<1>4. /\ InPlaceKept(m, safe_strtolowercase(m, dest, dmax), dest, dmax, [i \in DOMAIN d |-> tolower(d[i])])
      /\ IsWritten(safe_strtolowercase(m, dest, dmax).mem, dest, [i \in 1 .. Len(d) |-> tolower(d[i])])
  <2> DEFINE r == safe_strtolowercase(m, dest, dmax)
             u == [i \in 1 .. Len(d) |-> tolower(d[i])]
  <2>1. r = Kept([a \in DOMAIN m |-> IF a \in dest .. dest + Len(d) - 1 THEN tolower(m[a]) ELSE m[a]], "EOK")
    BY <1>2, PlaceIsUsable DEF safe_strtolowercase, Mapped
  <2>2. /\ r.err = "EOK" /\ DOMAIN r.mem = DOMAIN m
        /\ \A a \in DOMAIN m : r.mem[a] = IF a \in dest .. dest + Len(d) - 1 THEN tolower(m[a]) ELSE m[a]
    BY <2>1 DEF Kept
  <2> HIDE DEF r
  <2>3. u \in Seq(Nat) /\ Len(u) = Len(d) /\ \A i \in 1 .. Len(d) : u[i] = tolower(d[i]) /\ u[i] # 0
    <3>1. \A i \in 1 .. Len(d) : tolower(d[i]) \in Nat /\ tolower(d[i]) # 0
      BY <1>1, LetterIs
    <3> QED
      BY <1>1, <3>1
  <2>4. [i \in DOMAIN d |-> tolower(d[i])] = u
    BY <1>1
  <2> HIDE DEF u
  <2>5. \A a \in DOMAIN m : r.mem[a] = IF a \in dest .. dest + Len(d) - 1 THEN u[a - dest + 1] ELSE m[a]
    BY <1>3, <2>2, <2>3
  <2>6. InPlaceKept(m, r, dest, dmax, u) /\ IsWritten(r.mem, dest, u)
    BY <2>2, <2>3, <2>5, MappedKept
  <2> QED
    BY <2>4, <2>6 DEF r, u
<1>5. /\ InPlaceKept(m, safe_strtouppercase(m, dest, dmax), dest, dmax, [i \in DOMAIN d |-> toupper(d[i])])
      /\ IsWritten(safe_strtouppercase(m, dest, dmax).mem, dest, [i \in 1 .. Len(d) |-> toupper(d[i])])
  <2> DEFINE r == safe_strtouppercase(m, dest, dmax)
             u == [i \in 1 .. Len(d) |-> toupper(d[i])]
  <2>1. r = Kept([a \in DOMAIN m |-> IF a \in dest .. dest + Len(d) - 1 THEN toupper(m[a]) ELSE m[a]], "EOK")
    BY <1>2, PlaceIsUsable DEF safe_strtouppercase, Mapped
  <2>2. /\ r.err = "EOK" /\ DOMAIN r.mem = DOMAIN m
        /\ \A a \in DOMAIN m : r.mem[a] = IF a \in dest .. dest + Len(d) - 1 THEN toupper(m[a]) ELSE m[a]
    BY <2>1 DEF Kept
  <2> HIDE DEF r
  <2>3. u \in Seq(Nat) /\ Len(u) = Len(d) /\ \A i \in 1 .. Len(d) : u[i] = toupper(d[i]) /\ u[i] # 0
    <3>1. \A i \in 1 .. Len(d) : toupper(d[i]) \in Nat /\ toupper(d[i]) # 0
      BY <1>1, LetterIs
    <3> QED
      BY <1>1, <3>1
  <2>4. [i \in DOMAIN d |-> toupper(d[i])] = u
    BY <1>1
  <2> HIDE DEF u
  <2>5. \A a \in DOMAIN m : r.mem[a] = IF a \in dest .. dest + Len(d) - 1 THEN u[a - dest + 1] ELSE m[a]
    BY <1>3, <2>2, <2>3
  <2>6. InPlaceKept(m, r, dest, dmax, u) /\ IsWritten(r.mem, dest, u)
    BY <2>2, <2>3, <2>5, MappedKept
  <2> QED
    BY <2>4, <2>6 DEF r, u
<1> QED
  BY <1>4, <1>5

\* d is more than blanks, and these are its first and its last character that is none.
HasText(d, first, last) ==
  /\ first \in 1 .. Len(d) /\ last \in 1 .. Len(d) /\ first <= last
  /\ d[first] \notin Blank /\ d[last] \notin Blank
  /\ \A i \in 1 .. Len(d) : i < first \/ last < i => d[i] \in Blank

LEMMA GreatestNat ==
  ASSUME NEW n \in Nat, NEW T, T \subseteq 1 .. n, T # {}
  PROVE  \E i \in T : \A j \in T : j <= i
<1> DEFINE U == {k \in 0 .. n : n - k \in T}
<1>1. U \subseteq Nat /\ U # {}
  <2>1. PICK i \in T : TRUE
    OBVIOUS
  <2>2. i \in 1 .. n
    BY <2>1
  <2> DEFINE k == n - i
  <2>3. k \in 0 .. n /\ n - k = i
    BY <2>2
  <2> HIDE DEF k
  <2>4. k \in U
    BY <2>1, <2>3
  <2> QED
    BY <2>4
<1> HIDE DEF U
<1>2. PICK k \in U : \A l \in U : k <= l
  BY <1>1, LeastNat
<1>3. k \in 0 .. n /\ n - k \in T
  BY <1>2 DEF U
<1>4. ASSUME NEW j \in T PROVE j <= n - k
  <2>1. j \in 1 .. n
    OBVIOUS
  <2>2. n - j \in 0 .. n /\ n - (n - j) = j
    BY <2>1
  <2>3. n - j \in U
    BY <2>2 DEF U
  <2>4. k <= n - j
    BY <1>2, <2>3
  <2> QED
    BY <1>3, <2>1, <2>4
<1> QED
  BY <1>3, <1>4

LEMMA EdgesAre ==
  ASSUME NEW d \in Seq(Nat), SelectInSeq(d, LAMBDA c : c \notin Blank) > 0
  PROVE  HasText(d, SelectInSeq(d, LAMBDA c : c \notin Blank),
                 SelectLastInSeq(d, LAMBDA c : c \notin Blank))
<1> DEFINE T == {i \in 1 .. Len(d) : d[i] \notin Blank}
           first == SelectInSeq(d, LAMBDA c : c \notin Blank)
           last == SelectLastInSeq(d, LAMBDA c : c \notin Blank)
<1>1. first = IF T # {} THEN Min(T) ELSE 0
  BY DEF SelectInSeq
<1>2. last = IF T # {} THEN Max(T) ELSE 0
  BY DEF SelectLastInSeq
<1>3. first > 0 /\ Len(d) \in Nat
  OBVIOUS
<1>4. \A i \in T : i \in 1 .. Len(d) /\ d[i] \notin Blank
  OBVIOUS
<1>5. \A i \in 1 .. Len(d) : i \notin T => d[i] \in Blank
  OBVIOUS
<1> HIDE DEF T, first, last
<1>6. T # {}
  BY <1>1, <1>3
<1>7. first \in T /\ \A j \in T : first <= j
  <2>1. T \subseteq Nat
    BY <1>4
  <2>2. \E i \in T : \A j \in T : i <= j
    BY <1>6, <2>1, LeastNat
  <2> QED
    BY <1>1, <1>6, <2>2 DEF Min
<1>8. last \in T /\ \A j \in T : last >= j
  <2>1. T \subseteq 1 .. Len(d)
    BY <1>4
  <2>2. \E i \in T : \A j \in T : j <= i
    BY <1>3, <1>6, <2>1, GreatestNat
  <2>3. PICK i \in T : \A j \in T : j <= i
    BY <2>2
  <2>4. \A j \in T : i >= j
    BY <1>4, <2>3
  <2> QED
    BY <1>2, <1>6, <2>4 DEF Max
<1>9. first \in 1 .. Len(d) /\ last \in 1 .. Len(d) /\ d[first] \notin Blank /\ d[last] \notin Blank
  BY <1>4, <1>7, <1>8
<1>10. ASSUME NEW i \in 1 .. Len(d), i < first \/ last < i PROVE d[i] \in Blank
  <2>1. i \notin T
    BY <1>3, <1>7, <1>8, <1>9, <1>10
  <2> QED
    BY <1>5, <2>1
<1> QED
  BY <1>7, <1>8, <1>9, <1>10 DEF HasText, first, last

\* strljustify.c:138-145, strremovews.c:133-140: how many blanks the text begins with.
LEMMA BlanksAre ==
  ASSUME NEW m, NEW dest, NEW dmax, NEW d, IsPlace(m, dest, dmax, d), NEW first, NEW last,
         HasText(d, first, last)
  PROVE  BlanksFrom(m, dest, Len(d)) = first - 1
<1> DEFINE n == Len(d)
           b == first - 1
           Stops(i) == i = n \/ m[dest + i] \notin Blank
           l == BlanksFrom(m, dest, n)
<1>1. n \in Nat /\ IsWritten(m, dest, d)
  BY PlaceIs
<1>2. first \in 1 .. n /\ b \in 0 .. n - 1 /\ b + 1 = first
  BY <1>1 DEF HasText
<1>3. l = CHOOSE i \in 0 .. n : Stops(i) /\ \A j \in 0 .. i - 1 : ~Stops(j)
  BY DEF BlanksFrom, FirstRound
<1> HIDE DEF b, n
<1>4. Stops(b)
  BY <1>1, <1>2 DEF HasText, IsWritten, n
<1>5. ASSUME NEW j \in 0 .. b - 1 PROVE ~Stops(j)
  <2>1. j # n /\ j \in 0 .. n - 1 /\ j + 1 \in 1 .. n /\ j + 1 < first
    BY <1>1, <1>2
  <2>2. d[j + 1] \in Blank
    BY <2>1 DEF HasText, n
  <2>3. m[dest + j] = d[j + 1]
    BY <1>1, <2>1 DEF IsWritten, n
  <2> QED
    BY <2>1, <2>2, <2>3
<1> HIDE DEF Stops, l
<1>6. b \in 0 .. n
  BY <1>1, <1>2
<1>7. l \in 0 .. n /\ Stops(l) /\ \A j \in 0 .. l - 1 : ~Stops(j)
  BY <1>3, <1>4, <1>5, <1>6
<1>8. l = b
  BY <1>4, <1>5, <1>6, <1>7
<1> QED
  BY <1>8 DEF l, b, n

\* The characters behind the b blanks of d at its begin, and blanks behind them.
IsShifted(m, shifted, dest, dmax, d, b) ==
  /\ DOMAIN shifted = DOMAIN m /\ Unchanged(m, shifted, Cells(dest, dmax))
  /\ \A j \in 0 .. Len(d) - b - 1 : shifted[dest + j] = d[b + j + 1]
  /\ \A j \in Len(d) - b .. Len(d) - 1 : shifted[dest + j] = 32
  /\ shifted[dest + Len(d)] = 0

LEMMA ShiftedIs ==
  ASSUME NEW m, NEW dest, NEW dmax, NEW d, IsPlace(m, dest, dmax, d), Len(d) <= dmax,
         NEW b \in 0 .. Len(d) - 1
  PROVE  IsShifted(m, Shifted(m, dest, Len(d), b), dest, dmax, d, b)
<1> DEFINE n == Len(d)
           moved == CopyBlock(m, dest, dest + b, n - b)
           shifted == Shifted(m, dest, n, b)
<1>1. /\ dest \in Nat /\ dmax \in Nat /\ n \in Nat /\ n <= dmax /\ IsWritten(m, dest, d)
      /\ dest .. dest + n \subseteq DOMAIN m /\ DOMAIN m \subseteq Nat
  BY PlaceIs
<1>2. b \in Nat /\ b < n /\ n - b \in Nat /\ n - b > 0
  BY <1>1
<1>3. shifted = IF b = 0 THEN m ELSE prim_set_cells(moved, dest + n - b, b, 32)
  BY <1>2 DEF Shifted
<1>4. /\ DOMAIN moved = DOMAIN m
      /\ \A a \in DOMAIN m : moved[a] = IF a \in dest .. dest + (n - b) - 1 THEN m[dest + b + (a - dest)] ELSE m[a]
  BY DEF CopyBlock
<1> HIDE DEF n, moved, shifted
<1>5. CASE b = 0
  <2>1. shifted = m
    BY <1>3, <1>5
  <2>2. ASSUME NEW j \in 0 .. n - b - 1 PROVE shifted[dest + j] = d[b + j + 1]
    <3>1. j \in 0 .. n - 1 /\ b + j + 1 = j + 1
      BY <1>1, <1>5
    <3> QED
      BY <1>1, <2>1, <3>1 DEF IsWritten, n
  <2>3. n - b .. n - 1 = {}
    BY <1>1, <1>5
  <2>4. shifted[dest + n] = 0
    BY <1>1, <2>1 DEF IsWritten, n
  <2> QED
    BY <2>1, <2>2, <2>3, <2>4 DEF IsShifted, Unchanged, shifted, n
<1>6. CASE b # 0
  <2> DEFINE w == dest + n - b
  <2>1. shifted = prim_set_cells(moved, w, b, 32)
    BY <1>3, <1>6
  <2>2. w \in Nat /\ w = dest + (n - b) /\ w + b = dest + n
    BY <1>1, <1>2
  <2> HIDE DEF w
  <2>3. /\ DOMAIN shifted = DOMAIN m
        /\ \A a \in DOMAIN m : shifted[a] = IF a \in w .. w + b - 1 THEN 32 ELSE moved[a]
    BY <1>4, <2>1 DEF prim_set_cells
  <2>4. Unchanged(m, shifted, Cells(dest, dmax))
    <3>1. ASSUME NEW a \in DOMAIN m, a \notin dest .. dest + dmax - 1
          PROVE  a \notin w .. w + b - 1 /\ a \notin dest .. dest + (n - b) - 1
      BY <1>1, <1>2, <2>2, <3>1
    <3> QED
      BY <1>4, <2>3, <3>1 DEF Unchanged, Cells
  <2>5. ASSUME NEW j \in 0 .. n - b - 1 PROVE shifted[dest + j] = d[b + j + 1]
    <3> DEFINE a == dest + j
               i == b + j
    <3>1. /\ a \in dest .. dest + n /\ a \notin w .. w + b - 1 /\ a \in dest .. dest + (n - b) - 1
          /\ dest + b + (a - dest) = dest + i /\ i \in 0 .. n - 1
      BY <1>1, <1>2, <2>2
    <3> HIDE DEF a, i
    <3>2. m[dest + i] = d[i + 1]
      BY <1>1, <3>1 DEF IsWritten, n
    <3>3. a \in DOMAIN m
      BY <1>1, <3>1
    <3>4. shifted[a] = d[i + 1]
      BY <1>4, <2>3, <3>1, <3>2, <3>3
    <3> QED
      BY <3>4 DEF a, i
  <2>6. ASSUME NEW j \in n - b .. n - 1 PROVE shifted[dest + j] = 32
    <3>1. dest + j \in dest .. dest + n /\ dest + j \in w .. w + b - 1
      BY <1>1, <1>2, <2>2
    <3> QED
      BY <1>1, <2>3, <3>1
  <2>7. shifted[dest + n] = 0
    <3>1. /\ dest + n \in dest .. dest + n /\ dest + n \notin w .. w + b - 1
          /\ dest + n \notin dest .. dest + (n - b) - 1
      BY <1>1, <1>2, <2>2
    <3>2. m[dest + n] = 0
      BY <1>1 DEF IsWritten, n
    <3> QED
      BY <1>1, <1>4, <2>3, <3>1, <3>2
  <2> QED
    BY <2>3, <2>4, <2>5, <2>6, <2>7 DEF IsShifted, shifted, n
<1> QED
  BY <1>5, <1>6

\* strljustify.c:150-156: the end behind the text that was moved.
Left(shifted, dest, n, b) == IF b = 0 THEN shifted ELSE [shifted EXCEPT ![dest + n - b] = 0]

\* strljustify.c:113-156, strremovews.c:109-151: the text goes over the blanks before it.
LEMMA JustifyIs ==
  ASSUME NEW m, NEW dest, NEW dmax, NEW d, IsPlace(m, dest, dmax, d), Len(d) <= dmax, dmax > 1,
         NEW first, NEW last, HasText(d, first, last)
  PROVE  LET shifted == Shifted(m, dest, Len(d), first - 1)
         IN /\ safe_strljustify(m, dest, dmax) = Kept(Left(shifted, dest, Len(d), first - 1), "EOK")
            /\ safe_strremovews(m, dest, dmax) = Kept(StripEnd(shifted, dest + Len(d)), "EOK")
<1> DEFINE n == Len(d)
           b == first - 1
<1>1. /\ dest \in Nat /\ dmax \in Nat /\ n \in Nat /\ n <= dmax /\ IsWritten(m, dest, d)
      /\ first \in 1 .. n
  BY PlaceIs DEF HasText
<1>2. Length(m, dest, dmax) = n
  <2> DEFINE l == Length(m, dest, dmax)
  <2>1. l = IF Len(d) < dmax THEN Len(d) ELSE dmax
    BY <1>1, PlaceLength
  <2> HIDE DEF l
  <2>2. n < dmax \/ n = dmax
    BY <1>1
  <2>3. l = n
    BY <1>1, <2>1, <2>2
  <2> QED
    BY <2>3 DEF l
<1>3. BlanksFrom(m, dest, n) = b
  BY BlanksAre
<1>4. m[dest] # 0 /\ m[dest + n] = 0 /\ dmax # 1 /\ b # n
  <2>1. 0 \in 0 .. n - 1 /\ dest + 0 = dest /\ dmax # 1 /\ b # n
    BY <1>1
  <2>2. m[dest + 0] = d[0 + 1] /\ d[0 + 1] # 0 /\ m[dest + n] = 0
    BY <1>1, <2>1 DEF IsWritten
  <2> QED
    BY <2>1, <2>2
<1> HIDE DEF n, b
<1>5. safe_strljustify(m, dest, dmax) =
        Kept(Left(Shifted(m, dest, n, b), dest, n, b), "EOK")
  BY <1>2, <1>3, <1>4, PlaceIsUsable DEF safe_strljustify, Justified, Left
<1>6. safe_strremovews(m, dest, dmax) = Kept(StripEnd(Shifted(m, dest, n, b), dest + n), "EOK")
  BY <1>2, <1>3, <1>4, PlaceIsUsable DEF safe_strremovews, Justified
<1> QED
  BY <1>5, <1>6 DEF n, b

LEMMA SubIs ==
  ASSUME NEW d \in Seq(Nat), NEW first \in 1 .. Len(d), NEW last \in first .. Len(d)
  PROVE  /\ SubSeq(d, first, last) \in Seq(Nat) /\ Len(SubSeq(d, first, last)) = last - first + 1
         /\ \A j \in 0 .. last - first : SubSeq(d, first, last)[j + 1] = d[first + j]
<1>1. Len(d) \in Nat /\ first \in Nat /\ last \in Nat /\ last <= Len(d) /\ first <= last
  OBVIOUS
<1>2. SubSeq(d, first, last) \in Seq(Nat)
  BY <1>1
<1>3. Len(SubSeq(d, first, last)) = last - first + 1
  BY <1>1
<1>4. ASSUME NEW j \in 0 .. last - first PROVE SubSeq(d, first, last)[j + 1] = d[first + j]
  <2> DEFINE i == j + 1
  <2>1. i \in 1 .. last - first + 1 /\ first + i - 1 = first + j
    BY <1>1
  <2> HIDE DEF i
  <2>2. SubSeq(d, first, last)[i] = d[first + i - 1]
    BY <1>1, <2>1
  <2> QED
    BY <2>1, <2>2 DEF i
<1> QED
  BY <1>2, <1>3, <1>4

\* strljustify.c
LEMMA JustifyKept ==
  ASSUME NEW m, NEW dest, NEW dmax, NEW d, IsPlace(m, dest, dmax, d), Len(d) <= dmax, dmax > 1,
         NEW first, NEW last, HasText(d, first, last)
  PROVE  InPlaceKept(m, safe_strljustify(m, dest, dmax), dest, dmax, SubSeq(d, first, Len(d)))
<1> DEFINE n == Len(d)
           b == first - 1
           shifted == Shifted(m, dest, n, b)
           r == safe_strljustify(m, dest, dmax)
           t == SubSeq(d, first, n)
<1>1. /\ dest \in Nat /\ dmax \in Nat /\ n \in Nat /\ n <= dmax /\ d \in Seq(Nat)
      /\ dest .. dest + n \subseteq DOMAIN m /\ DOMAIN m \subseteq Nat
  BY PlaceIs
<1>2. \A i \in 1 .. n : d[i] # 0
  BY PlaceIs
<1>3. first \in 1 .. n /\ b \in 0 .. n - 1 /\ first = b + 1
  BY <1>1 DEF HasText
<1>4. r = Kept(IF b = 0 THEN shifted ELSE [shifted EXCEPT ![dest + n - b] = 0], "EOK")
  <2>1. r = Kept(Left(shifted, dest, n, b), "EOK")
    BY JustifyIs
  <2> QED
    BY <2>1 DEF Left
<1>5. IsShifted(m, shifted, dest, dmax, d, b)
  BY <1>3, ShiftedIs
<1>6. t \in Seq(Nat) /\ Len(t) = n - first + 1 /\ \A j \in 0 .. n - first : t[j + 1] = d[first + j]
  <2>1. n \in first .. Len(d)
    BY <1>1, <1>3
  <2> QED
    BY <1>1, <1>3, <2>1, SubIs
<1> HIDE DEF n, b, shifted, r, t
<1>7. Len(t) = n - b /\ n - b \in Nat /\ n - b > 0 /\ n - first = n - b - 1
  BY <1>1, <1>3, <1>6
<1> DEFINE e == dest + (n - b)
<1>8. /\ e \in dest .. dest + n /\ e = dest + n - b /\ e \in Nat
      /\ e \in Cells(dest, dmax) \/ b = 0
  BY <1>1, <1>3, <1>7 DEF Cells
<1> HIDE DEF e
<1>9. e \in DOMAIN m
  BY <1>1, <1>8
<1>10. /\ r.err = "EOK" /\ DOMAIN r.mem = DOMAIN m /\ r.mem[e] = 0
       /\ \A a \in DOMAIN m : a # e => r.mem[a] = shifted[a]
       /\ b = 0 => r.mem = shifted
  <2>1. DOMAIN shifted = DOMAIN m /\ shifted[dest + n] = 0
    BY <1>5 DEF IsShifted, n
  <2>2. CASE b = 0
    <3>1. r = Kept(shifted, "EOK") /\ e = dest + n
      BY <1>1, <1>4, <1>8, <2>2
    <3> QED
      BY <2>1, <2>2, <3>1 DEF Kept
  <2>3. CASE b # 0
    <3>1. r = Kept([shifted EXCEPT ![e] = 0], "EOK")
      BY <1>4, <1>8, <2>3
    <3> QED
      BY <1>9, <2>1, <2>3, <3>1 DEF Kept
  <2> QED
    BY <2>2, <2>3
<1>11. Unchanged(m, r.mem, Cells(dest, dmax))
  <2>1. Unchanged(m, shifted, Cells(dest, dmax))
    BY <1>5 DEF IsShifted
  <2> QED
    BY <1>8, <1>10, <2>1 DEF Unchanged
<1>12. ASSUME NEW j \in 0 .. Len(t) - 1 PROVE r.mem[dest + j] = t[j + 1] /\ t[j + 1] # 0
  <2>1. /\ j \in 0 .. n - b - 1 /\ j \in 0 .. n - first /\ b + j + 1 = first + j /\ first + j \in 1 .. n
        /\ dest + j \in dest .. dest + n /\ dest + j # e
    BY <1>1, <1>3, <1>7, <1>8
  <2>2. shifted[dest + j] = d[first + j]
    BY <1>5, <2>1 DEF IsShifted, n
  <2>3. dest + j \in DOMAIN m
    BY <1>1, <2>1
  <2> QED
    BY <1>2, <1>6, <1>10, <2>1, <2>2, <2>3
<1>13. dest .. dest + Len(t) \subseteq DOMAIN m /\ dest + Len(t) = e
  <2>1. dest .. dest + (n - b) \subseteq dest .. dest + n
    BY <1>1, <1>3, <1>7
  <2> QED
    BY <1>1, <1>7, <2>1 DEF e
<1>14. IsWritten(r.mem, dest, t)
  BY <1>1, <1>6, <1>7, <1>10, <1>12, <1>13 DEF IsWritten
<1>15. InPlaceKept(m, r, dest, dmax, t)
  BY <1>1, <1>10, <1>11, <1>14, InPlaceIs
<1> QED
  BY <1>15 DEF r, t, n

\* strremovews.c:153-160: the blanks behind the text, k of them, become zeros.
LEMMA StripEndIs ==
  ASSUME NEW m, NEW p \in Nat, NEW k \in 0 .. p, m[p - k - 1] \notin Blank,
         \A i \in 0 .. k - 1 : m[p - i - 1] \in Blank
  PROVE  StripEnd(m, p) = prim_set_cells(m, p - k, k, 0)
<1> DEFINE Stops(i) == m[p - i - 1] \notin Blank
           l == CHOOSE i \in 0 .. p : Stops(i) /\ \A j \in 0 .. i - 1 : ~Stops(j)
<1>1. Stops(k) /\ \A j \in 0 .. k - 1 : ~Stops(j)
  OBVIOUS
<1>2. StripEnd(m, p) = prim_set_cells(m, p - l, l, 0)
  BY DEF StripEnd, FirstRound
<1> HIDE DEF Stops
<1>3. l \in 0 .. p /\ Stops(l) /\ \A j \in 0 .. l - 1 : ~Stops(j)
  BY <1>1
<1> HIDE DEF l
<1>4. l = k
  BY <1>1, <1>3
<1> QED
  BY <1>2, <1>4

\* strremovews.c
LEMMA RemoveKept ==
  ASSUME NEW m, NEW dest, NEW dmax, NEW d, IsPlace(m, dest, dmax, d), Len(d) <= dmax, dmax > 1,
         NEW first, NEW last, HasText(d, first, last)
  PROVE  InPlaceKept(m, safe_strremovews(m, dest, dmax), dest, dmax, SubSeq(d, first, last))
<1> DEFINE n == Len(d)
           b == first - 1
           shifted == Shifted(m, dest, n, b)
           r == safe_strremovews(m, dest, dmax)
           t == SubSeq(d, first, last)
           l == last - b
           k == n - l
<1>1. /\ dest \in Nat /\ dmax \in Nat /\ n \in Nat /\ n <= dmax /\ d \in Seq(Nat)
      /\ dest .. dest + n \subseteq DOMAIN m /\ DOMAIN m \subseteq Nat
  BY PlaceIs
<1>2. \A i \in 1 .. n : d[i] # 0
  BY PlaceIs
<1>3. first \in 1 .. n /\ b \in 0 .. n - 1 /\ first = b + 1 /\ last \in first .. n
  BY <1>1 DEF HasText
<1>4. r = Kept(StripEnd(shifted, dest + n), "EOK")
  BY JustifyIs
<1>5. IsShifted(m, shifted, dest, dmax, d, b)
  BY <1>3, ShiftedIs
<1>6. t \in Seq(Nat) /\ Len(t) = last - first + 1 /\ \A j \in 0 .. last - first : t[j + 1] = d[first + j]
  BY <1>1, <1>3, SubIs
<1> HIDE DEF b, shifted, r, t
<1>7. /\ l \in Nat /\ l > 0 /\ l <= n - b /\ last = b + l /\ k \in Nat /\ l + k = n
      /\ last - first + 1 = l /\ last - first = l - 1
  BY <1>1, <1>3
<1> HIDE DEF l, k
<1>8. Len(t) = l
  BY <1>6, <1>7
<1> HIDE DEF n
<1> DEFINE p == dest + n
           e == dest + l
<1>9. p \in Nat /\ k \in 0 .. p /\ e \in Nat /\ p - k = e /\ e + k = p /\ e \in dest .. dest + n
  BY <1>1, <1>7
<1>10. StripEnd(shifted, p) = prim_set_cells(shifted, e, k, 0)
  <2>1. shifted[p - k - 1] \notin Blank
    <3> DEFINE j == l - 1
    <3>1. p - k - 1 = dest + j /\ j \in 0 .. n - b - 1 /\ b + j + 1 = last
      BY <1>1, <1>3, <1>7
    <3> HIDE DEF j, p
    <3>2. shifted[dest + j] = d[last]
      BY <1>5, <3>1 DEF IsShifted, n
    <3> QED
      BY <3>1, <3>2 DEF HasText
  <2>2. ASSUME NEW i \in 0 .. k - 1 PROVE shifted[p - i - 1] \in Blank
    <3> DEFINE j == n - i - 1
    <3>1. p - i - 1 = dest + j /\ j \in l .. n - 1
      BY <1>1, <1>7
    <3> HIDE DEF j, p
    <3>2. CASE j < n - b
      <4>1. j \in 0 .. n - b - 1 /\ b + j + 1 \in 1 .. n /\ last < b + j + 1
        BY <1>1, <1>3, <1>7, <3>1, <3>2
      <4>2. shifted[dest + j] = d[b + j + 1]
        BY <1>5, <4>1 DEF IsShifted, n
      <4>3. d[b + j + 1] \in Blank
        BY <4>1 DEF HasText, n
      <4> QED
        BY <3>1, <4>2, <4>3
    <3>3. CASE ~(j < n - b)
      <4>1. j \in n - b .. n - 1
        BY <1>1, <1>3, <3>1, <3>3
      <4>2. shifted[dest + j] = 32
        BY <1>5, <4>1 DEF IsShifted, n
      <4> QED
        BY <3>1, <4>2 DEF Blank
    <3> QED
      BY <3>2, <3>3
  <2> HIDE DEF p, e
  <2>3. StripEnd(shifted, p) = prim_set_cells(shifted, p - k, k, 0)
    BY <1>9, <2>1, <2>2, StripEndIs
  <2> QED
    BY <1>9, <2>3
<1>11. r = Kept(prim_set_cells(shifted, e, k, 0), "EOK")
  BY <1>4, <1>10
<1>12. DOMAIN shifted = DOMAIN m
  BY <1>5 DEF IsShifted
<1> HIDE DEF p, e
<1>13. /\ r.err = "EOK" /\ DOMAIN r.mem = DOMAIN m
       /\ \A a \in DOMAIN m : r.mem[a] = IF a \in e .. e + k - 1 THEN 0 ELSE shifted[a]
  BY <1>11, <1>12 DEF Kept, prim_set_cells
<1>14. Unchanged(m, r.mem, Cells(dest, dmax))
  <2>1. Unchanged(m, shifted, Cells(dest, dmax))
    BY <1>5 DEF IsShifted
  <2>2. ASSUME NEW a \in DOMAIN m, a \notin dest .. dest + dmax - 1 PROVE a \notin e .. e + k - 1
    BY <1>1, <1>9, <2>2 DEF p
  <2> QED
    BY <1>13, <2>1, <2>2 DEF Unchanged, Cells
<1>15. ASSUME NEW j \in 0 .. Len(t) - 1 PROVE r.mem[dest + j] = t[j + 1] /\ t[j + 1] # 0
  <2>1. /\ j \in 0 .. n - b - 1 /\ j \in 0 .. last - first /\ b + j + 1 = first + j
        /\ first + j \in 1 .. n /\ dest + j \in dest .. dest + n /\ dest + j \notin e .. e + k - 1
    BY <1>1, <1>3, <1>7, <1>8 DEF e
  <2>2. shifted[dest + j] = d[first + j]
    BY <1>5, <2>1 DEF IsShifted, n
  <2>3. dest + j \in DOMAIN m
    BY <1>1, <2>1
  <2> QED
    BY <1>2, <1>6, <1>13, <2>1, <2>2, <2>3
<1>16. r.mem[e] = 0
  <2>1. e \in DOMAIN m
    BY <1>1, <1>9
  <2>2. CASE k = 0
    <3>1. e = dest + n /\ e \notin e .. e + k - 1
      BY <1>7, <1>9, <2>2 DEF e
    <3>2. shifted[dest + n] = 0
      BY <1>5 DEF IsShifted, n
    <3> QED
      BY <1>13, <2>1, <3>1, <3>2
  <2>3. CASE k # 0
    <3>1. e \in e .. e + k - 1
      BY <1>7, <1>9, <2>3
    <3> QED
      BY <1>13, <2>1, <3>1
  <2> QED
    BY <2>2, <2>3
<1>17. dest .. dest + Len(t) \subseteq DOMAIN m /\ dest + Len(t) = e
  <2>1. dest .. dest + l \subseteq dest .. dest + n
    BY <1>1, <1>7
  <2> QED
    BY <1>1, <1>8, <2>1 DEF e
<1>18. IsWritten(r.mem, dest, t)
  BY <1>1, <1>6, <1>7, <1>8, <1>13, <1>15, <1>16, <1>17 DEF IsWritten
<1>19. InPlaceKept(m, r, dest, dmax, t)
  BY <1>1, <1>13, <1>14, <1>18, InPlaceIs
<1> QED
  BY <1>19 DEF r, t
-----------------------------------------------------------------------------
(* All the string calls *)

\* MaxWide = RSIZE_MAX_STR / 4
LEMMA WideIs == MaxWide \in Nat /\ MaxWide <= MaxStr
<1> DEFINE top == MaxStr
           w == top \div 4
<1>1. top \in Nat
  BY StringAssumption
<1> HIDE DEF top
<1>2. w \in Nat /\ w <= top
  BY <1>1
<1> QED
  BY <1>2 DEF MaxWide, top

\* strcpy.c, stpcpy.c, wcscpy.c, wcpcpy.c, strncpy.c, wcsncpy.c, stpncpy.c
LEMMA CopyCallsKept ==
  ASSUME NEW m, NEW dest, NEW dmax, NEW src, NEW s, IsCall(m, dest, dmax, src, s),
         NEW slen \in 1 .. MaxWide
  PROVE  LET f == First(s, slen)
             Separate(t) == Cells(dest, Len(t) + 1) \cap Cells(src, Len(t) + 1) = {}
         IN /\ \A r \in {safe_strcpy(m, dest, dmax, src), safe_stpcpy(m, dest, dmax, src)} :
                  StringKept(m, r, dest, dmax, MaxStr, s, Separate(s))
            /\ \A r \in {safe_wcscpy(m, dest, dmax, src), safe_wcpcpy(m, dest, dmax, src)} :
                  StringKept(m, r, dest, dmax, MaxWide, s, Separate(s))
            /\ StringKept(m, safe_strncpy(m, dest, dmax, src, slen), dest, dmax, MaxStr, f, Separate(f))
            /\ StringKept(m, safe_wcsncpy(m, dest, dmax, src, slen), dest, dmax, MaxWide, f, Separate(f))
            /\ StringKept(m, safe_stpncpy(m, dest, dmax, src, slen), dest, dmax, MaxStr, f,
                          slen < dmax /\ Cells(dest, slen + 1) \cap Cells(src, slen + 1) = {})
<1> DEFINE f == First(s, slen)
           mayAll == Cells(dest, Len(s) + 1) \cap Cells(src, Len(s) + 1) = {}
           mayPart == Cells(dest, Len(f) + 1) \cap Cells(src, Len(f) + 1) = {}
           mayPad == slen < dmax /\ Cells(dest, slen + 1) \cap Cells(src, slen + 1) = {}
<1>1. /\ MaxStr \in Nat /\ MaxWide \in Nat /\ MaxWide <= MaxStr /\ slen \in 1 .. MaxStr /\ slen \in Nat
      /\ dest \in Nat /\ src \in Nat /\ dest # src
  BY WideIs, StringAssumption DEF IsCall
<1>2. Len(s) \in Nat /\ Len(f) \in Nat
  <2>1. s \in Seq(Nat)
    BY DEF IsCall, IsString
  <2>2. f \in Seq(Nat)
    BY <1>1, <2>1, FirstIs
  <2> QED
    BY <2>1, <2>2
<1> HIDE DEF f
<1>3. mayAll \in BOOLEAN /\ (mayAll => Clear(dest, src, Len(s), Len(s)))
  BY <1>1, <1>2, ClearIs
<1>4. mayPart \in BOOLEAN /\ (mayPart => Clear(dest, src, Len(f), Len(f)))
  BY <1>1, <1>2, ClearIs
<1>5. mayPad \in BOOLEAN /\ (mayPad => slen < dmax /\ Clear(dest, src, slen, slen))
  BY <1>1, ClearIs
<1> HIDE DEF mayAll, mayPart, mayPad
<1>6. ASSUME NEW same, NEW max \in Nat
      PROVE  StringKept(m, CopyOf(max, same, m, dest, dmax, src), dest, dmax, max, s, mayAll)
  BY <1>3, CopyOfKept
<1>7. ASSUME NEW max \in Nat, slen \in 1 .. max
      PROVE  StringKept(m, CopyAtMost(max, m, dest, dmax, src, slen), dest, dmax, max, f, mayPart)
  BY <1>4, <1>7, CopyAtMostKept DEF f
<1>8. /\ StringKept(m, safe_strcpy(m, dest, dmax, src), dest, dmax, MaxStr, s, mayAll)
      /\ StringKept(m, safe_stpcpy(m, dest, dmax, src), dest, dmax, MaxStr, s, mayAll)
  BY <1>1, <1>6 DEF safe_strcpy, safe_stpcpy
<1>9. /\ StringKept(m, safe_wcscpy(m, dest, dmax, src), dest, dmax, MaxWide, s, mayAll)
      /\ StringKept(m, safe_wcpcpy(m, dest, dmax, src), dest, dmax, MaxWide, s, mayAll)
  BY <1>1, <1>6 DEF safe_wcscpy, safe_wcpcpy
<1>10. /\ StringKept(m, safe_strncpy(m, dest, dmax, src, slen), dest, dmax, MaxStr, f, mayPart)
       /\ StringKept(m, safe_wcsncpy(m, dest, dmax, src, slen), dest, dmax, MaxWide, f, mayPart)
  BY <1>1, <1>7 DEF safe_strncpy, safe_wcsncpy
<1>11. StringKept(m, safe_stpncpy(m, dest, dmax, src, slen), dest, dmax, MaxStr, f, mayPad)
  BY <1>1, <1>5, StpncpyKept DEF f
<1> QED
  BY <1>8, <1>9, <1>10, <1>11 DEF f, mayAll, mayPart, mayPad

\* strcat.c, strncat.c, wcscat.c, wcsncat.c
LEMMA AppendCallsKept ==
  ASSUME NEW m, NEW dest, NEW dmax, NEW src, NEW s, IsCall(m, dest, dmax, src, s),
         NEW d, IsString(m, dest, d), NEW slen \in 1 .. MaxWide
  PROVE  LET f == First(s, slen)
             Behind(t) == /\ Len(d) < dmax
                          /\ Cells(dest, Len(d) + Len(t) + 1) \cap Cells(src, Len(t) + 1) = {}
         IN /\ Appended(m, safe_strcat(m, dest, dmax, src), dest, dmax, MaxStr, d, s, Behind(s))
            /\ Appended(m, safe_strncat(m, dest, dmax, src, slen), dest, dmax, MaxStr, d, f, Behind(f))
            /\ Appended(m, safe_wcscat(m, dest, dmax, src), dest, dmax, MaxWide, d, s, Behind(s))
            /\ Appended(m, safe_wcsncat(m, dest, dmax, src, slen), dest, dmax, MaxWide, d, f, Behind(f))
<1> DEFINE f == First(s, slen)
           mayAll == Len(d) < dmax /\ Cells(dest, Len(d) + Len(s) + 1) \cap Cells(src, Len(s) + 1) = {}
           mayPart == Len(d) < dmax /\ Cells(dest, Len(d) + Len(f) + 1) \cap Cells(src, Len(f) + 1) = {}
<1>1. /\ MaxStr \in Nat /\ MaxWide \in Nat /\ MaxWide <= MaxStr /\ slen \in Nat /\ slen <= MaxStr
      /\ slen <= MaxWide /\ dest \in Nat /\ src \in Nat /\ dest # src
  BY WideIs, StringAssumption DEF IsCall
<1>2. NoLimit \in Int /\ NoLimit <= MaxStr /\ NoLimit <= MaxWide
  BY <1>1 DEF NoLimit
<1>3. IsSource(m, src, NoLimit, s) /\ IsSource(m, src, slen, f)
  BY <1>1, WholeSource, PartSource DEF IsCall
<1> HIDE DEF f
<1>4. Len(d) \in Nat /\ Len(s) \in Nat /\ Len(f) \in Nat
  BY <1>3 DEF IsString, IsSource
<1>5. mayAll \in BOOLEAN /\ (mayAll => Len(d) < dmax /\ Clear(dest, src, Len(d) + Len(s), Len(s)))
  <2> DEFINE k == Len(d) + Len(s)
  <2>1. k \in Nat
    BY <1>4
  <2> HIDE DEF k
  <2>2. Cells(dest, k + 1) \cap Cells(src, Len(s) + 1) = {} => Clear(dest, src, k, Len(s))
    BY <1>1, <1>4, <2>1, ClearIs
  <2> QED
    BY <2>2 DEF k
<1>6. mayPart \in BOOLEAN /\ (mayPart => Len(d) < dmax /\ Clear(dest, src, Len(d) + Len(f), Len(f)))
  <2> DEFINE k == Len(d) + Len(f)
  <2>1. k \in Nat
    BY <1>4
  <2> HIDE DEF k
  <2>2. Cells(dest, k + 1) \cap Cells(src, Len(f) + 1) = {} => Clear(dest, src, k, Len(f))
    BY <1>1, <1>4, <2>1, ClearIs
  <2> QED
    BY <2>2 DEF k
<1> HIDE DEF mayAll, mayPart
<1>7. ASSUME NEW max \in Nat, NoLimit <= max
      PROVE  Appended(m, AppendAtMost(max, m, dest, dmax, src, NoLimit), dest, dmax, max, d, s, mayAll)
  BY <1>2, <1>3, <1>5, <1>7, AppendAtMostKept
<1>8. ASSUME NEW max \in Nat, slen <= max
      PROVE  Appended(m, AppendAtMost(max, m, dest, dmax, src, slen), dest, dmax, max, d, f, mayPart)
  <2>1. slen \in Int
    BY <1>1
  <2> QED
    BY <1>3, <1>6, <1>8, <2>1, AppendAtMostKept
<1>9. /\ Appended(m, safe_strcat(m, dest, dmax, src), dest, dmax, MaxStr, d, s, mayAll)
      /\ Appended(m, safe_wcscat(m, dest, dmax, src), dest, dmax, MaxWide, d, s, mayAll)
  BY <1>1, <1>2, <1>7 DEF safe_strcat, safe_wcscat
<1>10. /\ Appended(m, safe_strncat(m, dest, dmax, src, slen), dest, dmax, MaxStr, d, f, mayPart)
       /\ Appended(m, safe_wcsncat(m, dest, dmax, src, slen), dest, dmax, MaxWide, d, f, mayPart)
  BY <1>1, <1>8 DEF safe_strncat, safe_wcsncat
<1> QED
  BY <1>9, <1>10 DEF f, mayAll, mayPart

\* Every call that copies or appends, in every memory and for every room and limit,
\* leaves all of it, ended, inside of dest, or an error and an empty string; and it
\* does so without an error whenever the cells it needs have nothing in common.
\* (safe_strcpyfldin with a limit shorter than the string only keeps inside of dest.)
THEOREM StringCopiesAreKept ==
  ASSUME NEW m, NEW dest, NEW dmax, NEW src, NEW s, IsCall(m, dest, dmax, src, s),
         NEW d, IsString(m, dest, d), NEW slen \in 1 .. MaxWide, Within(m, src, slen)
  PROVE  CopiesStayInside(m, dest, dmax, src, slen, d, s)
<1>1. slen \in Nat /\ slen > 0
  BY WideIs
<1> QED
  BY <1>1, CopyCallsKept, AppendCallsKept, FieldsKept DEF CopiesStayInside

\* Every call that changes a string in place changes that string, and nothing outside
\* of dest.
THEOREM StringsChangeInPlace ==
  ASSUME NEW m, NEW dest, NEW dmax, NEW d, IsPlace(m, dest, dmax, d)
  PROVE  StringStaysInside(m, dest, dmax, d) /\ TextStaysInside(m, dest, dmax, d)
<1>1. d \in Seq(Nat) /\ Len(d) \in Nat /\ dmax \in Nat
  BY PlaceIs
<1>2. StringStaysInside(m, dest, dmax, d)
  BY TerminateKept, ZeroKept, CasesKept DEF StringStaysInside
<1>3. TextStaysInside(m, dest, dmax, d)
  <2> DEFINE first == SelectInSeq(d, LAMBDA c : c \notin Blank)
             last == SelectLastInSeq(d, LAMBDA c : c \notin Blank)
  <2>1. first > 0 => HasText(d, first, last)
    BY <1>1, EdgesAre
  <2> HIDE DEF first, last
  <2>2. ASSUME Len(d) <= dmax, dmax > 1, first > 0
        PROVE  /\ InPlaceKept(m, safe_strljustify(m, dest, dmax), dest, dmax, SubSeq(d, first, Len(d)))
               /\ InPlaceKept(m, safe_strremovews(m, dest, dmax), dest, dmax, SubSeq(d, first, last))
    BY <2>1, <2>2, JustifyKept, RemoveKept
  <2> QED
    BY <2>2 DEF TextStaysInside, first, last
<1> QED
  BY <1>2, <1>3

\* The memory of a text, and the one with blanks in it.
LEMMA MemoryOfIs ==
  ASSUME NEW cells \in Seq(Nat), NEW m \in {MemoryOf(cells), Blanked(MemoryOf(cells))}
  PROVE  IsMemory(m) /\ DOMAIN m = 0 .. Len(cells) + 1 /\ m[Len(cells)] = 0
<1> DEFINE n == Len(cells)
           memory == MemoryOf(cells)
           blanked == Blanked(memory)
<1>1. n \in Nat /\ \A a \in 0 .. n + 1 : a < n => cells[a + 1] \in Nat
  OBVIOUS
<1>2. /\ memory = [a \in DOMAIN memory |-> memory[a]] /\ DOMAIN memory = 0 .. n + 1
      /\ \A a \in 0 .. n + 1 : memory[a] = IF a < n THEN cells[a + 1] ELSE 0
  BY DEF MemoryOf
<1> HIDE DEF n, memory
<1>3. n \in 0 .. n + 1 /\ ~(n < n) /\ 0 .. n + 1 \subseteq Nat
  BY <1>1
<1>4. memory[n] = 0 /\ \A a \in 0 .. n + 1 : memory[a] \in Nat
  BY <1>1, <1>2, <1>3
<1>5. /\ blanked = [a \in DOMAIN blanked |-> blanked[a]] /\ DOMAIN blanked = 0 .. n + 1
      /\ \A a \in 0 .. n + 1 : blanked[a] = IF memory[a] = 66 THEN 32 ELSE memory[a]
  BY <1>2 DEF Blanked
<1> HIDE DEF blanked
<1>6. blanked[n] = 0 /\ \A a \in 0 .. n + 1 : blanked[a] \in Nat
  BY <1>3, <1>4, <1>5
<1>7. m = memory \/ m = blanked
  BY DEF memory, blanked
<1>8. IsMemory(memory) /\ DOMAIN memory = 0 .. n + 1 /\ memory[n] = 0
  BY <1>2, <1>3, <1>4 DEF IsMemory, Memory
<1>9. IsMemory(blanked) /\ DOMAIN blanked = 0 .. n + 1 /\ blanked[n] = 0
  BY <1>3, <1>5, <1>6 DEF IsMemory, Memory
<1> QED
  BY <1>7, <1>8, <1>9 DEF n

LEMMA CallsOnText ==
  ASSUME NEW cells \in Seq(Nat), NEW m \in {MemoryOf(cells), Blanked(MemoryOf(cells))},
         NEW dest \in 0 .. Len(cells) - 1, NEW dmax \in 1 .. Len(cells) - dest
  PROVE  /\ dmax <= MaxStr => IsPlace(m, dest, dmax, StringAt(m, dest))
         /\ \A src \in (0 .. Len(cells) - 1) \ {dest} :
               /\ IsCall(m, dest, dmax, src, StringAt(m, src)) /\ IsString(m, dest, StringAt(m, dest))
               /\ \A slen \in 1 .. 3 : Within(m, src, slen)
<1> DEFINE n == Len(cells)
<1>1. IsMemory(m) /\ DOMAIN m = 0 .. n + 1 /\ m[n] = 0
  BY MemoryOfIs
<1>2. n \in Nat /\ dest \in Nat /\ dest <= n /\ dmax \in Nat /\ dmax > 0 /\ dest + dmax <= n
  OBVIOUS
<1>3. ASSUME NEW p \in 0 .. n - 1 PROVE IsString(m, p, StringAt(m, p))
  <2> HIDE DEF n
  <2>1. p \in Nat /\ p <= n /\ p .. n \subseteq 0 .. n + 1
    BY <1>2
  <2> QED
    BY <1>1, <1>2, <2>1, StringThere
<1>4. dest \in 0 .. n - 1
  OBVIOUS
<1> HIDE DEF n
<1>5. dest .. dest + dmax - 1 \subseteq 0 .. n + 1
  BY <1>2
<1>6. Memory(m) /\ DOMAIN m \subseteq Nat /\ Within(m, dest, dmax)
  BY <1>1, <1>2, <1>5 DEF IsMemory, Within
<1>7. dmax <= MaxStr => IsPlace(m, dest, dmax, StringAt(m, dest))
  BY <1>2, <1>3, <1>4, <1>6 DEF IsPlace
<1>8. ASSUME NEW src \in (0 .. n - 1) \ {dest}
      PROVE  /\ IsCall(m, dest, dmax, src, StringAt(m, src)) /\ IsString(m, dest, StringAt(m, dest))
             /\ \A slen \in 1 .. 3 : Within(m, src, slen)
  <2>1. src \in Nat /\ src # dest /\ src \in 0 .. n - 1
    BY <1>2
  <2>2. ASSUME NEW slen \in 1 .. 3 PROVE Within(m, src, slen)
    <3>1. src .. src + slen - 1 \subseteq 0 .. n + 1
      BY <1>2, <2>1
    <3> QED
      BY <1>1, <2>1, <3>1 DEF Within
  <2> QED
    BY <1>2, <1>3, <1>4, <1>6, <2>1, <2>2 DEF IsCall
<1> QED
  BY <1>7, <1>8 DEF n

\* A text is one of characters.
TextType ==
  /\ kind \in {"numbers", "memory", "path"}
  /\ kind # "numbers" => text \in Seq(Nat)

LEMMA TextTypes == AlgorithmsSpec => []TextType
<1>1. AlgorithmsInit => TextType
  BY DEF AlgorithmsInit, TextType
<1>2. TextType /\ [NextNumber \/ NextCharacter]_allvars => TextType'
  <2> SUFFICES ASSUME TextType, [NextNumber \/ NextCharacter]_allvars PROVE TextType'
    OBVIOUS
  <2>1. CASE NextNumber
    BY <2>1 DEF NextNumber, TextType
  <2>2. CASE NextCharacter
    <3>1. kind' = kind /\ kind # "numbers" /\ text \in Seq(Nat)
      BY <2>2 DEF NextCharacter, TextType
    <3>2. PICK c \in Alphabet[kind] : text' = Append(text, c)
      BY <2>2 DEF NextCharacter
    <3>3. c \in Nat
      <4>1. kind \in {"memory", "path"}
        BY <3>1 DEF TextType
      <4> QED
        BY <3>2, <4>1, WalkAssumption
    <3> QED
      BY <3>1, <3>2, <3>3 DEF TextType
  <2>3. CASE UNCHANGED allvars
    BY <2>3 DEF allvars, TextType
  <2> QED
    BY <2>1, <2>2, <2>3
<1> QED
  BY <1>1, <1>2, PTL DEF AlgorithmsSpec

\* StringCallsStayInside, which the run algorithms checks, for memories of every size and
\* texts of every alphabet: each of its calls is one of the two theorems above.
THEOREM StringsStayInside == AlgorithmsSpec => []StringCallsStayInside
<1>1. TextType => StringCallsStayInside
  <2> SUFFICES ASSUME TextType, kind = "memory", Len(text) = MemoryCells
               PROVE  LET m == MemoryOf(text)
                          blanked == Blanked(m)
                      IN \A dest \in 0 .. MemoryCells - 1 : \A dmax \in 1 .. MemoryCells - dest :
                            /\ dmax <= MaxStr =>
                                  /\ StringStaysInside(m, dest, dmax, StringAt(m, dest))
                                  /\ TextStaysInside(blanked, dest, dmax, StringAt(blanked, dest))
                            /\ \A src \in (0 .. MemoryCells - 1) \ {dest}, slen \in SourceLengths :
                                  CopiesStayInside(m, dest, dmax, src, slen, StringAt(m, dest),
                                                   StringAt(m, src))
    BY DEF StringCallsStayInside
  <2> DEFINE m == MemoryOf(text)
             blanked == Blanked(m)
  <2>1. text \in Seq(Nat)
    BY DEF TextType
  <2>2. ASSUME NEW dest \in 0 .. MemoryCells - 1, NEW dmax \in 1 .. MemoryCells - dest
        PROVE  /\ dmax <= MaxStr =>
                     /\ IsPlace(m, dest, dmax, StringAt(m, dest))
                     /\ IsPlace(blanked, dest, dmax, StringAt(blanked, dest))
               /\ \A src \in (0 .. MemoryCells - 1) \ {dest} :
                     /\ IsCall(m, dest, dmax, src, StringAt(m, src))
                     /\ IsString(m, dest, StringAt(m, dest))
                     /\ \A slen \in 1 .. 3 : Within(m, src, slen)
    BY <2>1, CallsOnText
  <2> HIDE DEF m, blanked
  <2>3. ASSUME NEW dest \in 0 .. MemoryCells - 1, NEW dmax \in 1 .. MemoryCells - dest, dmax <= MaxStr
        PROVE  /\ StringStaysInside(m, dest, dmax, StringAt(m, dest))
               /\ TextStaysInside(blanked, dest, dmax, StringAt(blanked, dest))
    BY <2>2, <2>3, StringsChangeInPlace
  <2>4. ASSUME NEW dest \in 0 .. MemoryCells - 1, NEW dmax \in 1 .. MemoryCells - dest,
               NEW src \in (0 .. MemoryCells - 1) \ {dest}, NEW slen \in SourceLengths
        PROVE  CopiesStayInside(m, dest, dmax, src, slen, StringAt(m, dest), StringAt(m, src))
    <3>1. slen \in 1 .. 3 /\ slen \in 1 .. MaxWide
      BY WideIs DEF SourceLengths
    <3> QED
      BY <2>2, <3>1, StringCopiesAreKept
  <2> QED
    BY <2>3, <2>4 DEF m, blanked
<1> QED
  BY <1>1, TextTypes, PTL
-----------------------------------------------------------------------------
(* The queries on strings *)

\* What FirstOf chooses of offsets below n.
IsFirst(offsets, n, i) ==
  \/ offsets = {} /\ i = n
  \/ i \in offsets /\ offsets # {} /\ \A k \in offsets : i <= k

LEMMA FirstOfIs ==
  ASSUME NEW n \in Nat, NEW T, T \subseteq 0 .. n - 1
  PROVE  IsFirst(T, n, FirstOf(T, n)) /\ FirstOf(T, n) \in 0 .. n
<1>1. CASE T = {}
  BY <1>1 DEF FirstOf, IsFirst
<1>2. CASE T # {}
  <2>1. T \subseteq Nat
    OBVIOUS
  <2>2. \E i \in T : \A j \in T : i <= j
    BY <1>2, <2>1, LeastNat
  <2>3. Min(T) \in T /\ \A j \in T : Min(T) <= j
    BY <2>2 DEF Min
  <2>4. FirstOf(T, n) = Min(T)
    BY <1>2 DEF FirstOf
  <2>5. \A k \in T : k \in 0 .. n
    OBVIOUS
  <2> QED
    BY <1>2, <2>3, <2>4, <2>5 DEF IsFirst
<1> QED
  BY <1>1, <1>2

LEMMA MinIs ==
  ASSUME NEW T, T \subseteq Nat, T # {}
  PROVE  Min(T) \in T /\ \A j \in T : Min(T) <= j
<1>1. \E i \in T : \A j \in T : i <= j
  BY LeastNat
<1> QED
  BY <1>1 DEF Min

LEMMA MaxIs ==
  ASSUME NEW n \in Nat, NEW T, T \subseteq 0 .. n - 1, T # {}
  PROVE  Max(T) \in T /\ \A j \in T : j <= Max(T)
<1> DEFINE U == {k + 1 : k \in T}
<1>1. U \subseteq 1 .. n /\ U # {}
  OBVIOUS
<1>2. PICK u \in U : \A v \in U : v <= u
  <2> HIDE DEF U
  <2> QED
    BY <1>1, GreatestNat
<1>3. PICK i \in T : u = i + 1
  OBVIOUS
<1>4. ASSUME NEW j \in T PROVE i >= j
  <2>1. j + 1 \in U
    OBVIOUS
  <2>2. j + 1 <= i + 1
    BY <1>2, <1>3, <2>1
  <2> QED
    BY <2>2
<1> HIDE DEF U
<1>5. Max(T) \in T /\ \A j \in T : Max(T) >= j
  BY <1>4 DEF Max
<1>6. ASSUME NEW j \in T PROVE j <= Max(T)
  BY <1>5
<1> QED
  BY <1>5, <1>6

\* Two strings that both end within dmax, the first of them a place of dmax cells.
ArePair(m, dest, dmax, src, d, s) ==
  /\ IsPlace(m, dest, dmax, d) /\ Len(d) < dmax
  /\ IsString(m, src, s) /\ Len(s) < dmax

Shorter(d, s) == IF Len(d) < Len(s) THEN Len(d) ELSE Len(s)

LEMMA PairIs ==
  ASSUME NEW m, NEW dest, NEW dmax, NEW src, NEW d, NEW s, ArePair(m, dest, dmax, src, d, s)
  PROVE  /\ dest \in Nat /\ src \in Nat /\ dmax \in Nat /\ dmax > 0 /\ Len(d) < dmax /\ Len(s) < dmax
         /\ d \in Seq(Nat) /\ s \in Seq(Nat) /\ Len(d) \in Nat /\ Len(s) \in Nat
         /\ IsWritten(m, dest, d) /\ IsWritten(m, src, s)
         /\ Shorter(d, s) \in Nat /\ Shorter(d, s) <= Len(d) /\ Shorter(d, s) <= Len(s)
         /\ Shorter(d, s) = Len(d) \/ Shorter(d, s) = Len(s) 
         /\ Shorter(d, s) < dmax
<1>1. /\ dest \in Nat /\ dmax \in Nat /\ dmax > 0 /\ IsWritten(m, dest, d) /\ d \in Seq(Nat) /\ Len(d) \in Nat
  BY PlaceIs DEF ArePair
<1>2. IsWritten(m, src, s) /\ src \in Nat /\ s \in Seq(Nat) /\ Len(s) \in Nat
  BY StringIsWritten DEF ArePair, IsString
<1>3. Len(d) < dmax /\ Len(s) < dmax
  BY DEF ArePair
<1>4. /\ Shorter(d, s) \in Nat /\ Shorter(d, s) <= Len(d) /\ Shorter(d, s) <= Len(s)
      /\ Shorter(d, s) = Len(d) \/ Shorter(d, s) = Len(s)
      /\ Shorter(d, s) < dmax
  BY <1>1, <1>2, <1>3 DEF Shorter
<1> QED
  BY <1>1, <1>2, <1>3, <1>4

\* strcmp.c:126-134: both are looked at up to the end of the shorter one.
LEMMA BothIs ==
  ASSUME NEW m, NEW p, NEW q, NEW n \in Nat, NEW d, NEW s, IsWritten(m, p, d), IsWritten(m, q, s),
         Len(d) < n \/ Len(s) < n
  PROVE  Both(m, p, q, n) = Shorter(d, s)
<1> DEFINE Stops(i) == m[p + i] = 0 \/ m[q + i] = 0 \/ i = n
           c == Shorter(d, s)
           l == CHOOSE i \in 0 .. n : Stops(i) /\ \A j \in 0 .. i - 1 : ~Stops(j)
<1>1. Len(d) \in Nat /\ Len(s) \in Nat
  BY DEF IsWritten
<1>2. c \in 0 .. n /\ c < n /\ c <= Len(d) /\ c <= Len(s) /\ (c = Len(d) \/ c = Len(s))
  BY <1>1 DEF Shorter
<1> HIDE DEF c
<1>3. Stops(c)
  BY <1>2 DEF IsWritten
<1>4. ASSUME NEW j \in 0 .. c - 1 PROVE ~Stops(j)
  <2>1. j \in 0 .. Len(d) - 1 /\ j \in 0 .. Len(s) - 1 /\ j # n
    BY <1>1, <1>2
  <2> QED
    BY <2>1 DEF IsWritten
<1>5. Both(m, p, q, n) = l
  BY DEF Both, FirstRound
<1> HIDE DEF Stops
<1>6. l \in 0 .. n /\ Stops(l) /\ \A j \in 0 .. l - 1 : ~Stops(j)
  BY <1>2, <1>3, <1>4
<1> HIDE DEF l
<1>7. l = c
  BY <1>2, <1>3, <1>4, <1>6
<1> QED
  BY <1>5, <1>7 DEF c

LEMMA PairIsUsable ==
  ASSUME NEW m, NEW dest, NEW dmax, NEW d, IsPlace(m, dest, dmax, d), NEW src \in Nat
  PROVE  PairError(0, dest, src, dmax) = "EOK" /\ PairError(0, src, dest, dmax) = "EOK"
<1>1. /\ dest \in Nat /\ dest # Null /\ src # Null /\ 0 # Null /\ dmax # 0 /\ ~(dmax > MaxStr)
  BY StringAssumption DEF IsPlace, Null
<1> QED
  BY <1>1, FirstOfThree DEF PairError, Check

\* The offsets where two strings differ, or agree, before the end of the shorter one.
Unequal(d, s) == {k \in 0 .. Shorter(d, s) - 1 : d[k + 1] # s[k + 1]}
Equal(d, s) == {k \in 0 .. Shorter(d, s) - 1 : d[k + 1] = s[k + 1]}

LEMMA DiffsAre ==
  ASSUME NEW m, NEW dest, NEW dmax, NEW src, NEW d, NEW s, ArePair(m, dest, dmax, src, d, s)
  PROVE  /\ Both(m, dest, src, dmax) = Shorter(d, s) /\ Both(m, src, dest, dmax) = Shorter(d, s)
         /\ Diffs(m, dest, src, dmax) = Unequal(d, s) /\ Diffs(m, src, dest, dmax) = Unequal(d, s)
         /\ Sames(m, dest, src, dmax) = Equal(d, s)
<1> DEFINE c == Shorter(d, s)
<1>1. /\ IsWritten(m, dest, d) /\ IsWritten(m, src, s) /\ dmax \in Nat /\ Len(d) < dmax /\ Len(s) < dmax
      /\ Len(d) \in Nat /\ Len(s) \in Nat /\ c \in Nat /\ c <= Len(d) /\ c <= Len(s)
  BY PairIs
<1>2. Both(m, dest, src, dmax) = c
  BY <1>1, BothIs
<1>3. Both(m, src, dest, dmax) = Shorter(s, d)
  BY <1>1, BothIs
<1>4. Shorter(s, d) = c
  BY <1>1 DEF Shorter
<1> HIDE DEF c
<1>5. ASSUME NEW k \in 0 .. c - 1 PROVE m[dest + k] = d[k + 1] /\ m[src + k] = s[k + 1]
  <2>1. k \in 0 .. Len(d) - 1 /\ k \in 0 .. Len(s) - 1
    BY <1>1
  <2> QED
    BY <1>1, <2>1 DEF IsWritten
<1>6. Diffs(m, dest, src, dmax) = Unequal(d, s) /\ Diffs(m, src, dest, dmax) = Unequal(d, s)
  BY <1>2, <1>3, <1>4, <1>5 DEF Diffs, Unequal, c
<1>7. Sames(m, dest, src, dmax) = Equal(d, s)
  BY <1>2, <1>5 DEF Sames, Equal, c
<1> QED
  BY <1>2, <1>3, <1>4, <1>6, <1>7 DEF c

\* Where strcmp looks last: behind it the strings may be anything.
DiffersAt(d, s, i) ==
  /\ i \in 0 .. Shorter(d, s) /\ \A k \in 0 .. i - 1 : d[k + 1] = s[k + 1]
  /\ i = Shorter(d, s) \/ (i < Shorter(d, s) /\ d[i + 1] # s[i + 1])

LEMMA PlaceOfDifference ==
  ASSUME NEW d \in Seq(Nat), NEW s \in Seq(Nat)
  PROVE  /\ DiffersAt(d, s, FirstOf(Unequal(d, s), Shorter(d, s)))
         /\ FirstOf(Unequal(d, s), Shorter(d, s)) \in 0 .. Shorter(d, s)
         /\ Unequal(d, s) # {} => FirstOf(Unequal(d, s), Shorter(d, s)) = Min(Unequal(d, s))
<1> DEFINE c == Shorter(d, s)
           T == Unequal(d, s)
           i == FirstOf(T, c)
<1>1. c \in Nat
  BY DEF Shorter
<1>2. T = {k \in 0 .. c - 1 : d[k + 1] # s[k + 1]}
  BY DEF Unequal
<1> HIDE DEF c, T
<1>3. T \subseteq 0 .. c - 1
  BY <1>2
<1>4. IsFirst(T, c, i) /\ i \in 0 .. c
  BY <1>1, <1>3, FirstOfIs
<1>5. T # {} => i = Min(T)
  BY DEF FirstOf
<1> HIDE DEF i
<1>6. ASSUME NEW k \in 0 .. i - 1 PROVE d[k + 1] = s[k + 1]
  <2>1. k \in 0 .. c - 1 /\ k < i
    BY <1>1, <1>4
  <2>2. k \notin T
    BY <1>4, <2>1 DEF IsFirst
  <2> QED
    BY <1>2, <2>1, <2>2
<1>7. i = c \/ (i < c /\ d[i + 1] # s[i + 1])
  BY <1>1, <1>2, <1>4 DEF IsFirst
<1> QED
  BY <1>4, <1>5, <1>6, <1>7 DEF DiffersAt, c, T, i

LEMMA StrcmpIs ==
  ASSUME NEW m, NEW dest, NEW dmax, NEW src, NEW d, NEW s, ArePair(m, dest, dmax, src, d, s)
  PROVE  LET i == FirstOf(Unequal(d, s), Shorter(d, s))
         IN /\ safe_strcmp(m, dest, dmax, src, 0) = Answer("EOK", m[dest + i] - m[src + i])
            /\ safe_strcmp(m, src, dmax, dest, 0) = Answer("EOK", m[src + i] - m[dest + i])
<1>1. /\ Both(m, dest, src, dmax) = Shorter(d, s) /\ Both(m, src, dest, dmax) = Shorter(d, s)
      /\ Diffs(m, dest, src, dmax) = Unequal(d, s) /\ Diffs(m, src, dest, dmax) = Unequal(d, s)
  BY DiffsAre
<1>2. IsPlace(m, dest, dmax, d) /\ src \in Nat
  BY PairIs DEF ArePair
<1>3. PairError(0, dest, src, dmax) = "EOK" /\ PairError(0, src, dest, dmax) = "EOK"
  BY <1>2, PairIsUsable
<1>4. safe_strcmp(m, dest, dmax, src, 0)
        = LET i == FirstOf(Diffs(m, dest, src, dmax), Both(m, dest, src, dmax))
          IN Answer("EOK", m[dest + i] - m[src + i])
  BY <1>3 DEF safe_strcmp, FirstDifference, Same, Diffs
<1>5. safe_strcmp(m, src, dmax, dest, 0)
        = LET i == FirstOf(Diffs(m, src, dest, dmax), Both(m, src, dest, dmax))
          IN Answer("EOK", m[src + i] - m[dest + i])
  BY <1>3 DEF safe_strcmp, FirstDifference, Same, Diffs
<1> QED
  BY <1>1, <1>4, <1>5

\* The characters there, and 0 behind the end.
LEMMA CharacterAt ==
  ASSUME NEW m, NEW p, NEW d, IsWritten(m, p, d), NEW i \in 0 .. Len(d)
  PROVE  m[p + i] \in Nat /\ (m[p + i] = 0 <=> i = Len(d)) /\ (i < Len(d) => m[p + i] = d[i + 1])
<1>1. CASE i = Len(d)
  BY <1>1 DEF IsWritten
<1>2. CASE i # Len(d)
  <2>1. i \in 0 .. Len(d) - 1 /\ i + 1 \in 1 .. Len(d) /\ d \in Seq(Nat) /\ Len(d) \in Nat
    BY <1>2 DEF IsWritten
  <2>2. d[i + 1] \in Nat
    BY <2>1
  <2>3. m[p + i] = d[i + 1] /\ d[i + 1] # 0
    BY <2>1 DEF IsWritten
  <2> QED
    BY <1>2, <2>2, <2>3
<1> QED
  BY <1>1, <1>2

\* Sequences are equal if they have a length and their elements in common.
LEMMA SameElements ==
  ASSUME NEW d \in Seq(Nat), NEW s \in Seq(Nat), Len(d) = Len(s),
         \A k \in 0 .. Len(d) - 1 : d[k + 1] = s[k + 1]
  PROVE  d = s
<1>1. ASSUME NEW i \in 1 .. Len(d) PROVE d[i] = s[i]
  <2> DEFINE k == i - 1
  <2>1. k \in 0 .. Len(d) - 1 /\ k + 1 = i
    OBVIOUS
  <2> HIDE DEF k
  <2>2. d[k + 1] = s[k + 1]
    BY <2>1
  <2> QED
    BY <2>1, <2>2
<1> QED
  BY <1>1, SeqEqual

LEMMA PrefixIs ==
  ASSUME NEW d \in Seq(Nat), NEW s \in Seq(Nat)
  PROVE  IsPrefix(s, d) <=> Len(s) <= Len(d) /\ \A k \in 0 .. Len(s) - 1 : d[k + 1] = s[k + 1]
<1> DEFINE n == Len(s)
           t == SubSeq(d, 1, n)
           u == SubSeq(s, 1, n)
<1>1. n \in Nat /\ Len(d) \in Nat
  OBVIOUS
<1>2. u \in Seq(Nat) /\ Len(u) = n /\ \A i \in 1 .. n : u[i] = s[i]
  OBVIOUS
<1>3. n <= Len(d) => t \in Seq(Nat) /\ Len(t) = n /\ \A i \in 1 .. n : t[i] = d[i]
  OBVIOUS
<1>4. IsPrefix(s, d) <=> n <= Len(d) /\ u = t
  BY DEF IsPrefix
<1> HIDE DEF n, t, u
<1>5. \A k \in 0 .. n - 1 : k + 1 \in 1 .. n
  BY <1>1
<1>6. ASSUME n <= Len(d), u = t, NEW k \in 0 .. n - 1 PROVE d[k + 1] = s[k + 1]
  BY <1>2, <1>3, <1>5, <1>6
<1>7. ASSUME n <= Len(d), \A k \in 0 .. n - 1 : d[k + 1] = s[k + 1] PROVE u = t
  <2>1. \A k \in 0 .. n - 1 : u[k + 1] = t[k + 1]
    BY <1>2, <1>3, <1>5, <1>7
  <2> QED
    BY <1>2, <1>3, <1>7, <2>1, SameElements
<1> QED
  BY <1>4, <1>6, <1>7 DEF n

LEMMA EqualStrings ==
  ASSUME NEW d \in Seq(Nat), NEW s \in Seq(Nat), NEW i, DiffersAt(d, s, i)
  PROVE  d = s <=> i = Len(d) /\ i = Len(s)
<1>1. Len(d) \in Nat /\ Len(s) \in Nat
  OBVIOUS
<1>2. ASSUME i = Len(d), i = Len(s) PROVE d = s
  BY <1>2, SameElements DEF DiffersAt
<1>3. ASSUME d = s PROVE i = Len(d) /\ i = Len(s)
  BY <1>1, <1>3 DEF DiffersAt, Shorter
<1> QED
  BY <1>2, <1>3

\* strcmp.c:126-143: it is 0 for equal strings only, and its sign turns with the strings.
LEMMA StrcmpAgrees ==
  ASSUME NEW m, NEW dest, NEW dmax, NEW src, NEW d, NEW s, ArePair(m, dest, dmax, src, d, s)
  PROVE  LET there == safe_strcmp(m, dest, dmax, src, 0).value
             back == safe_strcmp(m, src, dmax, dest, 0).value
         IN (there = 0 <=> d = s) /\ SignOf(there) = -SignOf(back)
<1> DEFINE i == FirstOf(Unequal(d, s), Shorter(d, s))
           x == m[dest + i]
           y == m[src + i]
           there == safe_strcmp(m, dest, dmax, src, 0).value
           back == safe_strcmp(m, src, dmax, dest, 0).value
<1>1. /\ d \in Seq(Nat) /\ s \in Seq(Nat) /\ IsWritten(m, dest, d) /\ IsWritten(m, src, s)
      /\ Len(d) \in Nat /\ Len(s) \in Nat /\ Shorter(d, s) <= Len(d) /\ Shorter(d, s) <= Len(s)
      /\ Shorter(d, s) \in Nat /\ (Shorter(d, s) = Len(d) \/ Shorter(d, s) = Len(s))
  BY PairIs
<1>2. there = x - y /\ back = y - x
  BY StrcmpIs DEF Answer
<1>3. DiffersAt(d, s, i) /\ i \in 0 .. Shorter(d, s)
  BY <1>1, PlaceOfDifference
<1> HIDE DEF i, there, back
<1>4. i \in 0 .. Len(d) /\ i \in 0 .. Len(s)
  BY <1>1, <1>3
<1>5. x \in Nat /\ (x = 0 <=> i = Len(d)) /\ (i < Len(d) => x = d[i + 1])
  BY <1>1, <1>4, CharacterAt
<1>6. y \in Nat /\ (y = 0 <=> i = Len(s)) /\ (i < Len(s) => y = s[i + 1])
  BY <1>1, <1>4, CharacterAt
<1> HIDE DEF x, y
<1>7. d = s <=> i = Len(d) /\ i = Len(s)
  BY <1>1, <1>3, EqualStrings
<1>8. x = y <=> d = s
  <2>1. CASE i = Shorter(d, s)
    BY <1>1, <1>5, <1>6, <1>7, <2>1
  <2>2. CASE i < Shorter(d, s) /\ d[i + 1] # s[i + 1]
    <3> DEFINE c == Shorter(d, s)
    <3>1. i < Len(d) /\ i < Len(s)
      <4>1. i \in Nat /\ i < c /\ c \in Nat /\ c <= Len(d) /\ c <= Len(s)
        BY <1>1, <1>3, <2>2
      <4> HIDE DEF c
      <4> QED
        BY <1>1, <4>1
    <3> QED
      BY <1>5, <1>6, <1>7, <2>2, <3>1
  <2> QED
    BY <1>3, <2>1, <2>2 DEF DiffersAt
<1>9. SignOf(there) = -SignOf(back)
  BY <1>2, <1>5, <1>6 DEF SignOf
<1> QED
  BY <1>2, <1>5, <1>6, <1>8, <1>9 DEF there, back

\* strprefix.c:98-115
LEMMA StrprefixAgrees ==
  ASSUME NEW m, NEW dest, NEW dmax, NEW src, NEW d, NEW s, ArePair(m, dest, dmax, src, d, s)
  PROVE  safe_strprefix(m, dest, dmax, src) = "EOK" <=> s # <<>> /\ IsPrefix(s, d)
<1> DEFINE n == Len(s)
<1>1. /\ d \in Seq(Nat) /\ s \in Seq(Nat) /\ IsWritten(m, dest, d) /\ IsWritten(m, src, s)
      /\ Len(d) \in Nat /\ n \in Nat /\ n < dmax /\ dmax \in Nat /\ src \in Nat
  BY PairIs
<1>2. PairError(0, dest, src, dmax) = "EOK"
  BY <1>1, PairIsUsable DEF ArePair
<1>3. s # <<>> <=> n # 0
  BY <1>1
<1> HIDE DEF n
<1>4. ASSUME NEW i \in 0 .. n
      PROVE  m[src + i] \in Nat /\ (m[src + i] = 0 <=> i = n) /\ (i < n => m[src + i] = s[i + 1])
  BY <1>1, <1>4, CharacterAt DEF n
<1>5. Length(m, src, dmax) = n
  <2>1. n \in 0 .. dmax /\ n \in 0 .. n
    BY <1>1
  <2>2. m[src + n] = 0 \/ n = dmax
    BY <1>4, <2>1
  <2>3. ASSUME NEW j \in 0 .. n - 1 PROVE m[src + j] # 0
    <3>1. j \in 0 .. n /\ j # n
      BY <1>1
    <3> QED
      BY <1>4, <3>1
  <2> QED
    BY <1>1, <2>1, <2>2, <2>3, LengthOf
<1>6. m[src] # 0 <=> n # 0
  <2>1. src + 0 = src /\ 0 \in 0 .. n
    BY <1>1
  <2>2. m[src + 0] = 0 <=> 0 = n
    BY <1>4, <2>1
  <2> QED
    BY <2>1, <2>2
<1>7. ASSUME \A k \in 0 .. n - 1 : m[dest + k] = m[src + k]
      PROVE  n <= Len(d) /\ \A k \in 0 .. n - 1 : d[k + 1] = s[k + 1]
  <2>1. n <= Len(d)
    <3> DEFINE k == Len(d)
    <3>1. k \in 0 .. Len(d) /\ k \in Nat
      BY <1>1
    <3>2. m[dest + k] = 0
      BY <1>1 DEF IsWritten
    <3> HIDE DEF k
    <3>3. ASSUME k \in 0 .. n - 1 PROVE FALSE
      <4>1. k \in 0 .. n /\ k # n
        BY <1>1, <3>3
      <4> QED
        BY <1>4, <1>7, <3>2, <3>3, <4>1
    <3>4. n <= k
      BY <1>1, <3>1, <3>3
    <3> QED
      BY <3>4 DEF k
  <2>2. ASSUME NEW k \in 0 .. n - 1 PROVE d[k + 1] = s[k + 1]
    <3>1. k \in 0 .. Len(d) /\ k < Len(d) /\ k \in 0 .. n /\ k < n
      BY <1>1, <2>1
    <3> QED
      BY <1>1, <1>4, <1>7, <3>1, CharacterAt
  <2> QED
    BY <2>1, <2>2
<1>8. ASSUME n <= Len(d), \A k \in 0 .. n - 1 : d[k + 1] = s[k + 1], NEW k \in 0 .. n - 1
      PROVE  m[dest + k] = m[src + k]
  <2>1. k \in 0 .. Len(d) /\ k < Len(d) /\ k \in 0 .. n /\ k < n
    BY <1>1, <1>8
  <2> QED
    BY <1>1, <1>4, <1>8, <2>1, CharacterAt
<1>9. IsPrefix(s, d) <=> \A k \in 0 .. n - 1 : m[dest + k] = m[src + k]
  BY <1>1, <1>7, <1>8, PrefixIs DEF n
<1>10. safe_strprefix(m, dest, dmax, src) = "EOK"
         <=> m[src] # 0 /\ \A k \in 0 .. n - 1 : m[dest + k] = m[src + k]
  BY <1>2, <1>5 DEF safe_strprefix
<1> QED
  BY <1>3, <1>6, <1>9, <1>10

LEMMA NoDifference ==
  ASSUME NEW d \in Seq(Nat), NEW s \in Seq(Nat)
  PROVE  Unequal(d, s) = {} <=> IsPrefix(s, d) \/ IsPrefix(d, s)
<1>1. Len(d) \in Nat /\ Len(s) \in Nat
  OBVIOUS
<1>2. IsPrefix(s, d) <=> Len(s) <= Len(d) /\ \A k \in 0 .. Len(s) - 1 : d[k + 1] = s[k + 1]
  BY PrefixIs
<1>3. IsPrefix(d, s) <=> Len(d) <= Len(s) /\ \A k \in 0 .. Len(d) - 1 : s[k + 1] = d[k + 1]
  BY PrefixIs
<1>4. Unequal(d, s) = {} <=> \A k \in 0 .. Shorter(d, s) - 1 : d[k + 1] = s[k + 1]
  BY DEF Unequal
<1>5. CASE Len(d) < Len(s)
  <2>1. Shorter(d, s) = Len(d) /\ Len(d) <= Len(s) /\ ~(Len(s) <= Len(d))
    BY <1>1, <1>5 DEF Shorter
  <2> QED
    BY <1>2, <1>3, <1>4, <2>1
<1>6. CASE ~(Len(d) < Len(s))
  <2>1. Shorter(d, s) = Len(s) /\ Len(s) <= Len(d) /\ (Len(d) <= Len(s) => Len(d) = Len(s))
    BY <1>1, <1>6 DEF Shorter
  <2> QED
    BY <1>2, <1>3, <1>4, <2>1
<1> QED
  BY <1>5, <1>6

LEMMA OffsetIs ==
  ASSUME NEW m, NEW dest, NEW dmax, NEW src, NEW d, NEW s, ArePair(m, dest, dmax, src, d, s)
  PROVE  /\ safe_strfirstdiff(m, dest, dmax, src, 0)
              = IF Unequal(d, s) = {} THEN Answer("ESNODIFF", 0) ELSE Answer("EOK", Min(Unequal(d, s)))
         /\ safe_strlastdiff(m, dest, dmax, src, 0)
              = IF Unequal(d, s) = {} THEN Answer("ESNODIFF", 0) ELSE Answer("EOK", Max(Unequal(d, s)))
         /\ safe_strfirstsame(m, dest, dmax, src, 0)
              = IF Equal(d, s) = {} THEN Answer("ESNOTFND", 0) ELSE Answer("EOK", Min(Equal(d, s)))
         /\ safe_strlastsame(m, dest, dmax, src, 0)
              = IF Equal(d, s) = {} THEN Answer("ESNOTFND", 0) ELSE Answer("EOK", Max(Equal(d, s)))
<1>1. Diffs(m, dest, src, dmax) = Unequal(d, s) /\ Sames(m, dest, src, dmax) = Equal(d, s)
  BY DiffsAre
<1>2. IsPlace(m, dest, dmax, d) /\ src \in Nat
  BY PairIs DEF ArePair
<1>3. PairError(0, dest, src, dmax) = "EOK"
  BY <1>2, PairIsUsable
<1>4. safe_strfirstdiff(m, dest, dmax, src, 0)
        = IF Unequal(d, s) = {} THEN Answer("ESNODIFF", 0) ELSE Answer("EOK", Min(Unequal(d, s)))
  BY <1>1, <1>3 DEF safe_strfirstdiff, Offset
<1>5. safe_strlastdiff(m, dest, dmax, src, 0)
        = IF Unequal(d, s) = {} THEN Answer("ESNODIFF", 0) ELSE Answer("EOK", Max(Unequal(d, s)))
  BY <1>1, <1>3 DEF safe_strlastdiff, Offset
<1>6. safe_strfirstsame(m, dest, dmax, src, 0)
        = IF Equal(d, s) = {} THEN Answer("ESNOTFND", 0) ELSE Answer("EOK", Min(Equal(d, s)))
  BY <1>1, <1>3 DEF safe_strfirstsame, Offset
<1>7. safe_strlastsame(m, dest, dmax, src, 0)
        = IF Equal(d, s) = {} THEN Answer("ESNOTFND", 0) ELSE Answer("EOK", Max(Equal(d, s)))
  BY <1>1, <1>3 DEF safe_strlastsame, Offset
<1> QED
  BY <1>4, <1>5, <1>6, <1>7

\* The first i characters of two strings that differ no earlier.
LEMMA SameBefore ==
  ASSUME NEW d \in Seq(Nat), NEW s \in Seq(Nat), NEW i \in Nat, i <= Len(d), i <= Len(s),
         \A k \in 0 .. i - 1 : d[k + 1] = s[k + 1]
  PROVE  First(d, i) = First(s, i)
<1>1. Len(d) \in Nat /\ Len(s) \in Nat
  OBVIOUS
<1>2. /\ First(d, i) \in Seq(Nat) /\ Len(First(d, i)) = IF Len(d) < i THEN Len(d) ELSE i
      /\ \A j \in 1 .. Len(First(d, i)) : First(d, i)[j] = d[j]
  BY FirstIs
<1>3. /\ First(s, i) \in Seq(Nat) /\ Len(First(s, i)) = IF Len(s) < i THEN Len(s) ELSE i
      /\ \A j \in 1 .. Len(First(s, i)) : First(s, i)[j] = s[j]
  BY FirstIs
<1> DEFINE t == First(d, i)
           u == First(s, i)
<1> HIDE DEF t, u
<1>4. /\ t \in Seq(Nat) /\ u \in Seq(Nat) /\ Len(t) = i /\ Len(u) = i
      /\ (\A j \in 1 .. i : t[j] = d[j]) /\ \A j \in 1 .. i : u[j] = s[j]
  BY <1>1, <1>2, <1>3 DEF t, u
<1>5. \A k \in 0 .. i - 1 : k + 1 \in 1 .. i
  OBVIOUS
<1>6. \A k \in 0 .. i - 1 : t[k + 1] = u[k + 1]
  BY <1>4, <1>5
<1>7. t = u
  BY <1>4, <1>6, SameElements
<1> QED
  BY <1>7 DEF t, u

LEMMA OffsetsBelow ==
  ASSUME NEW d \in Seq(Nat), NEW s \in Seq(Nat), NEW T \in {Unequal(d, s), Equal(d, s)}, T # {}
  PROVE  /\ Min(T) \in T /\ Max(T) \in T /\ Min(T) \in Nat /\ Max(T) \in Nat
         /\ \A k \in T : Min(T) <= k /\ k <= Max(T)
<1> DEFINE c == Shorter(d, s)
<1>1. c \in Nat
  BY DEF Shorter
<1>2. T \subseteq 0 .. c - 1
  BY DEF Unequal, Equal
<1> HIDE DEF c
<1>3. Max(T) \in T /\ \A k \in T : k <= Max(T)
  BY <1>1, <1>2, MaxIs
<1>4. T \subseteq Nat
  BY <1>2
<1>5. Min(T) \in T /\ \A k \in T : Min(T) <= k
  BY <1>4, MinIs
<1>6. \A k \in T : k \in Nat
  BY <1>4
<1> QED
  BY <1>3, <1>5, <1>6

\* strfirstdiff.c, strlastdiff.c: the difference the comparison goes by, and the last one.
LEMMA DifferencesAgree ==
  ASSUME NEW m, NEW dest, NEW dmax, NEW src, NEW d, NEW s, ArePair(m, dest, dmax, src, d, s)
  PROVE  LET there == safe_strcmp(m, dest, dmax, src, 0).value
             common == 1 .. IF Len(d) < Len(s) THEN Len(d) ELSE Len(s)
             diff == safe_strfirstdiff(m, dest, dmax, src, 0)
             lastdiff == safe_strlastdiff(m, dest, dmax, src, 0)
         IN /\ diff.err = "ESNODIFF" <=> IsPrefix(s, d) \/ IsPrefix(d, s)
            /\ diff.err = "EOK" =>
                  /\ First(d, diff.value) = First(s, diff.value)
                  /\ d[diff.value + 1] # s[diff.value + 1]
                  /\ SignOf(there) = SignOf(d[diff.value + 1] - s[diff.value + 1])
                  /\ lastdiff.value >= diff.value
                  /\ \A j \in common : j > lastdiff.value + 1 => d[j] = s[j]
<1> DEFINE T == Unequal(d, s)
           c == Shorter(d, s)
           there == safe_strcmp(m, dest, dmax, src, 0).value
           diff == safe_strfirstdiff(m, dest, dmax, src, 0)
           lastdiff == safe_strlastdiff(m, dest, dmax, src, 0)
           i == Min(T)
           l == Max(T)
<1>1. /\ d \in Seq(Nat) /\ s \in Seq(Nat) /\ IsWritten(m, dest, d) /\ IsWritten(m, src, s)
      /\ Len(d) \in Nat /\ Len(s) \in Nat /\ c \in Nat /\ c <= Len(d) /\ c <= Len(s)
  BY PairIs
<1>2. diff = IF T = {} THEN Answer("ESNODIFF", 0) ELSE Answer("EOK", i)
  BY OffsetIs
<1>3. lastdiff = IF T = {} THEN Answer("ESNODIFF", 0) ELSE Answer("EOK", l)
  BY OffsetIs
<1>4. T = {} <=> IsPrefix(s, d) \/ IsPrefix(d, s)
  BY <1>1, NoDifference
<1>5. T = {k \in 0 .. c - 1 : d[k + 1] # s[k + 1]}
  BY DEF Unequal
<1>6. c = IF Len(d) < Len(s) THEN Len(d) ELSE Len(s)
  BY DEF Shorter
<1> HIDE DEF diff, lastdiff, there, c
<1>7. ASSUME T # {}
      PROVE  /\ i \in T /\ l \in T /\ i \in Nat /\ l \in Nat /\ \A k \in T : i <= k /\ k <= l
             /\ there = m[dest + i] - m[src + i] /\ DiffersAt(d, s, i)
  <2>1. i \in T /\ l \in T /\ i \in Nat /\ l \in Nat /\ \A k \in T : i <= k /\ k <= l
    BY <1>1, <1>7, OffsetsBelow
  <2>2. DiffersAt(d, s, FirstOf(T, c)) /\ FirstOf(T, c) = i
    BY <1>1, <1>7, PlaceOfDifference DEF c
  <2>3. there = m[dest + FirstOf(T, c)] - m[src + FirstOf(T, c)]
    BY StrcmpIs DEF Answer, there, c
  <2> QED
    BY <2>1, <2>2, <2>3
<1> HIDE DEF T, i, l
<1>8. diff.err = "ESNODIFF" <=> IsPrefix(s, d) \/ IsPrefix(d, s)
  BY <1>2, <1>4 DEF Answer
<1>9. ASSUME diff.err = "EOK"
      PROVE  /\ First(d, diff.value) = First(s, diff.value)
             /\ d[diff.value + 1] # s[diff.value + 1]
             /\ SignOf(there) = SignOf(d[diff.value + 1] - s[diff.value + 1])
             /\ lastdiff.value >= diff.value
             /\ \A j \in 1 .. c : j > lastdiff.value + 1 => d[j] = s[j]
  <2>1. T # {}
    BY <1>2, <1>9 DEF Answer
  <2>2. diff.value = i /\ lastdiff.value = l
    BY <1>2, <1>3, <2>1 DEF Answer
  <2>3. i \in 0 .. c - 1 /\ i \in Nat /\ d[i + 1] # s[i + 1] /\ l \in Nat /\ l >= i
    BY <1>5, <1>7, <2>1
  <2>4. i < Len(d) /\ i < Len(s) /\ i \in 0 .. Len(d) /\ i \in 0 .. Len(s)
    <3>1. i \in Nat /\ i < c
      BY <1>1, <2>3
    <3> QED
      BY <1>1, <3>1
  <2>5. First(d, i) = First(s, i)
    BY <1>1, <1>7, <2>1, <2>3, <2>4, SameBefore, SMTT(20) DEF DiffersAt
  <2>6. there = d[i + 1] - s[i + 1]
    BY <1>1, <1>7, <2>1, <2>4, CharacterAt
  <2>7. ASSUME NEW j \in 1 .. c, j > l + 1 PROVE d[j] = s[j]
    <3> DEFINE k == j - 1
    <3>1. k \in 0 .. c - 1 /\ k + 1 = j /\ ~(k <= l)
      BY <1>1, <2>3, <2>7
    <3> HIDE DEF k
    <3>2. k \notin T
      BY <1>7, <2>1, <3>1
    <3> QED
      BY <1>5, <3>1, <3>2
  <2> QED
    BY <2>2, <2>3, <2>5, <2>6, <2>7
<1> QED
  BY <1>6, <1>8, <1>9 DEF diff, lastdiff, there

\* strfirstsame.c, strlastsame.c: all the characters that agree are between them.
LEMMA AgreementsAgree ==
  ASSUME NEW m, NEW dest, NEW dmax, NEW src, NEW d, NEW s, ArePair(m, dest, dmax, src, d, s)
  PROVE  LET common == 1 .. IF Len(d) < Len(s) THEN Len(d) ELSE Len(s)
             same == safe_strfirstsame(m, dest, dmax, src, 0)
             lastsame == safe_strlastsame(m, dest, dmax, src, 0)
         IN /\ same.err = "ESNOTFND" <=> \A j \in common : d[j] # s[j]
            /\ same.err = "EOK" =>
                  \A j \in common : d[j] = s[j] => j - 1 \in same.value .. lastsame.value
<1> DEFINE T == Equal(d, s)
           c == Shorter(d, s)
           same == safe_strfirstsame(m, dest, dmax, src, 0)
           lastsame == safe_strlastsame(m, dest, dmax, src, 0)
           i == Min(T)
           l == Max(T)
<1>1. d \in Seq(Nat) /\ s \in Seq(Nat) /\ c \in Nat
  BY PairIs
<1>2. same = IF T = {} THEN Answer("ESNOTFND", 0) ELSE Answer("EOK", i)
  BY OffsetIs
<1>3. lastsame = IF T = {} THEN Answer("ESNOTFND", 0) ELSE Answer("EOK", l)
  BY OffsetIs
<1>4. T = {k \in 0 .. c - 1 : d[k + 1] = s[k + 1]}
  BY DEF Equal
<1>5. T # {} => i \in Nat /\ l \in Nat /\ \A k \in T : i <= k /\ k <= l
  BY <1>1, OffsetsBelow
<1>6. c = IF Len(d) < Len(s) THEN Len(d) ELSE Len(s)
  BY DEF Shorter
<1> HIDE DEF same, lastsame, c, T, i, l
<1>7. ASSUME NEW j \in 1 .. c, d[j] = s[j] PROVE j - 1 \in T
  <2> DEFINE k == j - 1
  <2>1. k \in 0 .. c - 1 /\ k + 1 = j
    BY <1>1
  <2> HIDE DEF k
  <2>2. k \in T
    BY <1>4, <1>7, <2>1
  <2> QED
    BY <2>2 DEF k
<1>8. ASSUME NEW k \in T PROVE k + 1 \in 1 .. c /\ d[k + 1] = s[k + 1]
  BY <1>1, <1>4
<1>9. T = {} <=> \A j \in 1 .. c : d[j] # s[j]
  BY <1>7, <1>8
<1>10. same.err = "ESNOTFND" <=> \A j \in 1 .. c : d[j] # s[j]
  BY <1>2, <1>9 DEF Answer
<1>11. ASSUME same.err = "EOK", NEW j \in 1 .. c, d[j] = s[j] PROVE j - 1 \in same.value .. lastsame.value
  <2>1. T # {} /\ same.value = i /\ lastsame.value = l
    BY <1>2, <1>3, <1>11 DEF Answer
  <2>2. j - 1 \in T /\ j - 1 \in Int
    BY <1>1, <1>7, <1>11
  <2>3. i <= j - 1 /\ j - 1 <= l
    BY <1>5, <2>1, <2>2
  <2> QED
    BY <1>5, <2>1, <2>2, <2>3
<1> QED
  BY <1>6, <1>10, <1>11 DEF same, lastsame

\* A memory with every small letter made a capital.
Capitals(m) == [a \in DOMAIN m |-> toupper(m[a])]

LEMMA RaisedIs ==
  ASSUME NEW m, NEW p, NEW d, IsWritten(m, p, d)
  PROVE  /\ IsWritten(Capitals(m), p, [i \in 1 .. Len(d) |-> toupper(d[i])])
         /\ \A j \in 0 .. Len(d) : p + j \in DOMAIN m /\ Capitals(m)[p + j] = toupper(m[p + j])
<1> DEFINE u == [i \in 1 .. Len(d) |-> toupper(d[i])]
           n == Len(d)
<1>1. d \in Seq(Nat) /\ n \in Nat /\ p \in Nat /\ p .. p + n \subseteq DOMAIN m
  BY DEF IsWritten
<1>2. ASSUME NEW j \in 0 .. n PROVE p + j \in DOMAIN m
  <2>1. p + j \in p .. p + n
    BY <1>1
  <2> QED
    BY <1>1, <2>1
<1>3. \A j \in 0 .. n : Capitals(m)[p + j] = toupper(m[p + j])
  BY <1>2 DEF Capitals
<1>4. ASSUME NEW i \in 1 .. n PROVE toupper(d[i]) \in Nat /\ toupper(d[i]) # 0
  <2> DEFINE j == i - 1
  <2>1. j \in 0 .. Len(d) - 1 /\ j + 1 = i
    BY <1>1
  <2> HIDE DEF j
  <2>2. d[i] # 0
    BY <2>1 DEF IsWritten
  <2>3. d[i] \in Nat
    BY <1>1
  <2> QED
    BY <2>2, <2>3, LetterIs
<1>5. u \in Seq(Nat) /\ Len(u) = n /\ \A i \in 1 .. n : u[i] = toupper(d[i]) /\ u[i] # 0
  BY <1>1, <1>4
<1> HIDE DEF u
<1>6. ASSUME NEW j \in 0 .. n - 1 PROVE Capitals(m)[p + j] = u[j + 1] /\ u[j + 1] # 0
  <2>1. j \in 0 .. n /\ j + 1 \in 1 .. n
    BY <1>1
  <2>2. m[p + j] = d[j + 1]
    BY DEF IsWritten
  <2> QED
    BY <1>3, <1>5, <2>1, <2>2
<1>7. Capitals(m)[p + n] = 0
  <2>1. n \in 0 .. n /\ m[p + n] = 0 /\ toupper(0) = 0
    BY <1>1 DEF IsWritten, toupper, Lower
  <2> QED
    BY <1>3, <2>1
<1>8. DOMAIN Capitals(m) = DOMAIN m
  BY DEF Capitals
<1>9. IsWritten(Capitals(m), p, u)
  BY <1>1, <1>5, <1>6, <1>7, <1>8 DEF IsWritten
<1> QED
  BY <1>2, <1>3, <1>9 DEF u

\* strcasecmp.c: strcmp of the capitals.
LEMMA StrcasecmpAgrees ==
  ASSUME NEW m, NEW dest, NEW dmax, NEW src, NEW d, NEW s, ArePair(m, dest, dmax, src, d, s)
  PROVE  safe_strcasecmp(m, dest, dmax, src, 0) = safe_strcmp(Capitals(m), dest, dmax, src, 0)
<1> DEFINE c == Shorter(d, s)
           up == Capitals(m)
           ud == [i \in 1 .. Len(d) |-> toupper(d[i])]
           us == [i \in 1 .. Len(s) |-> toupper(s[i])]
           D == {k \in 0 .. c - 1 : toupper(m[dest + k]) # toupper(m[src + k])}
           E == {k \in 0 .. c - 1 : up[dest + k] # up[src + k]}
<1>1. /\ d \in Seq(Nat) /\ s \in Seq(Nat) /\ IsWritten(m, dest, d) /\ IsWritten(m, src, s)
      /\ Len(d) \in Nat /\ Len(s) \in Nat /\ dmax \in Nat /\ Len(d) < dmax /\ Len(s) < dmax
  BY PairIs
<1>2. c \in Nat /\ c <= Len(d) /\ c <= Len(s)
  BY PairIs
<1>3. Len(ud) = Len(d) /\ Len(us) = Len(s)
  BY <1>1
<1>4. IsWritten(up, dest, ud) /\ \A j \in 0 .. Len(d) : up[dest + j] = toupper(m[dest + j])
  BY <1>1, RaisedIs
<1>5. IsWritten(up, src, us) /\ \A j \in 0 .. Len(s) : up[src + j] = toupper(m[src + j])
  BY <1>1, RaisedIs
<1>6. Shorter(ud, us) = c
  BY <1>3 DEF Shorter
<1> HIDE DEF up, ud, us, c
<1>7. Both(m, dest, src, dmax) = c
  BY DiffsAre DEF c
<1>8. Both(up, dest, src, dmax) = c
  BY <1>1, <1>3, <1>4, <1>5, <1>6, BothIs
<1>9. \A k \in 0 .. c : k \in 0 .. Len(d) /\ k \in 0 .. Len(s)
  BY <1>1, <1>2
<1>10. \A k \in 0 .. c : up[dest + k] = toupper(m[dest + k]) /\ up[src + k] = toupper(m[src + k])
  BY <1>4, <1>5, <1>9
<1>11. D = E
  <2>1. \A k \in 0 .. c - 1 : k \in 0 .. c
    BY <1>2
  <2> QED
    BY <1>10, <2>1
<1>12. D \subseteq 0 .. c - 1
  OBVIOUS
<1>13. PairError(0, dest, src, dmax) = "EOK"
  BY PairIsUsable, PairIs DEF ArePair
<1>14. safe_strcasecmp(m, dest, dmax, src, 0)
         = LET i == FirstOf(D, c) IN Answer("EOK", toupper(m[dest + i]) - toupper(m[src + i]))
  BY <1>7, <1>13 DEF safe_strcasecmp, FirstDifference
<1>15. safe_strcmp(up, dest, dmax, src, 0)
         = LET i == FirstOf(E, c) IN Answer("EOK", up[dest + i] - up[src + i])
  BY <1>8, <1>13 DEF safe_strcmp, FirstDifference, Same
<1> HIDE DEF D, E
<1>16. FirstOf(D, c) \in 0 .. c
  BY <1>2, <1>12, FirstOfIs
<1> QED
  BY <1>10, <1>11, <1>14, <1>15, <1>16 DEF up

\* strcmpfld.c: fields that compare equal are equal.
LEMMA StrcmpfldAgrees ==
  ASSUME NEW m, NEW dest, NEW dmax, NEW src, NEW d, NEW s, ArePair(m, dest, dmax, src, d, s),
         \A a \in DOMAIN m : m[a] \in Nat, Within(m, src, dmax),
         safe_strcmpfld(m, dest, dmax, src, 0).value = 0
  PROVE  \A k \in 0 .. dmax - 1 : m[dest + k] = m[src + k]
<1> DEFINE T == {k \in 0 .. dmax - 1 : m[dest + k] # m[src + k]}
           i == FirstOf(T, dmax)
           x == m[dest + i]
           y == m[src + i]
<1>1. dmax \in Nat /\ dest \in Nat /\ src \in Nat /\ Within(m, dest, dmax)
  BY PairIs DEF ArePair, IsPlace
<1>2. PairError(0, dest, src, dmax) = "EOK"
  BY PairIsUsable, PairIs DEF ArePair
<1>3. safe_strcmpfld(m, dest, dmax, src, 0) = Answer("EOK", x - y)
  BY <1>2 DEF safe_strcmpfld, FirstDifference, Same
<1>4. T \subseteq 0 .. dmax - 1
  OBVIOUS
<1>5. \A k \in T : m[dest + k] # m[src + k]
  OBVIOUS
<1>6. T = {} => \A k \in 0 .. dmax - 1 : m[dest + k] = m[src + k]
  OBVIOUS
<1> HIDE DEF T
<1>7. IsFirst(T, dmax, i)
  BY <1>1, <1>4, FirstOfIs
<1> HIDE DEF i
<1>8. SUFFICES ASSUME T # {} PROVE FALSE
  BY <1>6
<1>9. i \in 0 .. dmax - 1 /\ x # y
  BY <1>4, <1>5, <1>7, <1>8 DEF IsFirst
<1>10. x \in Nat /\ y \in Nat
  <2>1. dest + i \in dest .. dest + dmax - 1 /\ src + i \in src .. src + dmax - 1
    BY <1>1, <1>9
  <2> QED
    BY <1>1, <2>1 DEF Within
<1>11. x - y = 0
  BY <1>3 DEF Answer
<1> HIDE DEF x, y
<1> QED
  BY <1>9, <1>10, <1>11

\* What the comparisons of two strings say, in every memory and with every room that holds
\* both: they agree with each other, both ways round, and with the strings.
THEOREM ComparisonsAgree ==
  ASSUME NEW m, NEW dest, NEW dmax, NEW src, NEW d, NEW s, ArePair(m, dest, dmax, src, d, s),
         \A a \in DOMAIN m : m[a] \in Nat
  PROVE  Comparisons(m, dest, dmax, src, d, s)
<1>1. src .. src + dmax \subseteq DOMAIN m => Within(m, src, dmax)
  <2>1. src \in Nat /\ dmax \in Nat
    BY PairIs
  <2>2. src .. src + dmax - 1 \subseteq src .. src + dmax
    BY <2>1
  <2> QED
    BY <2>1, <2>2 DEF Within
<1>2. [a \in DOMAIN m |-> toupper(m[a])] = Capitals(m)
  BY DEF Capitals
<1>3. ASSUME src .. src + dmax \subseteq DOMAIN m, safe_strcmpfld(m, dest, dmax, src, 0).value = 0
      PROVE  \A k \in 0 .. dmax - 1 : m[dest + k] = m[src + k]
  BY <1>1, <1>3, StrcmpfldAgrees
<1> QED
  BY <1>2, <1>3, StrcmpAgrees, StrcasecmpAgrees, StrprefixAgrees, DifferencesAgree, AgreementsAgree
     DEF Comparisons
-----------------------------------------------------------------------------
(* Searching, and what a string is made of *)

LEMMA ToSetIs ==
  ASSUME NEW d \in Seq(Nat)
  PROVE  /\ ToSet(d) = {d[k + 1] : k \in 0 .. Len(d) - 1}
         /\ ToSet(d) = {d[i] : i \in 1 .. Len(d)}
<1>1. ToSet(d) = {d[i] : i \in 1 .. Len(d)}
  BY DEF ToSet
<1>2. ASSUME NEW i \in 1 .. Len(d) PROVE \E k \in 0 .. Len(d) - 1 : d[i] = d[k + 1]
  <2> DEFINE k == i - 1
  <2>1. k \in 0 .. Len(d) - 1 /\ k + 1 = i
    OBVIOUS
  <2> HIDE DEF k
  <2> QED
    BY <2>1
<1>3. \A k \in 0 .. Len(d) - 1 : k + 1 \in 1 .. Len(d)
  OBVIOUS
<1> QED
  BY <1>1, <1>2, <1>3

\* What of s a search with slen characters looks for, and where it looks.
IsSearch(m, dest, dmax, src, slen, d, s) ==
  /\ IsPlace(m, dest, dmax, d) /\ Len(d) < dmax
  /\ IsString(m, src, s) /\ slen \in Nat /\ slen > 0 /\ slen <= MaxStr

LEMMA SearchIs ==
  ASSUME NEW m, NEW dest, NEW dmax, NEW src, NEW slen, NEW d, NEW s,
         IsSearch(m, dest, dmax, src, slen, d, s)
  PROVE  /\ dest \in Nat /\ src \in Nat /\ dmax \in Nat /\ slen \in Nat /\ slen > 0 /\ Len(d) < dmax
         /\ d \in Seq(Nat) /\ s \in Seq(Nat) /\ Len(d) \in Nat /\ Len(s) \in Nat
         /\ IsWritten(m, dest, d) /\ IsWritten(m, src, s)
         /\ First(s, slen) \in Seq(Nat) /\ Len(First(s, slen)) \in Nat
         /\ Len(First(s, slen)) <= Len(s)
         /\ \A j \in 0 .. Len(First(s, slen)) - 1 : First(s, slen)[j + 1] = s[j + 1]
         /\ Length(m, dest, dmax) = Len(d) /\ Length(m, src, slen) = Len(First(s, slen))
         /\ SearchError(0, dest, dmax, src, slen) = "EOK" /\ SpanError(0, dest, src, dmax, slen) = "EOK"
<1> DEFINE f == First(s, slen)
<1>1. /\ dest \in Nat /\ dmax \in Nat /\ dmax > 0 /\ IsWritten(m, dest, d) /\ d \in Seq(Nat) /\ Len(d) \in Nat
  BY PlaceIs DEF IsSearch
<1>2. IsWritten(m, src, s) /\ src \in Nat /\ s \in Seq(Nat) /\ Len(s) \in Nat
  BY StringIsWritten DEF IsSearch, IsString
<1>3. Len(d) < dmax /\ slen \in Nat /\ slen > 0 /\ slen <= MaxStr /\ dmax <= MaxStr
  BY DEF IsSearch, IsPlace
<1>4. f \in Seq(Nat) /\ Len(f) = IF Len(s) < slen THEN Len(s) ELSE slen
  BY <1>2, <1>3, FirstIs
<1>5. \A i \in 1 .. Len(f) : f[i] = s[i]
  BY <1>2, <1>3, FirstIs
<1>6. Length(m, dest, dmax) = Len(d)
  <2> DEFINE l == Length(m, dest, dmax)
  <2>1. l = IF Len(d) < dmax THEN Len(d) ELSE dmax
    BY <1>1, WrittenLength
  <2> HIDE DEF l
  <2>2. l = Len(d)
    BY <1>3, <2>1
  <2> QED
    BY <2>2 DEF l
<1>7. Length(m, src, slen) = IF Len(s) < slen THEN Len(s) ELSE slen
  BY <1>2, <1>3, WrittenLength
<1> HIDE DEF f
<1>8. Len(f) \in Nat /\ Len(f) <= Len(s) /\ Length(m, src, slen) = Len(f)
  BY <1>2, <1>3, <1>4, <1>7
<1>9. ASSUME NEW j \in 0 .. Len(f) - 1 PROVE f[j + 1] = s[j + 1]
  <2>1. j + 1 \in 1 .. Len(f)
    BY <1>8
  <2> QED
    BY <1>5, <2>1
<1>10. /\ 0 # Null /\ dest # Null /\ src # Null /\ dmax # 0 /\ slen # 0
       /\ ~(dmax > MaxStr) /\ ~(slen > MaxStr)
  BY <1>1, <1>2, <1>3, StringAssumption DEF Null
<1>11. SearchError(0, dest, dmax, src, slen) = "EOK"
  <2> DEFINE checks == <<Check(0 = Null \/ dest = Null, "ESNULLP"), Check(dmax = 0, "ESZEROL"),
                         Check(dmax > MaxStr, "ESLEMAX"), Check(src = Null, "ESNULLP"),
                         Check(slen = 0, "ESZEROL"), Check(slen > MaxStr, "ESLEMAX")>>
  <2>1. checks = <<"EOK", "EOK", "EOK", "EOK", "EOK", "EOK">>
    BY <1>10 DEF Check
  <2>2. \A j \in 1 .. Len(<<"EOK", "EOK", "EOK", "EOK", "EOK", "EOK">>) :
           <<"EOK", "EOK", "EOK", "EOK", "EOK", "EOK">>[j] = "EOK"
    OBVIOUS
  <2>3. SearchError(0, dest, dmax, src, slen) = FirstError(checks)
    BY DEF SearchError
  <2> HIDE DEF checks
  <2> QED
    BY <2>1, <2>2, <2>3, NoCheck
<1>12. PairError(0, dest, src, dmax) = "EOK"
  BY <1>2, PairIsUsable DEF IsSearch
<1>13. SpanError(0, dest, src, dmax, slen) = "EOK"
  BY <1>10, <1>12, FirstOfThree DEF SpanError, Check
<1> QED
  BY <1>1, <1>2, <1>3, <1>4, <1>6, <1>8, <1>9, <1>11, <1>13 DEF f

\* strspn.c:119-125, strcspn.c:119-125: the characters that are looked for.
LEMMA CharsAre ==
  ASSUME NEW m, NEW p, NEW d, IsWritten(m, p, d), NEW n \in Nat
  PROVE  Chars(m, p, n) = ToSet(First(d, n))
<1> DEFINE f == First(d, n)
           l == Length(m, p, n)
<1>1. d \in Seq(Nat) /\ Len(d) \in Nat
  BY DEF IsWritten
<1>2. f \in Seq(Nat) /\ Len(f) = l
  BY <1>1, FirstIs, WrittenLength
<1>3. \A i \in 1 .. Len(f) : f[i] = d[i]
  BY <1>1, FirstIs
<1>4. l = IF Len(d) < n THEN Len(d) ELSE n
  BY WrittenLength
<1>5. Chars(m, p, n) = {m[p + k] : k \in 0 .. l - 1}
  BY DEF Chars
<1>6. ToSet(f) = {f[k + 1] : k \in 0 .. Len(f) - 1}
  BY <1>2, ToSetIs
<1> HIDE DEF f, l
<1>7. ASSUME NEW k \in 0 .. l - 1 PROVE m[p + k] = f[k + 1]
  <2>1. k \in 0 .. Len(d) - 1 /\ k + 1 \in 1 .. Len(f)
    BY <1>1, <1>2, <1>4
  <2> QED
    BY <1>3, <2>1 DEF IsWritten
<1> QED
  BY <1>2, <1>5, <1>6, <1>7 DEF f

\* f is in d behind the first i characters.
OccursAt(f, d, i) ==
  i + Len(f) <= Len(d) /\ \A j \in 0 .. Len(f) - 1 : d[i + 1 + j] = f[j + 1]

LEMMA OccurrencesAre ==
  ASSUME NEW d \in Seq(Nat), NEW f \in Seq(Nat), Len(f) > 0
  PROVE  Occurrences(f, d) = {i \in 0 .. Len(d) - 1 : OccursAt(f, d, i)}
<1> DEFINE n == Len(d)
           l == Len(f)
<1>1. n \in Nat /\ l \in Nat /\ l > 0
  OBVIOUS
<1>2. ASSUME NEW i \in 0 .. n - l
      PROVE  i \in 0 .. n - 1 /\ (SubSeq(d, i + 1, i + l) = f <=> OccursAt(f, d, i))
  <2> DEFINE first == i + 1
             last == i + l
             t == SubSeq(d, first, last)
  <2>1. /\ i \in Nat /\ first \in 1 .. n /\ last \in first .. n /\ last - first + 1 = l
        /\ last - first = l - 1 /\ i \in 0 .. n - 1 /\ i + l <= n
    BY <1>1
  <2>2. t \in Seq(Nat) /\ Len(t) = l /\ \A j \in 0 .. l - 1 : t[j + 1] = d[i + 1 + j]
    <3> HIDE DEF last
    <3> QED
      BY <2>1, SubIs
  <2> HIDE DEF t
  <2>3. ASSUME t = f PROVE OccursAt(f, d, i)
    BY <2>1, <2>2, <2>3 DEF OccursAt
  <2>4. ASSUME OccursAt(f, d, i) PROVE t = f
    <3>1. \A j \in 0 .. l - 1 : t[j + 1] = f[j + 1]
      BY <2>2, <2>4 DEF OccursAt
    <3> QED
      BY <2>2, <3>1, SameElements
  <2> QED
    BY <2>1, <2>3, <2>4 DEF t
<1>3. ASSUME NEW i \in 0 .. n - 1, OccursAt(f, d, i) PROVE i \in 0 .. n - l
  BY <1>1, <1>3 DEF OccursAt
<1> QED
  BY <1>2, <1>3 DEF Occurrences

\* strstr.c:148-168: the inner loop finds f there.
LEMMA BeginsIs ==
  ASSUME NEW m, NEW dest, NEW dmax, NEW src, NEW slen, NEW d, NEW s,
         IsSearch(m, dest, dmax, src, slen, d, s), m[src] # 0, NEW k \in 0 .. Len(d) - 1
  PROVE  Begins(Same, m, dest + k, dmax - k, src, slen) <=> OccursAt(First(s, slen), d, k)
<1> DEFINE f == First(s, slen)
           n == Len(d)
           l == Len(f)
<1>1. /\ dest \in Nat /\ src \in Nat /\ dmax \in Nat /\ n < dmax /\ n \in Nat /\ l \in Nat /\ l <= Len(s)
      /\ Len(s) \in Nat /\ IsWritten(m, dest, d) /\ IsWritten(m, src, s) /\ Length(m, src, slen) = l
      /\ k \in Nat /\ k < n
  BY SearchIs
<1>2. \A j \in 0 .. l - 1 : f[j + 1] = s[j + 1]
  BY SearchIs
<1>3. Begins(Same, m, dest + k, dmax - k, src, slen)
        <=> l <= dmax - k /\ \A j \in 0 .. l - 1 : m[dest + k + j] = m[src + j]
  BY <1>1 DEF Begins, Same
<1> HIDE DEF f, n, l
<1>4. ASSUME NEW j \in 0 .. l - 1 PROVE m[src + j] = f[j + 1] /\ m[src + j] # 0 /\ dest + k + j = dest + (k + j)
  <2>1. j \in 0 .. Len(s) - 1
    BY <1>1
  <2>2. m[src + j] = s[j + 1] /\ s[j + 1] # 0
    BY <1>1, <2>1 DEF IsWritten
  <2> QED
    BY <1>1, <1>2, <2>2
<1>5. ASSUME NEW j \in 0 .. l - 1, k + j < n PROVE m[dest + (k + j)] = d[k + 1 + j]
  <2> DEFINE i == k + j
  <2>1. i \in 0 .. Len(d) - 1 /\ i + 1 = k + 1 + j
    BY <1>1, <1>5 DEF n
  <2> HIDE DEF i
  <2>2. m[dest + i] = d[i + 1]
    BY <1>1, <2>1 DEF IsWritten
  <2> QED
    BY <2>1, <2>2 DEF i
<1>6. ASSUME \A j \in 0 .. l - 1 : m[dest + k + j] = m[src + j]
      PROVE  k + l <= n
  <2> DEFINE j == n - k
  <2>1. j \in Nat /\ k + j = n
    BY <1>1
  <2>2. m[dest + n] = 0
    BY <1>1 DEF IsWritten, n
  <2>3. ASSUME j \in 0 .. l - 1 PROVE FALSE
    <3> HIDE DEF j
    <3>1. m[dest + k + j] = m[src + j] /\ m[src + j] # 0 /\ dest + k + j = dest + (k + j)
      BY <1>4, <1>6, <2>3
    <3> QED
      BY <2>1, <2>2, <3>1
  <2> HIDE DEF j
  <2>4. ~(j < l)
    BY <1>1, <2>1, <2>3
  <2> QED
    BY <1>1, <2>1, <2>4
<1>7. ASSUME k + l <= n, NEW j \in 0 .. l - 1 PROVE m[dest + k + j] = d[k + 1 + j]
  <2>1. k + j < n
    BY <1>1, <1>7
  <2> QED
    BY <1>4, <1>5, <2>1
<1>8. OccursAt(f, d, k) <=> k + l <= n /\ \A j \in 0 .. l - 1 : d[k + 1 + j] = f[j + 1]
  BY DEF OccursAt, n, l
<1>9. k + l <= n => l <= dmax - k
  BY <1>1
<1>10. ASSUME OccursAt(f, d, k) PROVE l <= dmax - k /\ \A j \in 0 .. l - 1 : m[dest + k + j] = m[src + j]
  BY <1>4, <1>7, <1>8, <1>9, <1>10
<1>11. ASSUME \A j \in 0 .. l - 1 : m[dest + k + j] = m[src + j] PROVE OccursAt(f, d, k)
  <2>1. k + l <= n
    BY <1>6, <1>11
  <2>2. \A j \in 0 .. l - 1 : d[k + 1 + j] = f[j + 1]
    BY <1>4, <1>7, <1>11, <2>1
  <2> QED
    BY <1>8, <2>1, <2>2
<1> QED
  BY <1>3, <1>10, <1>11 DEF f

\* A search for nothing finds it at once.
LEMMA NothingOccurs ==
  ASSUME NEW d \in Seq(Nat), NEW f \in Seq(Nat), Len(f) = 0
  PROVE  Occurrences(f, d) # {} /\ Min(Occurrences(f, d)) = 0
<1> DEFINE T == Occurrences(f, d)
<1>1. T \subseteq Nat /\ 0 \in T
  <2>1. SubSeq(d, 0 + 1, 0 + Len(f)) = f
    OBVIOUS
  <2>2. 0 \in 0 .. Len(d) - Len(f)
    OBVIOUS
  <2> QED
    BY <2>1, <2>2 DEF Occurrences
<1> HIDE DEF T
<1>2. Min(T) \in T /\ \A j \in T : Min(T) <= j
  BY <1>1, MinIs
<1>3. Min(T) \in Nat /\ Min(T) <= 0
  BY <1>1, <1>2
<1>4. Min(T) = 0
  BY <1>3
<1> QED
  BY <1>1, <1>4 DEF T

\* strstr.c
LEMMA StrstrAgrees ==
  ASSUME NEW m, NEW dest, NEW dmax, NEW src, NEW slen, NEW d, NEW s,
         IsSearch(m, dest, dmax, src, slen, d, s), dest # src
  PROVE  Least(Occurrences(First(s, slen), d), safe_strstr(m, dest, dmax, src, slen, 0), dest)
<1> DEFINE f == First(s, slen)
           T == {k \in 0 .. Len(d) - 1 : Begins(Same, m, dest + k, dmax - k, src, slen)}
           found == safe_strstr(m, dest, dmax, src, slen, 0)
<1>1. /\ d \in Seq(Nat) /\ s \in Seq(Nat) /\ f \in Seq(Nat) /\ Len(f) \in Nat /\ Len(s) \in Nat /\ src \in Nat
      /\ Length(m, dest, dmax) = Len(d) /\ SearchError(0, dest, dmax, src, slen) = "EOK"
      /\ slen \in Nat /\ slen > 0 /\ IsWritten(m, src, s) /\ dest \in Nat
  BY SearchIs
<1>2. Len(f) = IF Len(s) < slen THEN Len(s) ELSE slen
  BY <1>1, FirstIs
<1>3. m[src] = 0 <=> Len(f) = 0
  <2>1. 0 \in 0 .. Len(s) /\ src + 0 = src
    BY <1>1
  <2>2. m[src + 0] = 0 <=> 0 = Len(s)
    BY <1>1, <2>1, CharacterAt
  <2>3. m[src] = 0 <=> Len(s) = 0
    BY <2>1, <2>2
  <2> HIDE DEF f
  <2>4. Len(f) = 0 <=> Len(s) = 0
    BY <1>1, <1>2
  <2> QED
    BY <2>3, <2>4
<1>4. found = IF m[src] = 0 \/ dest = src THEN Answer("EOK", dest)
              ELSE IF T = {} THEN Answer("ESNOTFND", Null) ELSE Answer("EOK", dest + Min(T))
  BY <1>1 DEF safe_strstr, Substring
<1>5. CASE m[src] = 0
  <2>1. Occurrences(f, d) # {} /\ Min(Occurrences(f, d)) = 0
    BY <1>1, <1>3, <1>5, NothingOccurs
  <2>2. found.err = "EOK" /\ found.value = dest
    BY <1>4, <1>5 DEF Answer
  <2> HIDE DEF f, found
  <2>3. Least(Occurrences(f, d), found, dest)
    BY <1>1, <2>1, <2>2 DEF Least
  <2> QED
    BY <2>3 DEF f, found
<1>6. CASE m[src] # 0
  <2>1. Len(f) > 0
    <3> HIDE DEF f
    <3> QED
      BY <1>1, <1>3, <1>6
  <2>2. Occurrences(f, d) = {k \in 0 .. Len(d) - 1 : OccursAt(f, d, k)}
    BY <1>1, <2>1, OccurrencesAre
  <2>3. T = {k \in 0 .. Len(d) - 1 : OccursAt(f, d, k)}
    BY <1>6, BeginsIs
  <2>4. T = Occurrences(f, d)
    BY <2>2, <2>3
  <2> HIDE DEF f, T
  <2>5. IF T = {} THEN found.err = "ESNOTFND" ELSE found.err = "EOK" /\ found.value = dest + Min(T)
    BY <1>4, <1>6 DEF Answer
  <2> HIDE DEF found
  <2>6. Least(T, found, dest)
    BY <2>5 DEF Least
  <2> QED
    BY <2>4, <2>6 DEF f, found
<1> QED
  BY <1>5, <1>6

\* strcasestr.c: strstr of the capitals.
LEMMA StrcasestrAgrees ==
  ASSUME NEW m, NEW dest, NEW dmax, NEW src, NEW slen, NEW d, NEW s,
         IsSearch(m, dest, dmax, src, slen, d, s)
  PROVE  safe_strcasestr(m, dest, dmax, src, slen, 0) = safe_strstr(Capitals(m), dest, dmax, src, slen, 0)
<1> DEFINE up == Capitals(m)
           n == Len(d)
           l == Length(m, src, slen)
           ud == [i \in 1 .. Len(d) |-> toupper(d[i])]
           us == [i \in 1 .. Len(s) |-> toupper(s[i])]
           T == {k \in 0 .. n - 1 : Begins(toupper, m, dest + k, dmax - k, src, slen)}
           U == {k \in 0 .. n - 1 : Begins(Same, up, dest + k, dmax - k, src, slen)}
<1>1. /\ dest \in Nat /\ src \in Nat /\ dmax \in Nat /\ n < dmax /\ n \in Nat /\ l <= Len(s) /\ l \in Nat
      /\ Len(s) \in Nat /\ IsWritten(m, dest, d) /\ IsWritten(m, src, s) /\ slen \in Nat
      /\ Length(m, dest, dmax) = n /\ SearchError(0, dest, dmax, src, slen) = "EOK"
  <2>1. l = Len(First(s, slen))
    BY SearchIs
  <2> HIDE DEF l
  <2> QED
    BY <2>1, SearchIs
<1>2. Within(m, dest, dmax)
  BY DEF IsSearch, IsPlace
<1>3. d \in Seq(Nat) /\ s \in Seq(Nat)
  BY SearchIs
<1>4. Len(ud) = n /\ Len(us) = Len(s)
  BY <1>3
<1>5. IsWritten(up, dest, ud)
  BY <1>1, RaisedIs
<1>6. IsWritten(up, src, us) /\ \A j \in 0 .. Len(s) : src + j \in DOMAIN m /\ up[src + j] = toupper(m[src + j])
  BY <1>1, RaisedIs
<1>7. \A a \in DOMAIN m : up[a] = toupper(m[a])
  BY DEF Capitals
<1> HIDE DEF ud, us, up
<1>8. Length(up, dest, dmax) = n
  <2> DEFINE x == Length(up, dest, dmax)
  <2>1. x = IF Len(ud) < dmax THEN Len(ud) ELSE dmax
    BY <1>1, <1>5, WrittenLength
  <2> HIDE DEF x
  <2>2. x = n
    BY <1>1, <1>4, <2>1
  <2> QED
    BY <2>2 DEF x
<1>9. Length(up, src, slen) = l
  <2>1. l = IF Len(s) < slen THEN Len(s) ELSE slen
    BY <1>1, WrittenLength
  <2>2. Length(up, src, slen) = IF Len(us) < slen THEN Len(us) ELSE slen
    BY <1>1, <1>6, WrittenLength
  <2> QED
    BY <1>4, <2>1, <2>2
<1>10. m[src] = 0 <=> up[src] = 0
  <2>1. 0 \in 0 .. Len(s) /\ src + 0 = src
    BY <1>1
  <2>2. m[src + 0] \in Nat /\ up[src + 0] = toupper(m[src + 0])
    BY <1>1, <1>6, <2>1, CharacterAt
  <2>3. m[src] \in Nat /\ up[src] = toupper(m[src])
    BY <2>1, <2>2
  <2> QED
    BY <2>3 DEF toupper, Lower
<1> HIDE DEF n, l
<1>11. ASSUME NEW k \in 0 .. n - 1
       PROVE  Begins(toupper, m, dest + k, dmax - k, src, slen) <=> Begins(Same, up, dest + k, dmax - k, src, slen)
  <2>1. Begins(toupper, m, dest + k, dmax - k, src, slen)
          <=> /\ m[src] # 0 /\ l <= dmax - k
              /\ \A j \in 0 .. l - 1 : toupper(m[dest + k + j]) = toupper(m[src + j])
    BY DEF Begins, l
  <2>2. Begins(Same, up, dest + k, dmax - k, src, slen)
          <=> /\ up[src] # 0 /\ l <= dmax - k
              /\ \A j \in 0 .. l - 1 : up[dest + k + j] = up[src + j]
    BY <1>9 DEF Begins, Same
  <2>3. ASSUME l <= dmax - k, NEW j \in 0 .. l - 1
        PROVE  up[dest + k + j] = toupper(m[dest + k + j]) /\ up[src + j] = toupper(m[src + j])
    <3>1. dest + k + j \in dest .. dest + dmax - 1 /\ j \in 0 .. Len(s)
      BY <1>1, <2>3
    <3>2. dest + k + j \in DOMAIN m
      BY <1>2, <3>1 DEF Within
    <3> QED
      BY <1>6, <1>7, <3>1, <3>2
  <2> QED
    BY <1>10, <2>1, <2>2, <2>3
<1>12. T = U
  BY <1>11
<1>13. safe_strcasestr(m, dest, dmax, src, slen, 0)
         = IF m[src] = 0 \/ dest = src THEN Answer("EOK", dest)
           ELSE IF T = {} THEN Answer("ESNOTFND", Null) ELSE Answer("EOK", dest + Min(T))
  BY <1>1 DEF safe_strcasestr, Substring
<1>14. safe_strstr(up, dest, dmax, src, slen, 0)
         = IF up[src] = 0 \/ dest = src THEN Answer("EOK", dest)
           ELSE IF U = {} THEN Answer("ESNOTFND", Null) ELSE Answer("EOK", dest + Min(U))
  BY <1>1, <1>8 DEF safe_strstr, Substring
<1> HIDE DEF T, U
<1> QED
  BY <1>10, <1>12, <1>13, <1>14 DEF up

\* What lies before the first of some offsets, and what lies there.
LEMMA SpanIs ==
  ASSUME NEW d \in Seq(Nat), NEW T, T \subseteq 0 .. Len(d) - 1
  PROVE  LET i == FirstOf(T, Len(d))
         IN /\ i \in 0 .. Len(d) /\ (i < Len(d) => i \in T)
            /\ \A x \in ToSet(First(d, i)) : \E k \in 0 .. Len(d) - 1 : k \notin T /\ x = d[k + 1]
<1> DEFINE n == Len(d)
           i == FirstOf(T, n)
           t == First(d, i)
<1>1. n \in Nat
  OBVIOUS
<1>2. IsFirst(T, n, i) /\ i \in 0 .. n
  BY <1>1, FirstOfIs
<1> HIDE DEF n, i
<1>3. i < n => i \in T
  BY <1>1, <1>2 DEF IsFirst
<1>4. i \in Nat /\ i <= n
  BY <1>1, <1>2
<1>5. t \in Seq(Nat) /\ Len(t) = IF n < i THEN n ELSE i
  BY <1>4, FirstIs DEF n
<1>6. \A j \in 1 .. Len(t) : t[j] = d[j]
  BY <1>4, FirstIs
<1>7. ToSet(t) = {t[k + 1] : k \in 0 .. Len(t) - 1}
  BY <1>5, ToSetIs
<1> HIDE DEF t
<1>8. Len(t) = i
  BY <1>1, <1>4, <1>5
<1>9. ASSUME NEW k \in 0 .. i - 1 PROVE k \in 0 .. n - 1 /\ k \notin T /\ t[k + 1] = d[k + 1]
  <2>1. k \in 0 .. n - 1 /\ k + 1 \in 1 .. Len(t)
    BY <1>1, <1>4, <1>8
  <2>2. k \notin T
    BY <1>2, <1>4, <2>1 DEF IsFirst
  <2> QED
    BY <1>6, <2>1, <2>2
<1>10. ASSUME NEW x \in ToSet(t) PROVE \E k \in 0 .. n - 1 : k \notin T /\ x = d[k + 1]
  <2>1. PICK k \in 0 .. i - 1 : x = t[k + 1]
    BY <1>7, <1>8, <1>10
  <2> QED
    BY <1>9, <2>1
<1> QED
  BY <1>2, <1>3, <1>10 DEF n, i, t

\* strspn.c, strcspn.c: all of d before is among the characters of f, or none of it, and
\* what follows is not, or is.
LEMMA SpansAgree ==
  ASSUME NEW m, NEW dest, NEW dmax, NEW src, NEW slen, NEW d, NEW s,
         IsSearch(m, dest, dmax, src, slen, d, s)
  PROVE  LET f == First(s, slen)
             spn == safe_strspn(m, dest, dmax, src, slen, 0).value
             cspn == safe_strcspn(m, dest, dmax, src, slen, 0).value
         IN /\ ToSet(First(d, spn)) \subseteq ToSet(f) /\ ToSet(First(d, cspn)) \cap ToSet(f) = {}
            /\ spn < Len(d) => d[spn + 1] \notin ToSet(f)
            /\ cspn < Len(d) => d[cspn + 1] \in ToSet(f)
<1> DEFINE n == Len(d)
           C == ToSet(First(s, slen))
           spn == safe_strspn(m, dest, dmax, src, slen, 0).value
           cspn == safe_strcspn(m, dest, dmax, src, slen, 0).value
           T == {k \in 0 .. n - 1 : m[dest + k] \notin C}
           U == {k \in 0 .. n - 1 : m[dest + k] \in C}
<1>1. /\ d \in Seq(Nat) /\ IsWritten(m, dest, d) /\ IsWritten(m, src, s) /\ slen \in Nat
      /\ Length(m, dest, dmax) = n /\ SpanError(0, dest, src, dmax, slen) = "EOK"
  BY SearchIs
<1>2. Chars(m, src, slen) = C
  BY <1>1, CharsAre
<1>3. spn = FirstOf(T, n)
  BY <1>1, <1>2 DEF safe_strspn, Span, Answer
<1>4. cspn = FirstOf(U, n)
  BY <1>1, <1>2 DEF safe_strcspn, Span, Answer
<1>5. \A k \in 0 .. n - 1 : m[dest + k] = d[k + 1]
  BY <1>1 DEF IsWritten
<1> HIDE DEF C, spn, cspn
<1>6. T = {k \in 0 .. n - 1 : d[k + 1] \notin C} /\ U = {k \in 0 .. n - 1 : d[k + 1] \in C}
  BY <1>5
<1> HIDE DEF T, U
<1>7. T \subseteq 0 .. n - 1 /\ U \subseteq 0 .. n - 1
  BY <1>6
<1>8. /\ spn < n => spn \in T
      /\ \A x \in ToSet(First(d, spn)) : \E k \in 0 .. n - 1 : k \notin T /\ x = d[k + 1]
  BY <1>1, <1>3, <1>7, SpanIs
<1>9. /\ cspn < n => cspn \in U
      /\ \A x \in ToSet(First(d, cspn)) : \E k \in 0 .. n - 1 : k \notin U /\ x = d[k + 1]
  BY <1>1, <1>4, <1>7, SpanIs
<1> HIDE DEF n
<1>10. ToSet(First(d, spn)) \subseteq C /\ (spn < n => d[spn + 1] \notin C)
  BY <1>6, <1>8
<1>11. ToSet(First(d, cspn)) \cap C = {} /\ (cspn < n => d[cspn + 1] \in C)
  BY <1>6, <1>9
<1> QED
  BY <1>10, <1>11 DEF C, n, spn, cspn

\* The offsets of the characters of a set.
LEMMA PlacesAre ==
  ASSUME NEW d \in Seq(Nat), NEW C
  PROVE  {i - 1 : i \in {j \in DOMAIN d : d[j] \in C}} = {k \in 0 .. Len(d) - 1 : d[k + 1] \in C}
<1> DEFINE T == {j \in DOMAIN d : d[j] \in C}
           U == {k \in 0 .. Len(d) - 1 : d[k + 1] \in C}
<1>1. T = {j \in 1 .. Len(d) : d[j] \in C}
  OBVIOUS
<1> HIDE DEF T
<1>2. ASSUME NEW i \in T PROVE i - 1 \in U
  <2> DEFINE k == i - 1
  <2>1. k \in 0 .. Len(d) - 1 /\ k + 1 = i /\ d[i] \in C
    BY <1>1
  <2> HIDE DEF k
  <2>2. k \in U
    BY <2>1
  <2> QED
    BY <2>2 DEF k
<1>3. ASSUME NEW k \in U PROVE \E i \in T : k = i - 1
  <2>1. k + 1 \in T /\ k = (k + 1) - 1
    BY <1>1
  <2> QED
    BY <2>1
<1> HIDE DEF U
<1>4. {i - 1 : i \in T} = U
  BY <1>2, <1>3
<1> QED
  BY <1>4 DEF T, U

\* strpbrk.c: the first character of d that is in s, whatever slen says of s.
LEMMA StrpbrkAgrees ==
  ASSUME NEW m, NEW dest, NEW dmax, NEW src, NEW slen, NEW d, NEW s,
         IsSearch(m, dest, dmax, src, slen, d, s)
  PROVE  Least({i - 1 : i \in {j \in DOMAIN d : d[j] \in ToSet(s)}},
               safe_strpbrk(m, dest, dmax, src, slen, 0), dest)
<1> DEFINE n == Len(d)
           C == ToSet(s)
           found == safe_strpbrk(m, dest, dmax, src, slen, 0)
           T == {k \in 0 .. n - 1 : m[dest + k] \in C}
<1>1. /\ d \in Seq(Nat) /\ IsWritten(m, dest, d)
      /\ Length(m, dest, dmax) = n /\ SpanError(0, dest, src, dmax, slen) = "EOK"
  BY SearchIs
<1>2. AllChars(m, src) = C
  BY StringAtIs DEF AllChars, IsSearch, IsPlace
<1>3. found = IF T = {} THEN Answer("ESNOTFND", Null) ELSE Answer("EOK", dest + Min(T))
  BY <1>1, <1>2 DEF safe_strpbrk
<1>4. \A k \in 0 .. n - 1 : m[dest + k] = d[k + 1]
  BY <1>1 DEF IsWritten
<1> HIDE DEF found, C
<1>5. T = {k \in 0 .. n - 1 : d[k + 1] \in C}
  BY <1>4
<1>6. {i - 1 : i \in {j \in DOMAIN d : d[j] \in C}} = T
  BY <1>1, <1>5, PlacesAre
<1> HIDE DEF T
<1>7. Least(T, found, dest)
  BY <1>3 DEF Least, Answer
<1> QED
  BY <1>6, <1>7 DEF found, C

\* What the searches say, in every memory and with every room that holds dest; of
\* strpbrk.c where slen holds all of s.
THEOREM SearchesAgree ==
  ASSUME NEW m, NEW dest, NEW dmax, NEW src, NEW slen, NEW d, NEW s,
         IsSearch(m, dest, dmax, src, slen, d, s)
  PROVE  Searches(m, dest, dmax, src, slen, d, s)
<1>1. [a \in DOMAIN m |-> toupper(m[a])] = Capitals(m)
  BY DEF Capitals
<1> QED
  BY <1>1, StrstrAgrees, StrcasestrAgrees, SpansAgree, StrpbrkAgrees DEF Searches

\* strfirstchar.c, strlastchar.c: the first place of c, or the last one.
LEMMA CharactersAgree ==
  ASSUME NEW m, NEW dest, NEW dmax, NEW d, IsPlace(m, dest, dmax, d), Len(d) < dmax, NEW c
  PROVE  CharacterFound(m, dest, dmax, c, d)
<1> DEFINE n == Len(d)
           first == safe_strfirstchar(m, dest, dmax, c, 0)
           last == safe_strlastchar(m, dest, dmax, c, 0)
           T == {k \in 0 .. n - 1 : m[dest + k] = c}
           here == {i - 1 : i \in {j \in DOMAIN d : d[j] = c}}
<1>1. /\ d \in Seq(Nat) /\ IsWritten(m, dest, d) /\ dmax \in Nat /\ n < dmax /\ n \in Nat
  BY PlaceIs
<1>2. Length(m, dest, dmax) = n
  BY <1>1, PlaceLength
<1>3. FirstError(<<Check(0 = Null \/ dest = Null, "ESNULLP"),
                   Check(dmax = 0, "ESZEROL"), Check(dmax > MaxStr, "ESLEMAX")>>) = "EOK"
  <2>1. 0 # Null /\ dest # Null /\ dmax # 0 /\ ~(dmax > MaxStr)
    BY StringAssumption DEF IsPlace, Null
  <2> QED
    BY <2>1, FirstOfThree DEF Check
<1>4. first = IF T = {} THEN Answer("ESNOTFND", Null) ELSE Answer("EOK", dest + Min(T))
  BY <1>2, <1>3 DEF safe_strfirstchar, Found
<1>5. last = IF T = {} THEN Answer("ESNOTFND", Null) ELSE Answer("EOK", dest + Max(T))
  BY <1>2, <1>3 DEF safe_strlastchar, Found
<1>6. here = T
  <2>1. \A k \in 0 .. n - 1 : m[dest + k] = d[k + 1]
    BY <1>1 DEF IsWritten
  <2>2. {i - 1 : i \in {j \in DOMAIN d : d[j] \in {c}}} = {k \in 0 .. n - 1 : d[k + 1] \in {c}}
    BY <1>1, PlacesAre
  <2>3. {j \in DOMAIN d : d[j] \in {c}} = {j \in DOMAIN d : d[j] = c}
    OBVIOUS
  <2>4. {k \in 0 .. n - 1 : d[k + 1] \in {c}} = T
    BY <2>1
  <2> QED
    BY <2>2, <2>3, <2>4
<1> HIDE DEF first, last, T, here
<1>7. Least(here, first, dest)
  BY <1>4, <1>6 DEF Least, Answer
<1>8. IF here = {} THEN last.err = "ESNOTFND" ELSE last = Answer("EOK", dest + Max(here))
  BY <1>5, <1>6 DEF Answer
<1> QED
  BY <1>7, <1>8 DEF CharacterFound, first, last, here

\* strnlen.c, wcsnlen.c
LEMMA LengthsKept ==
  ASSUME NEW m, NEW dest, NEW dmax, NEW d, IsPlace(m, dest, dmax, d)
  PROVE  LengthsAgree(m, dest, dmax, d)
<1> DEFINE n == IF Len(d) < dmax THEN Len(d) ELSE dmax
<1>1. dmax \in Nat /\ dest # Null /\ dmax # 0
  BY PlaceIs DEF IsPlace, Null
<1>2. Length(m, dest, dmax) = n
  BY <1>1, PlaceLength
<1>3. Unusable(dest, dmax, MaxStr) = "EOK"
  BY PlaceIsUsable
<1>4. Unusable(dest, dmax, MaxWide) = IF dmax > MaxWide THEN "ESLEMAX" ELSE "EOK"
  BY <1>1, UnusableIs
<1> HIDE DEF n
<1>5. safe_strnlen(m, dest, dmax) = n
  BY <1>2, <1>3 DEF safe_strnlen, LengthUpTo
<1>6. safe_wcsnlen(m, dest, dmax) = IF dmax <= MaxWide THEN n ELSE 0
  <2>1. dmax > MaxWide <=> ~(dmax <= MaxWide)
    BY <1>1, WideIs
  <2> QED
    BY <1>2, <1>4, <2>1 DEF safe_wcsnlen, LengthUpTo
<1> QED
  BY <1>5, <1>6 DEF LengthsAgree, n

\* The characters of d lie in class.
AllIn(class, d) == \A k \in 0 .. Len(d) - 1 : d[k + 1] \in class

\* The tests of a class of a string that has its end within dmax; what surrounds it in
\* memory, and which of the two ways the characters are walked, make no difference.
LEMMA MadeOfIs ==
  ASSUME NEW m, NEW dest, NEW dmax \in Nat, NEW d, IsWritten(m, dest, d), Len(d) < dmax,
         Unusable(dest, dmax, MaxStr) = "EOK", DOMAIN m \subseteq Nat, NEW class
  PROVE  /\ MadeOf(class, Chars(m, dest, dmax), m, dest, dmax) <=> Len(d) # 0 /\ AllIn(class, d)
         /\ MadeOf(class, AllChars(m, dest), m, dest, dmax) <=> Len(d) # 0 /\ AllIn(class, d)
         /\ Chars(m, dest, dmax) \subseteq class <=> AllIn(class, d)
<1> DEFINE n == Len(d)
<1>1. d \in Seq(Nat) /\ n \in Nat /\ dest \in Nat
  BY DEF IsWritten
<1>2. Length(m, dest, dmax) = n
  BY WrittenLength
<1>3. Chars(m, dest, dmax) = {m[dest + k] : k \in 0 .. n - 1}
  BY <1>2 DEF Chars
<1>4. \A k \in 0 .. n - 1 : m[dest + k] = d[k + 1]
  BY DEF IsWritten
<1>5. ToSet(d) = {d[k + 1] : k \in 0 .. n - 1}
  BY <1>1, ToSetIs
<1>6. AllChars(m, dest) = ToSet(d)
  BY WrittenIsString, StringAtIs DEF AllChars
<1>7. m[dest] # 0 <=> n # 0
  <2>1. 0 \in 0 .. n /\ dest + 0 = dest
    BY <1>1
  <2>2. m[dest + 0] = 0 <=> 0 = n
    BY <2>1, CharacterAt
  <2> QED
    BY <2>1, <2>2
<1>8. AllIn(class, d) <=> \A k \in 0 .. n - 1 : d[k + 1] \in class
  BY DEF AllIn
<1> HIDE DEF n
<1>9. Chars(m, dest, dmax) \subseteq class <=> AllIn(class, d)
  BY <1>3, <1>4, <1>8
<1>10. AllChars(m, dest) \subseteq class <=> AllIn(class, d)
  BY <1>5, <1>6, <1>8
<1> QED
  BY <1>7, <1>9, <1>10 DEF MadeOf, n

\* Which characters have become small letters, or capitals.
LEMMA CaseIs ==
  ASSUME NEW c \in Nat
  PROVE  /\ tolower(c) \in Lower <=> c \in Upper \cup Lower
         /\ toupper(c) \in Upper <=> c \in Upper \cup Lower
BY DEF tolower, toupper, Lower, Upper

LEMMA CountedThere ==
  ASSUME NEW class, NEW m, NEW p, NEW n \in Nat, CountIn(class, m, p, n) >= 1
  PROVE  \E k \in 0 .. n - 1 : m[p + k] \in class
<1> DEFINE T == {k \in 0 .. n - 1 : m[p + k] \in class}
<1>1. CountIn(class, m, p, n) = Cardinality(T)
  BY DEF CountIn, Quantify
<1>2. T # {}
  <2> HIDE DEF T
  <2> QED
    BY <1>1, FS_EmptySet
<1> QED
  BY <1>2

\* strislowercase.c and its relatives: what a test of a whole string says of the others.
LEMMA ClassesAgree ==
  ASSUME NEW m, NEW dest, NEW dmax, NEW d, IsPlace(m, dest, dmax, d), Len(d) < dmax
  PROVE  Classes(m, dest, dmax, d)
<1> DEFINE n == Len(d)
           lowered == safe_strtolowercase(m, dest, dmax).mem
           raised == safe_strtouppercase(m, dest, dmax).mem
           ld == [i \in 1 .. Len(d) |-> tolower(d[i])]
           ud == [i \in 1 .. Len(d) |-> toupper(d[i])]
           Letters == Upper \cup Lower
           AlNum == Digit \cup Upper \cup Lower
           Hex == Digit \cup 65 .. 70 \cup 97 .. 102
<1>1. /\ d \in Seq(Nat) /\ n \in Nat /\ dmax \in Nat /\ n < dmax /\ n <= dmax /\ IsWritten(m, dest, d)
      /\ DOMAIN m \subseteq Nat
  BY PlaceIs
<1>2. Unusable(dest, dmax, MaxStr) = "EOK"
  BY PlaceIsUsable
<1>3. \A k \in 0 .. n - 1 : d[k + 1] \in Nat
  BY <1>1
<1>4. ASSUME NEW class
      PROVE  /\ MadeOf(class, Chars(m, dest, dmax), m, dest, dmax) <=> n # 0 /\ AllIn(class, d)
             /\ MadeOf(class, AllChars(m, dest), m, dest, dmax) <=> n # 0 /\ AllIn(class, d)
             /\ Chars(m, dest, dmax) \subseteq class <=> AllIn(class, d)
  BY <1>1, <1>2, MadeOfIs
<1>5. IsWritten(lowered, dest, ld) /\ IsWritten(raised, dest, ud)
  BY <1>1, CasesKept
<1>6. DOMAIN lowered \subseteq Nat /\ DOMAIN raised \subseteq Nat
  BY <1>1, <1>2 DEF safe_strtolowercase, safe_strtouppercase, Mapped, Kept
<1>7. Len(ld) = n /\ Len(ud) = n
  BY <1>1
<1>8. \A k \in 0 .. n - 1 : ld[k + 1] = tolower(d[k + 1]) /\ ud[k + 1] = toupper(d[k + 1])
  BY <1>1
<1> HIDE DEF lowered, raised, ld, ud
<1>9. safe_strislowercase(lowered, dest, dmax) <=> n # 0 /\ AllIn(Lower, ld)
  BY <1>1, <1>2, <1>5, <1>6, <1>7, MadeOfIs DEF safe_strislowercase
<1>10. safe_strisuppercase(raised, dest, dmax) <=> n # 0 /\ AllIn(Upper, ud)
  BY <1>1, <1>2, <1>5, <1>6, <1>7, MadeOfIs DEF safe_strisuppercase
<1>11. AllIn(Lower, ld) <=> AllIn(Letters, d)
  <2>1. \A k \in 0 .. n - 1 : ld[k + 1] \in Lower <=> d[k + 1] \in Letters
    BY <1>3, <1>8, CaseIs
  <2> QED
    BY <1>7, <2>1 DEF AllIn
<1>12. AllIn(Upper, ud) <=> AllIn(Letters, d)
  <2>1. \A k \in 0 .. n - 1 : ud[k + 1] \in Upper <=> d[k + 1] \in Letters
    BY <1>3, <1>8, CaseIs
  <2> QED
    BY <1>7, <2>1 DEF AllIn
<1>13. /\ safe_strismixedcase(m, dest, dmax) <=> n # 0 /\ AllIn(Letters, d)
       /\ safe_strisdigit(m, dest, dmax) <=> n # 0 /\ AllIn(Digit, d)
       /\ safe_strisalphanumeric(m, dest, dmax) <=> n # 0 /\ AllIn(AlNum, d)
       /\ safe_strishex(m, dest, dmax) <=> n # 0 /\ AllIn(Hex, d)
       /\ safe_strisascii(m, dest, dmax) <=> AllIn(0 .. 127, d)
  BY <1>2, <1>4 DEF safe_strismixedcase, safe_strisdigit, safe_strisalphanumeric, safe_strishex,
                    safe_strisascii
<1>14. ToSet(d) \subseteq 0 .. 127 <=> AllIn(0 .. 127, d)
  <2>1. ToSet(d) = {d[k + 1] : k \in 0 .. n - 1}
    BY <1>1, ToSetIs
  <2> QED
    BY <2>1 DEF AllIn
<1>15. /\ Letters \subseteq AlNum /\ Digit \subseteq AlNum /\ Hex \subseteq AlNum /\ Digit \subseteq Hex
       /\ Digit \cap Letters = {}
       /\ Digit \cup Upper \cup Lower \cup Special \subseteq 0 .. 127 /\ Special \cap AlNum = {}
  BY DEF Digit, Upper, Lower, Special
<1> HIDE DEF Letters, AlNum, Hex
<1>16. ASSUME NEW A, NEW B, A \subseteq B, AllIn(A, d) PROVE AllIn(B, d)
  BY <1>16 DEF AllIn
<1>17. ASSUME n # 0, AllIn(Digit, d) PROVE ~AllIn(Letters, d)
  <2>1. 0 \in 0 .. n - 1
    BY <1>1, <1>17
  <2> QED
    BY <1>15, <1>17, <2>1 DEF AllIn
<1>18. ASSUME safe_strispassword(m, dest, dmax)
       PROVE  AllIn(0 .. 127, d) /\ ~AllIn(AlNum, d)
  <2>1. Length(m, dest, dmax) = n
    BY <1>1, WrittenLength
  <2>2. /\ Chars(m, dest, dmax) \subseteq Digit \cup Upper \cup Lower \cup Special
        /\ CountIn(Special, m, dest, n) >= 1
    BY <1>18, <2>1 DEF safe_strispassword
  <2>3. AllIn(0 .. 127, d)
    <3> DEFINE class == Digit \cup Upper \cup Lower \cup Special
    <3>1. class \subseteq 0 .. 127
      BY <1>15
    <3>2. Chars(m, dest, dmax) \subseteq class
      BY <2>2
    <3> HIDE DEF class
    <3>3. AllIn(class, d)
      BY <1>4, <3>2
    <3> QED
      BY <1>16, <3>1, <3>3
  <2>4. PICK k \in 0 .. n - 1 : m[dest + k] \in Special
    BY <1>1, <2>2, CountedThere
  <2>5. m[dest + k] = d[k + 1]
    BY <1>1 DEF IsWritten
  <2> QED
    BY <1>15, <2>3, <2>4, <2>5 DEF AllIn
<1> QED
  <2>1. /\ safe_strislowercase(lowered, dest, dmax) <=> safe_strismixedcase(m, dest, dmax)
        /\ safe_strisuppercase(raised, dest, dmax) <=> safe_strismixedcase(m, dest, dmax)
        /\ safe_strisascii(m, dest, dmax) <=> ToSet(d) \subseteq 0 .. 127
    BY <1>9, <1>10, <1>11, <1>12, <1>13, <1>14
  <2>2. /\ \/ safe_strismixedcase(m, dest, dmax) \/ safe_strisdigit(m, dest, dmax)
           \/ safe_strishex(m, dest, dmax)
           => safe_strisalphanumeric(m, dest, dmax)
        /\ safe_strisdigit(m, dest, dmax)
           => safe_strishex(m, dest, dmax) /\ ~safe_strismixedcase(m, dest, dmax)
    BY <1>13, <1>15, <1>16, <1>17
  <2>3. safe_strispassword(m, dest, dmax)
        => safe_strisascii(m, dest, dmax) /\ ~safe_strisalphanumeric(m, dest, dmax)
    BY <1>13, <1>18
  <2> QED
    BY <2>1, <2>2, <2>3 DEF Classes, lowered, raised

\* QueriesAgreeWithStrings, which the run algorithms checks, for memories of every size and
\* texts of every alphabet.
THEOREM QueriesAgree == AlgorithmsSpec => []QueriesAgreeWithStrings
<1>1. TextType => QueriesAgreeWithStrings
  <2> SUFFICES ASSUME TextType, kind = "memory", Len(text) = MemoryCells
               PROVE  LET m == MemoryOf(text) IN
                      \A dest \in 0 .. MemoryCells - 1 : \A dmax \in 1 .. MemoryCells - dest :
                         LET d == StringAt(m, dest) IN
                         dmax <= MaxStr =>
                            /\ LengthsAgree(m, dest, dmax, d)
                            /\ Len(d) < dmax =>
                                  /\ Classes(m, dest, dmax, d)
                                  /\ \A c \in Alphabet["memory"] \ {0} : CharacterFound(m, dest, dmax, c, d)
                                  /\ \A src \in 0 .. MemoryCells - 1 :
                                        LET s == StringAt(m, src) IN
                                        /\ Len(s) < dmax => Comparisons(m, dest, dmax, src, d, s)
                                        /\ \A slen \in SourceLengths :
                                              Searches(m, dest, dmax, src, slen, d, s)
    BY DEF QueriesAgreeWithStrings
  <2> DEFINE m == MemoryOf(text)
  <2>1. text \in Seq(Nat)
    BY DEF TextType
  <2>2. ASSUME NEW dest \in 0 .. MemoryCells - 1, NEW dmax \in 1 .. MemoryCells - dest, dmax <= MaxStr
        PROVE  IsPlace(m, dest, dmax, StringAt(m, dest))
    BY <2>1, <2>2, CallsOnText
  <2>3. ASSUME NEW src \in 0 .. MemoryCells - 1
        PROVE  IsString(m, src, StringAt(m, src))
    <3> DEFINE n == Len(text)
    <3>1. IsMemory(m) /\ DOMAIN m = 0 .. n + 1 /\ m[n] = 0 /\ n \in Nat
      BY <2>1, MemoryOfIs
    <3> HIDE DEF m, n
    <3>2. src \in 0 .. n - 1
      BY DEF n
    <3>3. src \in Nat /\ src <= n /\ src .. n \subseteq 0 .. n + 1
      BY <3>1, <3>2
    <3> QED
      BY <3>1, <3>3, StringThere
  <2>4. \A a \in DOMAIN m : m[a] \in Nat
    BY <2>1, MemoryOfIs DEF IsMemory
  <2> HIDE DEF m
  <2>5. ASSUME NEW slen \in SourceLengths PROVE slen \in Nat /\ slen > 0 /\ slen <= MaxStr
    BY WideIs, StringAssumption DEF SourceLengths
  <2>6. ASSUME NEW dest \in 0 .. MemoryCells - 1, NEW dmax \in 1 .. MemoryCells - dest, dmax <= MaxStr,
               Len(StringAt(m, dest)) < dmax, NEW src \in 0 .. MemoryCells - 1
        PROVE  /\ Len(StringAt(m, src)) < dmax =>
                     Comparisons(m, dest, dmax, src, StringAt(m, dest), StringAt(m, src))
               /\ \A slen \in SourceLengths :
                     Searches(m, dest, dmax, src, slen, StringAt(m, dest), StringAt(m, src))
    <3> DEFINE d == StringAt(m, dest)
               s == StringAt(m, src)
    <3>1. IsPlace(m, dest, dmax, d) /\ Len(d) < dmax /\ IsString(m, src, s)
      BY <2>2, <2>3, <2>6
    <3> HIDE DEF d, s
    <3>2. ASSUME Len(s) < dmax PROVE Comparisons(m, dest, dmax, src, d, s)
      <4>1. ArePair(m, dest, dmax, src, d, s)
        BY <3>1, <3>2 DEF ArePair
      <4> QED
        BY <2>4, <4>1, ComparisonsAgree
    <3>3. \A slen \in SourceLengths : Searches(m, dest, dmax, src, slen, d, s)
      BY <2>5, <3>1, SearchesAgree DEF IsSearch
    <3> QED
      BY <3>2, <3>3 DEF d, s
  <2>7. ASSUME NEW dest \in 0 .. MemoryCells - 1, NEW dmax \in 1 .. MemoryCells - dest, dmax <= MaxStr
        PROVE  /\ LengthsAgree(m, dest, dmax, StringAt(m, dest))
               /\ Len(StringAt(m, dest)) < dmax =>
                     /\ Classes(m, dest, dmax, StringAt(m, dest))
                     /\ \A c : CharacterFound(m, dest, dmax, c, StringAt(m, dest))
    BY <2>2, <2>7, LengthsKept, ClassesAgree, CharactersAgree
  <2> QED
    BY <2>6, <2>7 DEF m
<1> QED
  BY <1>1, TextTypes, PTL
=============================================================================
