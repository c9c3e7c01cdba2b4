------------------------------ MODULE SeqArith ------------------------------
(***************************************************************************)
(* The 32-bit sequence-number arithmetic of the TCP stack: compare_u32     *)
(* (util.c) and get_send_window (tcp.c), over a number space of 2 * Half   *)
(* values (2^32 in the code), so that TLC can check it on a small space    *)
(* and TLAPS can prove it for every size.                                  *)
(***************************************************************************)
EXTENDS Integers

CONSTANT Half \* half of the sequence-number space: 2^31 in the code

ASSUME HalfAssumption == Half \in Nat /\ Half > 2

Mod == 2 * Half
SeqNums == 0 .. Mod - 1
Min2(m, n) == IF m < n THEN m ELSE n

\* The addition in a type wider than 32 bits.
SeqAddWide(s, n) == s + n

\* uint32_t addition, which wraps around.
SeqAdd(s, n) == (s + n) % Mod

-----------------------------------------------------------------------------

\* `int i1 = s1;`: the upper half of the unsigned numbers becomes negative.
ToInt(s) == IF s < Half THEN s ELSE s - Mod

(***************************************************************************)
(* `i - j` on ints. When it overflows the C is undefined: the build either *)
(* wraps around in 32 bits (wraps) or keeps the mathematical value in a    *)
(* wider register (~wraps). Overflow takes operands of opposite signs.     *)
(***************************************************************************)
IntDiff(wraps, i, j) ==
  LET d == i - j
  IN  CASE wraps /\ d >= Half  -> d - Mod
        [] wraps /\ d < -Half  -> d + Mod
        [] OTHER               -> d

\* The comparison with the two numbers read as unsigned, a plausible slip.
compare_u32_unsigned(wraps, s1, s2) ==
  IF s1 = s2 THEN 0 ELSE IF s1 < s2 THEN -1 ELSE 1

\* 0x7FFFFFFF is Half - 1.
compare_u32(wraps, s1, s2) ==
  LET i1 == ToInt(s1)
      i2 == ToInt(s2)
  IN  IF s1 = s2 THEN 0
      ELSE IF \/ i1 < i2 /\ IntDiff(wraps, i2, i1) < Half - 1
              \/ i1 > i2 /\ IntDiff(wraps, i1, i2) > Half - 1
           THEN -1
           ELSE 1

\* How much the VPN may still send to the app: send_window less what is in
\* flight; when acked compares as ahead of local_seq, less acked itself.
get_send_window(wraps, acked, local_seq, send_window) ==
  LET behind == IF compare_u32(wraps, acked, local_seq) <= 0
                THEN (local_seq - acked) % Mod
                ELSE acked
  IN  IF behind < send_window THEN send_window - behind ELSE 0

-----------------------------------------------------------------------------
(* Reference definitions *)

\* RFC 1982, section 3.2: the order compare_u32's comment refers to; it is
\* defined unless the two numbers are Half apart.
Rfc1982Less(s1, s2) ==
  \/ s1 < s2 /\ s2 - s1 < Half
  \/ s1 > s2 /\ s1 - s2 > Half

Rfc1982Defined(s1, s2) == s1 - s2 # Half /\ s2 - s1 # Half

Rfc1982(s1, s2) ==
  IF s1 = s2 THEN 0 ELSE IF Rfc1982Less(s1, s2) THEN -1 ELSE 1

\* The two numbers, read as ints, are less than Half - 1 apart: no overflow,
\* and not the one distance (0x7FFFFFFF) the code's strict bound leaves out.
Comparable(s1, s2) ==
  /\ ToInt(s1) - ToInt(s2) < Half - 1
  /\ ToInt(s2) - ToInt(s1) < Half - 1
=============================================================================
