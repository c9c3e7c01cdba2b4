----------------------------- MODULE SafeMemory -----------------------------
(***************************************************************************)
(* The memory half of the string library (safe_mem*.c, safe_wmem*.c): the  *)
(* checks of each function and the primitives that move whole words where  *)
(* both ends can be aligned.                                               *)
(*                                                                         *)
(* A memory is a function from addresses to cells, Null is no address of   *)
(* it.  A cell is what the pointers of the function count in: a byte, a    *)
(* uint16_t, a uint32_t or a wchar_t.  A function that changes memory      *)
(* returns the new memory and its error.                                   *)
(***************************************************************************)
EXTENDS Integers, Sequences, SequencesExt

CONSTANTS
    MaxMem,   \* RSIZE_MAX_MEM, a multiple of four
    Numbers   \* how many values a uint32_t has, 2^32 in the code

ASSUME MemoryAssumption ==
    /\ MaxMem \in Nat \ {0} /\ MaxMem % 4 = 0
    /\ Numbers \in Nat \ {0} /\ Numbers % 2 = 0

Null == -1
Word == 4

\* A check of the arguments, and the error of the first that fires, in the code's order.
Check(fires, error) == IF fires THEN error ELSE "EOK"
FirstError(checks) ==
    LET i == SelectInSeq(checks, LAMBDA error : error # "EOK")
    IN IF i = 0 THEN "EOK" ELSE checks[i]
-----------------------------------------------------------------------------
\* Bytes up to the first word boundary, then words, then the bytes that are left.
prim_set(m, dest, len, value) ==
    LET head == IF dest % Word = 0 THEN 0
                ELSE IF len < Word - (dest % Word) THEN len ELSE Word - (dest % Word)
        words == (len - head) \div Word
        tail == (len - head) % Word
    IN [a \in DOMAIN m |-> IF a \in dest .. dest + head + Word * words + tail - 1
                           THEN value ELSE m[a]]

\* One cell after the other.
prim_set_cells(m, dest, len, value) ==
    [a \in DOMAIN m |-> IF a \in dest .. dest + len - 1 THEN value ELSE m[a]]

prim_set16(m, dest, len, value) == prim_set_cells(m, dest, len, value)
prim_set32(m, dest, len, value) == prim_set_cells(m, dest, len, value)

\* One load and one store of n cells.
CopyBlock(m, dp, sp, n) ==
    [a \in DOMAIN m |-> IF a \in dp .. dp + n - 1 THEN m[sp + (a - dp)] ELSE m[a]]

\* How many bytes the loops have moved when i of their rounds are done: head single
\* bytes that align both pointers, then words, then the bytes that are left.
Rounds(head, len) == head + ((len - head) \div Word) + ((len - head) % Word)
Done(head, len) ==
    LET words == (len - head) \div Word
    IN [i \in 0 .. Rounds(head, len) |->
           IF i <= head THEN i
           ELSE IF i <= head + words THEN head + Word * (i - head)
           ELSE head + Word * words + (i - head - words)]

Upwards(m, dp, sp, done, rounds) ==
    LET after[i \in 0 .. rounds] ==
            IF i = 0 THEN m
            ELSE CopyBlock(after[i - 1], dp + done[i - 1], sp + done[i - 1],
                           done[i] - done[i - 1])
    IN after[rounds]

\* dp and sp are the ends.
Downwards(m, dp, sp, done, rounds) ==
    LET after[i \in 0 .. rounds] ==
            IF i = 0 THEN m
            ELSE CopyBlock(after[i - 1], dp - done[i], sp - done[i], done[i] - done[i - 1])
    IN after[rounds]

Aligned(dp, sp) == dp % Word = 0 /\ sp % Word = 0

HeadUpwards(dp, sp, len) ==
    IF Aligned(dp, sp) THEN 0
    ELSE IF dp % Word # sp % Word \/ len < Word THEN len
    ELSE Word - (sp % Word)

HeadDownwards(dp, sp, len) ==
    IF Aligned(dp, sp) THEN 0
    ELSE IF dp % Word # sp % Word \/ len <= Word THEN len
    ELSE sp % Word

MoveUpwards(m, dp, sp, len, head) == Upwards(m, dp, sp, Done(head, len), Rounds(head, len))
MoveDownwards(m, dp, sp, len, head) == Downwards(m, dp, sp, Done(head, len), Rounds(head, len))

\* Mutant: always upwards.
prim_move_up(m, dest, src, len) ==
    MoveUpwards(m, dest, src, len, HeadUpwards(dest, src, len))

\* An overlap is moved from the side where it cannot be overwritten first.
prim_move(m, dest, src, len) ==
    IF dest < src
    THEN MoveUpwards(m, dest, src, len, HeadUpwards(dest, src, len))
    ELSE LET dp == dest + len
             sp == src + len
         IN MoveDownwards(m, dp, sp, len, HeadDownwards(dp, sp, len))

\* One cell in every round.
prim_move_cells(m, dest, src, len) ==
    IF dest < src THEN MoveUpwards(m, dest, src, len, len)
                  ELSE MoveDownwards(m, dest + len, src + len, len, len)
prim_move16(m, dest, src, len) == prim_move_cells(m, dest, src, len)
prim_move32(m, dest, src, len) == prim_move_cells(m, dest, src, len)
-----------------------------------------------------------------------------
\* The checks of memcpy and memmove. The first three leave dest alone, the others
\* zero all of it.
Unusable(dest, dmax, max) ==
    FirstError(<<Check(dest = Null, "ESNULLP"), Check(dmax = 0, "ESZEROL"), Check(dmax > max, "ESLEMAX")>>)

Overlaps(dest, dmax, src, smax) ==
    \/ dest > src /\ dest < src + smax
    \/ src > dest /\ src < dest + dmax

CopyError(overlaps, dmax, src, smax) ==
    FirstError(<<Check(smax = 0, "ESZEROL"), Check(smax > dmax, "ESLEMAX"), Check(src = Null, "ESNULLP"),
                  Check(overlaps, "ESOVRLP")>>)

Moved(set(_, _, _, _), move(_, _, _, _), max, overlaps, m, dest, dmax, src, smax) ==
    LET unusable == Unusable(dest, dmax, max)
        error == CopyError(overlaps, dmax, src, smax)
    IN IF unusable # "EOK" THEN [mem |-> m, err |-> unusable]
       ELSE IF error # "EOK" THEN [mem |-> set(m, dest, dmax, 0), err |-> error]
       ELSE [mem |-> move(m, dest, src, smax), err |-> "EOK"]

safe_memcpy(m, dest, dmax, src, smax) ==
    Moved(prim_set, prim_move, MaxMem, Overlaps(dest, dmax, src, smax), m, dest, dmax, src, smax)
safe_memcpy16(m, dest, dmax, src, smax) ==
    Moved(prim_set16, prim_move16, MaxMem \div 2, Overlaps(dest, dmax, src, smax),
          m, dest, dmax, src, smax)
safe_memcpy32(m, dest, dmax, src, smax) ==
    Moved(prim_set32, prim_move32, MaxMem \div 4, Overlaps(dest, dmax, src, smax),
          m, dest, dmax, src, smax)

\* wchar_t, by the primitives for bytes: a cell is a word of theirs, the pointers are
\* aligned. The limit is RSIZE_MAX_MEM cells here and RSIZE_MAX_MEM bytes in wmemmove.
safe_wmemcpy(m, dest, dmax, src, smax) ==
    Moved(prim_set_cells, prim_move_cells, MaxMem, Overlaps(dest, dmax, src, smax),
          m, dest, dmax, src, smax)

safe_memmove(m, dest, dmax, src, smax) ==
    Moved(prim_set, prim_move, MaxMem, FALSE, m, dest, dmax, src, smax)
safe_memmove16(m, dest, dmax, src, smax) ==
    Moved(prim_set16, prim_move16, MaxMem \div 2, FALSE, m, dest, dmax, src, smax)
safe_memmove32(m, dest, dmax, src, smax) ==
    Moved(prim_set32, prim_move32, MaxMem \div 4, FALSE, m, dest, dmax, src, smax)
safe_wmemmove(m, dest, dmax, src, smax) ==
    Moved(prim_set_cells, prim_move_cells, MaxMem \div 4, FALSE, m, dest, dmax, src, smax)

Filled(set(_, _, _, _), max, m, dest, len, value) ==
    LET unusable == Unusable(dest, len, max)
    IN [mem |-> IF unusable = "EOK" THEN set(m, dest, len, value) ELSE m, err |-> unusable]

safe_memset(m, dest, len, value) == Filled(prim_set, MaxMem, m, dest, len, value)
safe_memset16(m, dest, len, value) == Filled(prim_set16, MaxMem \div 2, m, dest, len, value)
safe_memset32(m, dest, len, value) == Filled(prim_set32, MaxMem \div 4, m, dest, len, value)
safe_wmemset(m, dest, value, len) == Filled(prim_set32, MaxMem \div 4, m, dest, len, value)
safe_memzero(m, dest, len) == Filled(prim_set, MaxMem, m, dest, len, 0)
safe_memzero16(m, dest, len) == Filled(prim_set16, MaxMem \div 2, m, dest, len, 0)
safe_memzero32(m, dest, len) == Filled(prim_set32, MaxMem \div 4, m, dest, len, 0)
-----------------------------------------------------------------------------
\* The comparisons give the difference of the first two cells that differ: its sign
\* for bytes, the number for uint16_t, an int of what wraps around for 32 bits.
Sign(a, b) == IF a < b THEN -1 ELSE 1
Difference(a, b) == a - b
WrappedDifference(a, b) ==
    LET d == (a - b) % Numbers IN IF d >= Numbers \div 2 THEN d - Numbers ELSE d

\* diff = Null: the caller gave no place for the result.
Compared(difference(_, _), max, m, dest, dmax, src, smax, diff) ==
    LET error == FirstError(<<Check(diff = Null, "ESNULLP"), Check(dest = Null, "ESNULLP"),
                               Check(src = Null, "ESNULLP"), Check(dmax = 0, "ESZEROL"),
                               Check(dmax > max, "ESLEMAX"), Check(smax = 0, "ESZEROL"),
                               Check(smax > dmax, "ESLEMAX")>>)
        i == SelectInSeq([k \in 1 .. smax |-> k - 1], LAMBDA k : m[dest + k] # m[src + k]) - 1
    IN CASE error # "EOK" -> [err |-> error, diff |-> -1]
         [] dest = src -> [err |-> "EOK", diff |-> 0]
         [] OTHER -> [err |-> "EOK",
                      diff |-> IF i = -1 THEN 0 ELSE difference(m[dest + i], m[src + i])]

safe_memcmp(m, dest, dmax, src, smax, diff) ==
    Compared(Sign, MaxMem, m, dest, dmax, src, smax, diff)
safe_memcmp16(m, dest, dmax, src, smax, diff) ==
    Compared(Difference, MaxMem \div 2, m, dest, dmax, src, smax, diff)
safe_memcmp32(m, dest, dmax, src, smax, diff) ==
    Compared(WrappedDifference, MaxMem \div 4, m, dest, dmax, src, smax, diff)
safe_wmemcmp(m, dest, dmax, src, smax, diff) ==
    Compared(WrappedDifference, MaxMem \div 4, m, dest, dmax, src, smax, diff)
=============================================================================
