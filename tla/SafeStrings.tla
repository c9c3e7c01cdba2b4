---------------------------- MODULE SafeStrings ----------------------------
(***************************************************************************)
(* The string half of the string library (safe_str*.c, safe_stp*.c,        *)
(* safe_wcs*.c).  A character is its code, a string is what lies in memory *)
(* from an address up to the first 0.  The build leaves                    *)
(* SAFECLIB_STR_NULL_SLACK out: what follows the 0 is not cleared, and an  *)
(* error puts a 0 in the first cell of dest and nowhere else.              *)
(*                                                                         *)
(* A function that changes memory returns the memory, its error and, where *)
(* it returns a pointer, that pointer (Null on an error).                  *)
(***************************************************************************)
EXTENDS SafeMemory, FiniteSetsExt

CONSTANTS
    MaxStr,    \* RSIZE_MAX_STR, a multiple of four
    MaxDelims  \* STRTOK_DELIM_MAX_LEN

ASSUME StringAssumption == MaxStr \in Nat \ {0} /\ MaxStr % 4 = 0 /\ MaxDelims \in Nat \ {0}

MaxWide == MaxStr \div 4   \* the wcs functions limit the size in bytes
NoLimit == -1

Blank == {32, 9}
Digit == 48 .. 57
Upper == 65 .. 90
Lower == 97 .. 122
Special == 33 .. 47 \cup 58 .. 64 \cup 91 .. 96 \cup 123 .. 126

toupper(c) == IF c \in Lower THEN c - 32 ELSE c
tolower(c) == IF c \in Upper THEN c + 32 ELSE c
-----------------------------------------------------------------------------
Kept(m, err) == [mem |-> m, err |-> err, end |-> Null]
Ended(m, end) == [mem |-> m, err |-> "EOK", end |-> end]

\* safe_handle_error, safe_handle_wc_error
safe_handle_error(m, dest, err) == Kept([m EXCEPT ![dest] = 0], err)

Cleared(m, dest, dmax, err) == Kept(prim_set_cells(m, dest, dmax, 0), err)

\* The round in which a loop stops: the first of 0 .. most that does.
FirstRound(stops(_), most) ==
    CHOOSE i \in 0 .. most : stops(i) /\ \A j \in 0 .. i - 1 : ~stops(j)

\* while (*p && n): how many cells it passes; the cell n is read as well.
Length(m, p, n) == FirstRound(LAMBDA i : m[p + i] = 0 \/ i = n, n)

\* The string that begins at p.
StringAt(m, p) ==
    LET ends == {a \in DOMAIN m : a >= p /\ m[a] = 0}
    IN [i \in 1 .. Min(ends) - p |-> m[p + i - 1]]

\* The first n rounds of a copy, one cell in each.
CopyCells(m, d, src, n) == MoveUpwards(m, d, src, n, n)

\* d and s have got on from dest and src: the part of dest that is written must not run
\* into src, nor src into dest.
Bumped(dest, d, src, s) == IF dest < src THEN d = src ELSE s = dest

\* Copies from src to d until room or slen is used up, a 0 is copied or the two meet.
CopyRounds(m, dest, d, src, dmax, slen) ==
    FirstRound(LAMBDA i : i = dmax \/ Bumped(dest, d + i, src, src + i) \/ i = slen
                             \/ CopyCells(m, d, src, i)[src + i] = 0, dmax)

\* Mutant: the room is looked at last.
CopyLoopLate(m, dest, d, src, dmax, slen) ==
    LET n == CopyRounds(m, dest, d, src, dmax, slen)
        copied == CopyCells(m, d, src, n)
    IN IF Bumped(dest, d + n, src, src + n) THEN safe_handle_error(copied, dest, "ESOVRLP")
       ELSE IF n = slen \/ copied[src + n] = 0 THEN Ended([copied EXCEPT ![d + n] = 0], d + n)
       ELSE safe_handle_error(copied, dest, "ESNOSPC")

CopyLoop(m, dest, d, src, dmax, slen) ==
    LET n == CopyRounds(m, dest, d, src, dmax, slen)
        copied == CopyCells(m, d, src, n)
    IN IF n = dmax THEN safe_handle_error(copied, dest, "ESNOSPC")
       ELSE IF Bumped(dest, d + n, src, src + n) THEN safe_handle_error(copied, dest, "ESOVRLP")
       ELSE Ended([copied EXCEPT ![d + n] = 0], d + n)

Copy(m, dest, dmax, src, slen) == CopyLoop(m, dest, dest, src, dmax, slen)

\* strcpy and its relatives differ in what a copy of a string to itself does.
CopyOf(max, same, m, dest, dmax, src) ==
    LET unusable == Unusable(dest, dmax, max)
    IN IF unusable # "EOK" THEN Kept(m, unusable)
       ELSE IF src = Null THEN safe_handle_error(m, dest, "ESNULLP")
       ELSE IF src = dest THEN same
       ELSE Copy(m, dest, dmax, src, NoLimit)

safe_strcpy(m, dest, dmax, src) == CopyOf(MaxStr, Kept(m, "EOK"), m, dest, dmax, src)

safe_stpcpy(m, dest, dmax, src) ==
    LET n == Length(m, dest, dmax)
        same == IF n < dmax THEN Ended(m, dest + n) ELSE safe_handle_error(m, dest, "ESNOSPC")
    IN CopyOf(MaxStr, same, m, dest, dmax, src)

\* The wide ones accept a string whose 0 lies just behind dmax.
safe_wcscpy(m, dest, dmax, src) ==
    CopyOf(MaxWide, Kept(m, IF m[dest + Length(m, dest, dmax)] = 0 THEN "EOK" ELSE "ESLEMAX"),
           m, dest, dmax, src)

safe_wcpcpy(m, dest, dmax, src) ==
    LET n == Length(m, dest, dmax)
        same == IF m[dest + n] = 0 THEN Ended(m, dest + n) ELSE Kept(m, "ESLEMAX")
    IN CopyOf(MaxWide, same, m, dest, dmax, src)

CopyAtMost(max, m, dest, dmax, src, slen) ==
    LET unusable == Unusable(dest, dmax, max)
        error == FirstError(<<Check(src = Null, "ESNULLP"), Check(slen = 0, "ESZEROL"),
                               Check(slen > max, "ESLEMAX")>>)
    IN IF unusable # "EOK" THEN Kept(m, unusable)
       ELSE IF error # "EOK" THEN safe_handle_error(m, dest, error)
       ELSE Copy(m, dest, dmax, src, slen)

safe_strncpy(m, dest, dmax, src, slen) == CopyAtMost(MaxStr, m, dest, dmax, src, slen)
safe_wcsncpy(m, dest, dmax, src, slen) == CopyAtMost(MaxWide, m, dest, dmax, src, slen)

\* To the end of dest, which must not run into src either.
AppendLoop(m, dest, dmax, src, slen) ==
    LET n == FirstRound(LAMBDA i : m[dest + i] = 0 \/ (dest < src /\ dest + i = src) \/ i = dmax - 1,
                        dmax - 1)
    IN IF m[dest + n] = 0 THEN CopyLoop(m, dest, dest + n, src, dmax - n, slen)
       ELSE IF dest < src /\ dest + n = src THEN safe_handle_error(m, dest, "ESOVRLP")
       ELSE safe_handle_error(m, dest, "ESUNTERM")

AppendAtMost(max, m, dest, dmax, src, slen) ==
    LET error == FirstError(<<Check(dest = Null \/ src = Null, "ESNULLP"), Check(slen > max, "ESLEMAX"),
                               Check(dmax = 0, "ESZEROL"), Check(dmax > max, "ESLEMAX")>>)
    IN IF error # "EOK" THEN Kept(m, error) ELSE AppendLoop(m, dest, dmax, src, slen)

safe_strcat(m, dest, dmax, src) == AppendAtMost(MaxStr, m, dest, dmax, src, NoLimit)
safe_wcscat(m, dest, dmax, src) == AppendAtMost(MaxWide, m, dest, dmax, src, NoLimit)
safe_strncat(m, dest, dmax, src, slen) == AppendAtMost(MaxStr, m, dest, dmax, src, slen)
safe_wcsncat(m, dest, dmax, src, slen) == AppendAtMost(MaxWide, m, dest, dmax, src, slen)

\* Fills up to smax with 0, and puts one behind smax characters. (A string copied to
\* itself with smax = 0 counts smax down from 0: not called so.)
safe_stpncpy(m, dest, dmax, src, smax) ==
    LET size == FirstError(<<Check(dmax = 0, "ESZEROL"), Check(dmax > MaxStr \/ smax > MaxStr, "ESLEMAX")>>)
        error == FirstError(<<Check(dmax < smax + 1, "ESNOSPC"),
                               Check(src < dest /\ src + smax >= dest, "ESOVRLP"),
                               Check(dest < src /\ dest + smax >= src, "ESOVRLP")>>)
        n == Length(m, src, smax)
        filled == prim_set_cells(m, dest + n, IF n < smax THEN smax - n ELSE 1, 0)
    IN IF dest = Null THEN Kept(m, "ESNULLP")
       ELSE IF src = Null THEN safe_handle_error(m, dest, "ESNULLP")
       ELSE IF size # "EOK" THEN Kept(m, size)
       ELSE IF error # "EOK" THEN safe_handle_error(m, dest, error)
       ELSE Ended(CopyBlock(filled, dest, src, n), dest + n)

\* Fields: n cells are copied, or those before a 0, and the rest of dest is cleared.
FieldRounds(m, dest, src, n, stops) ==
    FirstRound(LAMBDA i : i = n \/ (stops /\ CopyCells(m, dest, src, i)[src + i] = 0)
                             \/ Bumped(dest, dest + i, src, src + i), n)

FieldLoop(m, dest, dmax, src, n, stops) ==
    LET k == FieldRounds(m, dest, src, n, stops)
        copied == CopyCells(m, dest, src, k)
    IN IF k = n \/ (stops /\ copied[src + k] = 0) THEN Cleared(copied, dest + k, dmax - k, "EOK")
       ELSE Cleared(copied, dest, dmax, "ESOVRLP")

Field(m, dest, dmax, src, slen, n, stops) ==
    LET unusable == Unusable(dest, dmax, MaxStr)
        error == FirstError(<<Check(src = Null, "ESNULLP"), Check(slen = 0, "ESZEROL"),
                               Check(slen > dmax, "ESLEMAX")>>)
    IN IF unusable # "EOK" THEN Kept(m, unusable)
       ELSE IF error # "EOK" THEN Cleared(m, dest, dmax, error)
       ELSE FieldLoop(m, dest, dmax, src, n, stops)

safe_strcpyfld(m, dest, dmax, src, slen) == Field(m, dest, dmax, src, slen, slen, FALSE)

\* All the cells up to a 0 or dmax: slen is checked and not used.
safe_strcpyfldin(m, dest, dmax, src, slen) == Field(m, dest, dmax, src, slen, dmax, TRUE)

safe_strcpyfldout(m, dest, dmax, src, slen) ==
    Field(m, dest, dmax, src, slen, IF slen < dmax THEN slen ELSE dmax - 1, FALSE)
-----------------------------------------------------------------------------
\* In place.

safe_strzero(m, dest, dmax) ==
    LET unusable == Unusable(dest, dmax, MaxStr)
    IN IF unusable # "EOK" THEN Kept(m, unusable) ELSE Cleared(m, dest, dmax, "EOK")

\* Returns the length; the errors are not told apart.
safe_strnterminate(m, dest, dmax) ==
    LET n == Length(m, dest, dmax - 1)
    IN IF Unusable(dest, dmax, MaxStr) # "EOK" THEN [mem |-> m, count |-> 0]
       ELSE [mem |-> [m EXCEPT ![dest + n] = 0], count |-> n]

Mapped(f(_), m, dest, dmax) ==
    LET unusable == Unusable(dest, dmax, MaxStr)
        n == Length(m, dest, dmax)
    IN IF unusable # "EOK" THEN Kept(m, unusable)
       ELSE Kept([a \in DOMAIN m |-> IF a \in dest .. dest + n - 1 THEN f(m[a]) ELSE m[a]], "EOK")

safe_strtolowercase(m, dest, dmax) == Mapped(tolower, m, dest, dmax)
safe_strtouppercase(m, dest, dmax) == Mapped(toupper, m, dest, dmax)

\* The blanks at p, at most n; the blanks before p made zeros, down to one that is none.
BlanksFrom(m, p, n) == FirstRound(LAMBDA i : i = n \/ m[p + i] \notin Blank, n)
StripEnd(m, p) ==
    LET n == FirstRound(LAMBDA i : m[p - i - 1] \notin Blank, p)
    IN prim_set_cells(m, p - n, n, 0)

\* The n characters of dest moved over its b blanks, unless there is nothing else;
\* behind them lie blanks.
Shifted(m, dest, n, b) ==
    IF b = 0 \/ b = n THEN m
    ELSE prim_set_cells(CopyBlock(m, dest, dest + b, n - b), dest + n - b, b, 32)

\* finish(shifted, n, b): the memory after the shift.
Justified(finish(_, _, _), m, dest, dmax) ==
    LET unusable == Unusable(dest, dmax, MaxStr)
        n == Length(m, dest, dmax)
        b == BlanksFrom(m, dest, n)
    IN IF unusable # "EOK" THEN Kept(m, unusable)
       ELSE IF m[dest] = 0 \/ dmax = 1 THEN Kept([m EXCEPT ![dest] = 0], "EOK")
       ELSE IF m[dest + n] # 0 THEN Cleared(m, dest, dmax, "ESUNTERM")
       ELSE Kept(finish(Shifted(m, dest, n, b), n, b), "EOK")

safe_strljustify(m, dest, dmax) ==
    Justified(LAMBDA shifted, n, b : IF b = 0 \/ b = n THEN shifted
                                     ELSE [shifted EXCEPT ![dest + n - b] = 0],
              m, dest, dmax)

\* (A string of blanks only makes it go on in front of dest: not called so.)
safe_strremovews(m, dest, dmax) ==
    Justified(LAMBDA shifted, n, b : StripEnd(shifted, dest + n), m, dest, dmax)
-----------------------------------------------------------------------------
\* safe_strtok. The delimiters are a string that is not empty; one of more than
\* MaxDelims is noticed when a character is none of the first.

InDelims(c, delims) ==
    LET i == SelectInSeq(delims, LAMBDA d : d = c)
    IN IF i \in 1 .. MaxDelims THEN "yes" ELSE IF Len(delims) > MaxDelims THEN "lost" ELSE "no"

\* From p, with n cells left, to the first cell that is a delimiter (or is none).
Scan(m, p, n, delims, wanted) ==
    LET i == FirstRound(LAMBDA k : m[p + k] = 0 \/ k = n
                                      \/ InDelims(m[p + k], delims) \in {wanted, "lost"}, n)
    IN [p |-> p + i, n |-> n - i]

Lost(m, scan, delims) ==
    m[scan.p] # 0 /\ (scan.n = 0 \/ InDelims(m[scan.p], delims) = "lost")

Token(m, token, ptr, dmax) == [mem |-> m, token |-> token, ptr |-> ptr, dmax |-> dmax]

\* first and last are where the scans for the begin and the end of the token stopped. At
\* the end of the string ptr stays where it was, only dmax tells that nothing is left.
TokenBetween(m, dmax, delims, ptr, first, last) ==
    IF dmax = 0 \/ dmax > MaxStr THEN Token(m, Null, ptr, dmax)
    ELSE IF Lost(m, first, delims) THEN Token(m, Null, Null, dmax)
    ELSE IF m[first.p] = 0 THEN Token(m, Null, ptr, first.n)
    ELSE IF Lost(m, last, delims) THEN Token(m, Null, Null, dmax)
    ELSE IF m[last.p] = 0 THEN Token(m, first.p, ptr, last.n)
    ELSE Token([m EXCEPT ![last.p] = 0], first.p, last.p + 1, last.n - 1)

TokenFrom(m, dmax, delims, ptr, first) ==
    TokenBetween(m, dmax, delims, ptr, first, Scan(m, first.p + 1, first.n - 1, delims, "yes"))

\* dest = Null: goes on at ptr.
safe_strtok(m, dest, dmax, delims, ptr) ==
    TokenFrom(m, dmax, delims, ptr, Scan(m, IF dest = Null THEN ptr ELSE dest, dmax, delims, "no"))
=============================================================================
