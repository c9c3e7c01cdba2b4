------------------------- MODULE SafeStringQueries -------------------------
(***************************************************************************)
(* The functions of the string library that look at strings and change     *)
(* nothing: comparing, searching and telling what a string is made of.     *)
(* Most go on while there is a character and dmax is not used up, so they  *)
(* also see the first dmax characters of a string that has no end there.   *)
(* out is the place for the result, Null when the caller gave none.        *)
(***************************************************************************)
EXTENDS SafeStrings

Answer(err, value) == [err |-> err, value |-> value]

\* The checks of the functions on two strings.
PairError(out, dest, src, dmax) ==
    FirstError(<<Check(out = Null \/ dest = Null \/ src = Null, "ESNULLP"),
                  Check(dmax = 0, "ESZEROL"), Check(dmax > MaxStr, "ESLEMAX")>>)

\* while (*p && *q && n)
Both(m, p, q, n) == FirstRound(LAMBDA i : m[p + i] = 0 \/ m[q + i] = 0 \/ i = n, n)

\* The first of the offsets, or end when there is none.
FirstOf(offsets, end) == IF offsets = {} THEN end ELSE Min(offsets)

\* The difference of the first characters that differ, or of those where it stopped.
FirstDifference(f(_), m, dest, dmax, src, length, out) ==
    LET error == PairError(out, dest, src, dmax)
        i == FirstOf({k \in 0 .. length - 1 : f(m[dest + k]) # f(m[src + k])}, length)
    IN IF error # "EOK" THEN Answer(error, 0)
       ELSE Answer("EOK", f(m[dest + i]) - f(m[src + i]))

Same(c) == c

\* Mutant: the end of src is not looked at.
strcmp_dest_only(m, dest, dmax, src, out) ==
    LET n == Length(m, dest, dmax) - 1
    IN FirstDifference(Same, m, dest, dmax, src, IF n < 0 THEN 0 ELSE n, out)

safe_strcmp(m, dest, dmax, src, out) ==
    FirstDifference(Same, m, dest, dmax, src, Both(m, dest, src, dmax), out)
safe_strcasecmp(m, dest, dmax, src, out) ==
    FirstDifference(toupper, m, dest, dmax, src, Both(m, dest, src, dmax), out)

\* Fields have no end but dmax.
safe_strcmpfld(m, dest, dmax, src, out) ==
    FirstDifference(Same, m, dest, dmax, src, dmax, out)

\* The offset, one of those where the strings differ or agree.
Offset(pick(_), offsets, notfound, out, dest, src, dmax) ==
    LET error == PairError(out, dest, src, dmax)
    IN IF error # "EOK" THEN Answer(error, 0)
       ELSE IF offsets = {} THEN Answer(notfound, 0)
       ELSE Answer("EOK", pick(offsets))

Diffs(m, p, q, n) == {k \in 0 .. Both(m, p, q, n) - 1 : m[p + k] # m[q + k]}
Sames(m, p, q, n) == {k \in 0 .. Both(m, p, q, n) - 1 : m[p + k] = m[q + k]}

safe_strfirstdiff(m, dest, dmax, src, out) ==
    Offset(Min, Diffs(m, dest, src, dmax), "ESNODIFF", out, dest, src, dmax)
safe_strlastdiff(m, dest, dmax, src, out) ==
    Offset(Max, Diffs(m, dest, src, dmax), "ESNODIFF", out, dest, src, dmax)
safe_strfirstsame(m, dest, dmax, src, out) ==
    Offset(Min, Sames(m, dest, src, dmax), "ESNOTFND", out, dest, src, dmax)
safe_strlastsame(m, dest, dmax, src, out) ==
    Offset(Max, Sames(m, dest, src, dmax), "ESNOTFND", out, dest, src, dmax)

\* No prefix is empty. (src may go on behind dmax, dest not end before src does.)
safe_strprefix(m, dest, dmax, src) ==
    LET error == PairError(0, dest, src, dmax)
    IN IF error # "EOK" THEN error
       ELSE IF m[src] # 0 /\ \A k \in 0 .. Length(m, src, dmax) - 1 : m[dest + k] = m[src + k]
            THEN "EOK" ELSE "ESNOTFND"
-----------------------------------------------------------------------------
\* Searching.

Found(pick(_), c, m, dest, dmax, out) ==
    LET error == FirstError(<<Check(out = Null \/ dest = Null, "ESNULLP"),
                               Check(dmax = 0, "ESZEROL"), Check(dmax > MaxStr, "ESLEMAX")>>)
        places == {k \in 0 .. Length(m, dest, dmax) - 1 : m[dest + k] = c}
    IN IF error # "EOK" THEN Answer(error, Null)
       ELSE IF places = {} THEN Answer("ESNOTFND", Null)
       ELSE Answer("EOK", dest + pick(places))

safe_strfirstchar(m, dest, dmax, c, out) == Found(Min, c, m, dest, dmax, out)
safe_strlastchar(m, dest, dmax, c, out) == Found(Max, c, m, dest, dmax, out)

\* The order of these checks differs from those on two strings.
SearchError(out, dest, dmax, src, slen) ==
    FirstError(<<Check(out = Null \/ dest = Null, "ESNULLP"), Check(dmax = 0, "ESZEROL"),
                  Check(dmax > MaxStr, "ESLEMAX"), Check(src = Null, "ESNULLP"),
                  Check(slen = 0, "ESZEROL"), Check(slen > MaxStr, "ESLEMAX")>>)

\* The inner loop: all of src, at most slen characters, in the n cells from p on.
\* (strcasestr's looks for the end of dest in place of src's: neither character is a 0
\* where they agree and one is not.)
Begins(f(_), m, p, n, q, slen) ==
    LET length == Length(m, q, slen)
    IN m[q] # 0 /\ length <= n /\ \A i \in 0 .. length - 1 : f(m[p + i]) = f(m[q + i])

Substring(f(_), m, dest, dmax, src, slen, out) ==
    LET error == SearchError(out, dest, dmax, src, slen)
        places == {k \in 0 .. Length(m, dest, dmax) - 1 :
                      Begins(f, m, dest + k, dmax - k, src, slen)}
    IN IF error # "EOK" THEN Answer(error, Null)
       ELSE IF m[src] = 0 \/ dest = src THEN Answer("EOK", dest)
       ELSE IF places = {} THEN Answer("ESNOTFND", Null)
       ELSE Answer("EOK", dest + Min(places))

safe_strstr(m, dest, dmax, src, slen, out) ==
    Substring(Same, m, dest, dmax, src, slen, out)
safe_strcasestr(m, dest, dmax, src, slen, out) ==
    Substring(toupper, m, dest, dmax, src, slen, out)

\* How many characters of dest, from its start, are (or are not) among those of src.
SpanError(out, dest, src, dmax, slen) ==
    FirstError(<<PairError(out, dest, src, dmax),
                  Check(slen = 0, "ESZEROL"), Check(slen > MaxStr, "ESLEMAX")>>)

Chars(m, p, n) == {m[p + k] : k \in 0 .. Length(m, p, n) - 1}
AllChars(m, p) == ToSet(StringAt(m, p))

Span(stop(_), m, dest, dmax, src, slen, out) ==
    LET error == SpanError(out, dest, src, dmax, slen)
        n == Length(m, dest, dmax)
    IN IF error # "EOK" THEN Answer(error, 0)
       ELSE Answer("EOK", FirstOf({k \in 0 .. n - 1 : stop(m[dest + k])}, n))

safe_strspn(m, dest, dmax, src, slen, out) ==
    Span(LAMBDA c : c \notin Chars(m, src, slen), m, dest, dmax, src, slen, out)
safe_strcspn(m, dest, dmax, src, slen, out) ==
    Span(LAMBDA c : c \in Chars(m, src, slen), m, dest, dmax, src, slen, out)

\* All of src, whatever slen is.
safe_strpbrk(m, dest, dmax, src, slen, out) ==
    LET error == SpanError(out, dest, src, dmax, slen)
        places == {k \in 0 .. Length(m, dest, dmax) - 1 :
                      m[dest + k] \in AllChars(m, src)}
    IN IF error # "EOK" THEN Answer(error, Null)
       ELSE IF places = {} THEN Answer("ESNOTFND", Null)
       ELSE Answer("EOK", dest + Min(places))
-----------------------------------------------------------------------------
\* Lengths and classes of strings; an error is a length of 0 or FALSE.

LengthUpTo(max, m, dest, dmax) ==
    IF Unusable(dest, dmax, max) # "EOK" THEN 0 ELSE Length(m, dest, dmax)
safe_strnlen(m, dest, dmax) == LengthUpTo(MaxStr, m, dest, dmax)
safe_wcsnlen(m, dest, dmax) == LengthUpTo(MaxWide, m, dest, dmax)

\* chars are those before dmax, or in three of them all that there are.
MadeOf(class, chars, m, dest, dmax) ==
    Unusable(dest, dmax, MaxStr) = "EOK" /\ m[dest] # 0 /\ chars \subseteq class

safe_strisalphanumeric(m, dest, dmax) ==
    MadeOf(Digit \cup Upper \cup Lower, Chars(m, dest, dmax), m, dest, dmax)
safe_strishex(m, dest, dmax) ==
    MadeOf(Digit \cup 65 .. 70 \cup 97 .. 102, Chars(m, dest, dmax), m, dest, dmax)
safe_strislowercase(m, dest, dmax) == MadeOf(Lower, Chars(m, dest, dmax), m, dest, dmax)
safe_strisdigit(m, dest, dmax) == MadeOf(Digit, AllChars(m, dest), m, dest, dmax)
safe_strismixedcase(m, dest, dmax) == MadeOf(Upper \cup Lower, AllChars(m, dest), m, dest, dmax)
safe_strisuppercase(m, dest, dmax) == MadeOf(Upper, AllChars(m, dest), m, dest, dmax)

\* True of an empty string.
safe_strisascii(m, dest, dmax) ==
    Unusable(dest, dmax, MaxStr) = "EOK" /\ Chars(m, dest, dmax) \subseteq 0 .. 127

CountIn(class, m, p, n) == Quantify(0 .. n - 1, LAMBDA k : m[p + k] \in class)

\* At least two letters of each case, a digit and a special character, nothing else;
\* less than 32 characters in all, although a dmax of 32 is accepted.
safe_strispassword(m, dest, dmax) ==
    LET n == Length(m, dest, dmax) IN
    /\ dest # Null /\ dmax \in 6 .. 32
    /\ n \in 1 .. 31 /\ m[dest + n] = 0
    /\ Chars(m, dest, dmax) \subseteq Digit \cup Upper \cup Lower \cup Special
    /\ CountIn(Digit, m, dest, n) >= 1 /\ CountIn(Special, m, dest, n) >= 1
    /\ CountIn(Lower, m, dest, n) >= 2 /\ CountIn(Upper, m, dest, n) >= 2
=============================================================================
