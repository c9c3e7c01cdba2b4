----------------------------- MODULE MCStrings -----------------------------
(***************************************************************************)
(* The walks over inputs: sequence numbers, the contents of a small memory *)
(* of strings, and paths.  Every memory is a state, and in it every call   *)
(* on strings, at every place and with every room.                         *)
(***************************************************************************)
EXTENDS MCPackets, SafeStringQueries

CONSTANTS
    MemoryCells,  \* how many cells the memory of a string walk has
    PathLength,   \* how long the paths are
    Alphabet      \* the characters of the one and of the other

ASSUME WalkAssumption ==
    /\ MemoryCells \in Nat /\ PathLength \in Nat
    /\ Alphabet \in [{"memory", "path"} -> SUBSET Nat]

allvars == <<s1, s2, wraps, win, kind, text>>

MaxText == [memory |-> MemoryCells, path |-> PathLength]

AlgorithmsInit ==
    /\ text = <<>>
    /\ \/ kind = "numbers" /\ Init
       \/ /\ kind \in {"memory", "path"}
          /\ s1 = 0 /\ s2 = 0 /\ wraps = FALSE /\ win = 0

NextNumber == kind = "numbers" /\ StepUp /\ UNCHANGED <<kind, text>>

NextCharacter ==
    /\ kind # "numbers" /\ Len(text) < MaxText[kind]
    /\ \E c \in Alphabet[kind] : text' = Append(text, c)
    /\ UNCHANGED <<s1, s2, wraps, win, kind>>

AlgorithmsSpec == AlgorithmsInit /\ [][NextNumber \/ NextCharacter]_allvars
-----------------------------------------------------------------------------
\* The memory of a text, with an end behind it, and the string at p of it.
MemoryOf(cells) == [a \in 0 .. Len(cells) + 1 |-> IF a < Len(cells) THEN cells[a + 1] ELSE 0]
First(s, n) == SubSeq(s, 1, IF Len(s) < n THEN Len(s) ELSE n)
Blanked(m) == [a \in DOMAIN m |-> IF m[a] = 66 THEN 32 ELSE m[a]]

\* r is what a function that should leave the string s in dest, and is able to where may
\* holds, does to a dest of dmax cells: all of s with its end, or an empty string, never
\* a part of s and nothing outside of dest.
StringKept(m, r, dest, dmax, max, s, may) ==
    /\ Unchanged(m, r.mem, Cells(dest, dmax))
    /\ r.err = "EOK" => Len(s) < dmax /\ StringAt(r.mem, dest) = s
    /\ r.err # "EOK" /\ dmax \in 1 .. max => r.mem[dest] = 0
    /\ may /\ dmax \in 1 .. max /\ Len(s) < dmax => r.err = "EOK"
    /\ r.err = "EOK" /\ r.end # Null => r.end = dest + Len(s)

\* The first n cells of src and then zeros.
FieldKept(m, r, dest, dmax, src, n, may) ==
    /\ Unchanged(m, r.mem, Cells(dest, dmax))
    /\ \A k \in 0 .. dmax - 1 :
          dmax <= MaxStr => r.mem[dest + k] = IF r.err = "EOK" /\ k < n THEN m[src + k] ELSE 0
    /\ may /\ dmax \in 1 .. MaxStr => r.err = "EOK"

\* In place, on a string s that has its end in dest or just behind it.
InPlaceKept(m, r, dest, dmax, s) ==
    /\ Unchanged(m, r.mem, Cells(dest, dmax))
    /\ r.err = "EOK" /\ StringAt(r.mem, dest) = s

Appended(m, r, dest, dmax, max, d, s, may) == StringKept(m, r, dest, dmax, max, d \o s, may)

\* Everything that copies the string s, or slen cells of it, to dest or behind the
\* string d there. Of safe_strcpyfldin with a slen shorter than s only this is said, that
\* it keeps to dest: its "at most slen characters" (safe_strcpyfldin.c:48) is not what
\* its loops do, which look at dmax and the end of s alone.
CopiesStayInside(m, dest, dmax, src, slen, d, s) ==
    LET f == First(s, slen)
        n == IF Len(s) < dmax THEN Len(s) ELSE dmax
        out == IF slen < dmax THEN slen ELSE dmax - 1
        ended == Len(d) < dmax
        Disjoint(k, l) == Cells(dest, k) \cap Cells(src, l) = {}
        Separate(t) == Disjoint(Len(t) + 1, Len(t) + 1)
        Behind(t) == ended /\ Disjoint(Len(d) + Len(t) + 1, Len(t) + 1)
    IN /\ \A r \in {safe_strcpy(m, dest, dmax, src), safe_stpcpy(m, dest, dmax, src)} :
             StringKept(m, r, dest, dmax, MaxStr, s, Separate(s))
       /\ \A r \in {safe_wcscpy(m, dest, dmax, src), safe_wcpcpy(m, dest, dmax, src)} :
             StringKept(m, r, dest, dmax, MaxWide, s, Separate(s))
       /\ StringKept(m, safe_strncpy(m, dest, dmax, src, slen), dest, dmax, MaxStr, f, Separate(f))
       /\ StringKept(m, safe_wcsncpy(m, dest, dmax, src, slen), dest, dmax, MaxWide, f, Separate(f))
       /\ StringKept(m, safe_stpncpy(m, dest, dmax, src, slen), dest, dmax, MaxStr, f,
                     slen < dmax /\ Disjoint(slen + 1, slen + 1))
       /\ Appended(m, safe_strcat(m, dest, dmax, src), dest, dmax, MaxStr, d, s, Behind(s))
       /\ Appended(m, safe_strncat(m, dest, dmax, src, slen), dest, dmax, MaxStr, d, f, Behind(f))
       /\ Appended(m, safe_wcscat(m, dest, dmax, src), dest, dmax, MaxWide, d, s, Behind(s))
       /\ Appended(m, safe_wcsncat(m, dest, dmax, src, slen), dest, dmax, MaxWide, d, f, Behind(f))
       /\ FieldKept(m, safe_strcpyfld(m, dest, dmax, src, slen), dest, dmax, src, slen,
                    slen <= dmax /\ Disjoint(slen, slen))
       /\ LET r == safe_strcpyfldin(m, dest, dmax, src, slen) IN
             /\ Unchanged(m, r.mem, Cells(dest, dmax))
             /\ Len(s) <= slen => FieldKept(m, r, dest, dmax, src, n,
                                            slen <= dmax /\ Disjoint(n, n + 1))
       /\ FieldKept(m, safe_strcpyfldout(m, dest, dmax, src, slen), dest, dmax, src, out,
                    slen <= dmax /\ Disjoint(out, out))

\* What changes the string d in place.
StringStaysInside(m, dest, dmax, d) ==
    LET n == IF Len(d) < dmax THEN Len(d) ELSE dmax - 1
        ended == safe_strnterminate(m, dest, dmax)
    IN /\ ended.count = n /\ InPlaceKept(m, [mem |-> ended.mem, err |-> "EOK"], dest, dmax, First(d, n))
       /\ FieldKept(m, safe_strzero(m, dest, dmax), dest, dmax, dest, 0, TRUE)
       /\ Len(d) <= dmax =>
             /\ InPlaceKept(m, safe_strtolowercase(m, dest, dmax), dest, dmax,
                            [i \in DOMAIN d |-> tolower(d[i])])
             /\ InPlaceKept(m, safe_strtouppercase(m, dest, dmax), dest, dmax,
                            [i \in DOMAIN d |-> toupper(d[i])])

\* What takes the blanks around it from a string that has more than blanks.
TextStaysInside(m, dest, dmax, d) ==
    LET first == SelectInSeq(d, LAMBDA c : c \notin Blank)
        last == SelectLastInSeq(d, LAMBDA c : c \notin Blank)
    IN Len(d) <= dmax /\ dmax > 1 /\ first > 0 =>
          /\ InPlaceKept(m, safe_strljustify(m, dest, dmax), dest, dmax, SubSeq(d, first, Len(d)))
          /\ InPlaceKept(m, safe_strremovews(m, dest, dmax), dest, dmax, SubSeq(d, first, last))

\* Up to three characters, or what even the wide calls take.
SourceLengths == {n \in 1 .. 3 : n <= MaxWide}

\* safe_strcpy.c:45-60 and its relatives: a copy, or what is appended, is all there and
\* ended inside of dest, or the error leaves an empty string; strings that overlap are
\* noticed wherever the ends lie. What changes a string in place keeps to it.
StringCallsStayInside ==
    kind = "memory" /\ Len(text) = MemoryCells =>
        LET m == MemoryOf(text)
            blanked == Blanked(m)
        IN \A dest \in 0 .. MemoryCells - 1 : \A dmax \in 1 .. MemoryCells - dest :
              /\ dmax <= MaxStr =>
                    /\ StringStaysInside(m, dest, dmax, StringAt(m, dest))
                    /\ TextStaysInside(blanked, dest, dmax, StringAt(blanked, dest))
              /\ \A src \in (0 .. MemoryCells - 1) \ {dest}, slen \in SourceLengths :
                    CopiesStayInside(m, dest, dmax, src, slen, StringAt(m, dest), StringAt(m, src))
-----------------------------------------------------------------------------
(* Questions about strings *)

\* Where t occurs in d, as offsets.
Occurrences(t, d) == {i \in 0 .. Len(d) - Len(t) : SubSeq(d, i + 1, i + Len(t)) = t}
SignOf(n) == IF n < 0 THEN -1 ELSE IF n > 0 THEN 1 ELSE 0
Least(offsets, r, from) ==
    IF offsets = {} THEN r.err = "ESNOTFND"
    ELSE r.err = "EOK" /\ r.value = from + Min(offsets)

LengthsAgree(m, dest, dmax, d) ==
    LET n == IF Len(d) < dmax THEN Len(d) ELSE dmax
    IN /\ safe_strnlen(m, dest, dmax) = n
       /\ safe_wcsnlen(m, dest, dmax) = IF dmax <= MaxWide THEN n ELSE 0

\* What the comparisons of d and s say, and that they say it both ways.
Comparisons(m, dest, dmax, src, d, s) ==
    LET upper == [a \in DOMAIN m |-> toupper(m[a])]
        there == safe_strcmp(m, dest, dmax, src, 0).value
        back == safe_strcmp(m, src, dmax, dest, 0).value
        common == 1 .. IF Len(d) < Len(s) THEN Len(d) ELSE Len(s)
        diff == safe_strfirstdiff(m, dest, dmax, src, 0)
        lastdiff == safe_strlastdiff(m, dest, dmax, src, 0)
        same == safe_strfirstsame(m, dest, dmax, src, 0)
        lastsame == safe_strlastsame(m, dest, dmax, src, 0)
    IN /\ (there = 0) <=> (d = s)
       /\ SignOf(there) = -SignOf(back)
       /\ safe_strcasecmp(m, dest, dmax, src, 0) = safe_strcmp(upper, dest, dmax, src, 0)
       /\ src .. src + dmax \subseteq DOMAIN m /\ safe_strcmpfld(m, dest, dmax, src, 0).value = 0 =>
             \A k \in 0 .. dmax - 1 : m[dest + k] = m[src + k]
       /\ (safe_strprefix(m, dest, dmax, src) = "EOK") <=> (s # <<>> /\ IsPrefix(s, d))
       /\ (diff.err = "ESNODIFF") <=> (IsPrefix(s, d) \/ IsPrefix(d, s))
       /\ diff.err = "EOK" =>
             /\ First(d, diff.value) = First(s, diff.value)
             /\ d[diff.value + 1] # s[diff.value + 1]
             /\ SignOf(there) = SignOf(d[diff.value + 1] - s[diff.value + 1])
             /\ lastdiff.value >= diff.value
             /\ \A i \in common : i > lastdiff.value + 1 => d[i] = s[i]
       /\ (same.err = "ESNOTFND") <=> (\A i \in common : d[i] # s[i])
       /\ same.err = "EOK" =>
             \A i \in common : d[i] = s[i] => i - 1 \in same.value .. lastsame.value

\* Where s, its first slen characters or one of them is in d. (A string that is looked for in
\* itself is found at once. safe_strpbrk, for which slen is the "restricted length" of s
\* too, safe_strpbrk.c:63, is asked only where that is no restriction: it looks at all of s.)
Searches(m, dest, dmax, src, slen, d, s) ==
    LET f == First(s, slen)
        upper == [a \in DOMAIN m |-> toupper(m[a])]
        spn == safe_strspn(m, dest, dmax, src, slen, 0).value
        cspn == safe_strcspn(m, dest, dmax, src, slen, 0).value
        found == safe_strstr(m, dest, dmax, src, slen, 0)
        among == {i - 1 : i \in {j \in DOMAIN d : d[j] \in ToSet(s)}}
    IN /\ dest # src => Least(Occurrences(f, d), found, dest)
       /\ safe_strcasestr(m, dest, dmax, src, slen, 0)
             = safe_strstr(upper, dest, dmax, src, slen, 0)
       /\ ToSet(First(d, spn)) \subseteq ToSet(f) /\ ToSet(First(d, cspn)) \cap ToSet(f) = {}
       /\ spn < Len(d) => d[spn + 1] \notin ToSet(f)
       /\ cspn < Len(d) => d[cspn + 1] \in ToSet(f)
       /\ Len(s) <= slen => Least(among, safe_strpbrk(m, dest, dmax, src, slen, 0), dest)

\* What the tests of a whole string say of each other, and of the letters it has.
Classes(m, dest, dmax, d) ==
    LET lowered == safe_strtolowercase(m, dest, dmax).mem
        raised == safe_strtouppercase(m, dest, dmax).mem
        mixed == safe_strismixedcase(m, dest, dmax)
        digits == safe_strisdigit(m, dest, dmax)
        alphanumeric == safe_strisalphanumeric(m, dest, dmax)
    IN /\ safe_strislowercase(lowered, dest, dmax) <=> mixed
       /\ safe_strisuppercase(raised, dest, dmax) <=> mixed
       /\ safe_strisascii(m, dest, dmax) <=> ToSet(d) \subseteq 0 .. 127
       /\ mixed \/ digits \/ safe_strishex(m, dest, dmax) => alphanumeric
       /\ digits => safe_strishex(m, dest, dmax) /\ ~mixed
       /\ safe_strispassword(m, dest, dmax) => safe_strisascii(m, dest, dmax) /\ ~alphanumeric

\* Where a character is.
CharacterFound(m, dest, dmax, c, d) ==
    LET here == {i - 1 : i \in {j \in DOMAIN d : d[j] = c}}
        last == safe_strlastchar(m, dest, dmax, c, 0)
    IN /\ Least(here, safe_strfirstchar(m, dest, dmax, c, 0), dest)
       /\ IF here = {} THEN last.err = "ESNOTFND" ELSE last = Answer("EOK", dest + Max(here))

\* safe_strcmp.c:45-60, safe_strstr.c:43-70 and the other queries: on strings that end
\* within dmax they agree with each other and with what they are about: equal is equal
\* both ways, a prefix leaves no difference, the first place is the first.
QueriesAgreeWithStrings ==
    kind = "memory" /\ Len(text) = MemoryCells =>
        LET m == MemoryOf(text) IN
        \A dest \in 0 .. MemoryCells - 1 : \A dmax \in 1 .. MemoryCells - dest :
            LET d == StringAt(m, dest) IN
            dmax <= MaxStr =>
                /\ LengthsAgree(m, dest, dmax, d)
                /\ Len(d) < dmax =>
                      /\ Classes(m, dest, dmax, d)
                      /\ \A c \in Alphabet["memory"] \ {0} : CharacterFound(m, dest, dmax, c, d)
                      /\ \A src \in 0 .. MemoryCells - 1 :
                            LET s == StringAt(m, src) IN
                            /\ Len(s) < dmax => Comparisons(m, dest, dmax, src, d, s)
                            /\ \A slen \in SourceLengths : Searches(m, dest, dmax, src, slen, d, s)
=============================================================================
