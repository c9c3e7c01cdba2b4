----------------------------- MODULE SafeFormats -----------------------------
(***************************************************************************)
(* safe_snprintf_support.c: the conversions a format asks for, read before *)
(* snprintf is called with one or two arguments.  A format is a sequence   *)
(* of characters, which are strings here, without its 0.                   *)
(***************************************************************************)
EXTENDS Integers, Sequences, SequencesExt

MAX_FORMAT_ELEMENTS == 16
Digits == {"0", "1", "2", "3", "4", "5", "6", "7", "8", "9"}
Flags == {"#", "0", "-", " ", "+"}

CharAt(format, i) == IF i <= Len(format) THEN format[i] ELSE "end"

RECURSIVE PastDigits(_, _)
PastDigits(format, i) ==
    IF CharAt(format, i) \in Digits THEN PastDigits(format, i + 1) ELSE i

\* i is behind the percent sign: past one flag, the width and the precision.
PastWidth(format, i) ==
    LET width == PastDigits(format, IF CharAt(format, i) \in Flags THEN i + 1 ELSE i)
    IN IF CharAt(format, width) = "." THEN PastDigits(format, width + 1) ELSE width

\* The length modifier and where the letter is: behind it, but for "L".
Modifier(format, i) ==
    LET c == CharAt(format, i)
        twice == CharAt(format, i + 1) = c
    IN CASE c \in {"h", "l"} /\ twice -> [lmod |-> IF c = "h" THEN "H" ELSE "d", at |-> i + 2]
         [] c \in {"h", "l"} /\ ~twice -> [lmod |-> c, at |-> i + 1]
         [] c = "L" -> [lmod |-> "L", at |-> i]
         [] c \in {"j", "z", "t"} -> [lmod |-> " ", at |-> i + 1]
         [] OTHER -> [lmod |-> " ", at |-> i]

\* What is recorded for a letter; "none" for "m" and a letter that is not known. A long
\* long is recorded as an int.
Recorded(c, lmod) ==
    CASE c = "c" -> IF lmod = "l" THEN "FMT_WCHAR" ELSE "FMT_CHAR"
      [] c \in {"d", "i", "o", "u", "x", "X"} ->
            (CASE lmod = "H" -> "FMT_CHAR" [] lmod = "l" -> "FMT_LONG"
               [] lmod = "h" -> "FMT_SHORT" [] OTHER -> "FMT_INT")
      [] c \in {"e", "E", "f", "F", "g", "G", "a", "A"} ->
            IF lmod = "L" THEN "FMT_LDOUBLE" ELSE "FMT_DOUBLE"
      [] c = "s" -> IF lmod \in {"l", "L"} THEN "FMT_WSTRING" ELSE "FMT_STRING"
      [] c = "p" -> "FMT_VOID"
      [] c = "n" ->
            (CASE lmod = "H" -> "FMT_PCHAR" [] lmod = "l" -> "FMT_PLONG"
               [] lmod = "h" -> "FMT_PSHORT" [] OTHER -> "FMT_PINT")
      [] OTHER -> "none"

\* A percent sign behind another one is looked at once more, as the begin of a conversion.
\* The loop goes on at a letter that is not known.
RECURSIVE Conversions(_, _, _)
Conversions(format, i, found) ==
    LET start == CharAt(format, i + 1)
        modifier == Modifier(format, PastWidth(format, i + 1))
        c == CharAt(format, modifier.at)
        kind == Recorded(c, modifier.lmod)
    IN IF i > Len(format) \/ Len(found) = MAX_FORMAT_ELEMENTS THEN found
       ELSE IF format[i] # "%" \/ start \in {"%", "end"} THEN Conversions(format, i + 1, found)
       ELSE IF kind # "none" THEN Conversions(format, modifier.at + 1, Append(found, kind))
       ELSE Conversions(format, IF c = "m" THEN modifier.at + 1 ELSE modifier.at, found)

parse_format(format) == Conversions(format, 1, <<>>)

\* check_integer_format
IntKinds == {"FMT_CHAR", "FMT_SHORT", "FMT_INT"}

\* One check for each argument, in their order; only then snprintf is called.
FormatChecked(format, wanted) ==
    LET found == parse_format(format)
    IN IF Len(found) # Len(wanted) THEN "ESBADFMT"
       ELSE IF \A i \in DOMAIN wanted : found[i] \in wanted[i] THEN "EOK" ELSE "ESFMTTYP"

snprintf_s_i(format) == FormatChecked(format, <<IntKinds>>)
snprintf_s_l(format) == FormatChecked(format, << {"FMT_LONG"} >>)
snprintf_s_si(format) == FormatChecked(format, << {"FMT_STRING"}, IntKinds >>)
snprintf_s_sl(format) == FormatChecked(format, << {"FMT_STRING"}, {"FMT_LONG"} >>)
=============================================================================
