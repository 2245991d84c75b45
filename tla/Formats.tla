------------------------------ MODULE Formats ------------------------------
(***************************************************************************)
(* The conversions of os_printf (printf.cpp; segger/tiny_printf.c is the   *)
(* same code with another prefix) as operators: what a conversion puts     *)
(* out, as a sequence of characters.  A directive                          *)
(*     %[flags][width][.precision][length]specifier                        *)
(* and its argument are a record; the scanning of its text is left out.    *)
(***************************************************************************)
EXTENDS Integers, SequencesExt

CONSTANTS
    BufferSize,   \* PRINTF_NTOA_BUFFER_SIZE and PRINTF_FTOA_BUFFER_SIZE
    SizeMax,      \* SIZE_MAX, what a size_t of 0 becomes when it is decremented
    ShortSize, CharSize,  \* 2^16 and 2^8: what h and hh cut a number to
    Denominator   \* a %f argument is a number of parts of 1 / Denominator

ASSUME FormatsAssumption ==
    /\ {BufferSize, SizeMax, Denominator} \subseteq Nat \ {0}
    /\ SizeMax > BufferSize
    /\ {ShortSize, CharSize} \subseteq {2 ^ k : k \in 1 .. 16}

Digits == <<"0", "1", "2", "3", "4", "5", "6", "7", "8", "9", "a", "b", "c", "d", "e", "f">>
UpperDigits == [Digits EXCEPT ![11] = "A", ![12] = "B", ![13] = "C", ![14] = "D", ![15] = "E", ![16] = "F"]

Garbage == "?"    \* what happens to be in memory

Times(c, n) == [k \in 1 .. n |-> c]
PadTo(s, n, c) == s \o Times(c, n - Len(s))
Pushed(s, c) == IF Len(s) < BufferSize THEN Append(s, c) ELSE s
Dropped(s, n) == SubSeq(s, 1, Len(s) - n)

(***************************************************************************)
(* Numbers.  The work buffer holds them the last digit first.              *)
(***************************************************************************)

\* The loop that divides by the base, value /= base.
DigitsOf(value, base, names) ==
    LET q[k \in 1 .. BufferSize + 1] == IF k = 1 THEN value ELSE q[k - 1] \div base
        n == Min({k \in 1 .. BufferSize : q[k + 1] = 0 \/ k = BufferSize})
    IN  [k \in 1 .. n |-> names[(q[k] % base) + 1]]

SignOf(negative, flags) ==
    IF negative THEN "-" ELSE IF "PLUS" \in flags THEN "+" ELSE IF "SPACE" \in flags THEN " " ELSE ""

\* "len--" without a look at what it was: below 0 the length wraps, and the
\* buffer seems to hold all the memory.
Shortened(s) == IF s = <<>> THEN Times(Garbage, SizeMax) ELSE Dropped(s, 1)

\* "handle sign": in a full field it takes the place of the first digit.
Signed(s, negative, width, flags) ==
    LET sign == SignOf(negative, flags)
    IN  IF sign = "" THEN s
        ELSE Pushed(IF Len(s) = width THEN Shortened(s) ELSE s, sign)

\* The field: padded with spaces to the left, the buffer reversed, padded
\* to the right where that begins at column.
Laid(s, column, width, flags) ==
    LET left == IF {"LEFT", "ZEROPAD"} \cap flags = {} THEN Times(" ", width - Len(s)) ELSE <<>>
        field == left \o Reverse(s)
    IN  IF "LEFT" \in flags THEN PadTo(field, width - column, " ") ELSE field

\* "pad leading zeros", of _ntoa_format and, with prec = 0, of _ftoa.
Zeros(s, prec, width, flags) ==
    LET upTo(n, t) == PadTo(t, Min({n, BufferSize}), "0")
    IN  IF "LEFT" \in flags THEN s
        ELSE IF "ZEROPAD" \in flags THEN upTo(width, upTo(prec, s)) ELSE upTo(prec, s)

\* "handle hash": 0x or 0, in the place of digits if the field is full.
Prefixed(s, base, prec, width, flags) ==
    LET full == Len(s) \in {prec, width} /\ Len(s) > 0
        room == IF full THEN Dropped(s, IF base = 16 THEN Min({2, Len(s)}) ELSE 1) ELSE s
        x == IF "UPPERCASE" \in flags THEN "X" ELSE "x"
    IN  IF "HASH" \notin flags THEN s
        ELSE Pushed(IF base = 16 THEN Pushed(room, x) ELSE room, "0")

\* _ntoa_format
NtoaFormat(s, negative, base, prec, width, flags) ==
    Laid(Signed(Prefixed(Zeros(s, prec, width, flags), base, prec, width, flags),
                negative, width, flags),
         0, width, flags)

\* _ntoa_long and _ntoa_long_long
NtoaLong(value, negative, base, prec, width, flags) ==
    NtoaFormat(IF "PRECISION" \in flags /\ value = 0 THEN <<>>
               ELSE DigitsOf(value, base, IF "UPPERCASE" \in flags THEN UpperDigits ELSE Digits),
               negative, base, prec, width, flags)

\* Rounding to prec digits, tmp being the fraction times 10^prec: "if
\* halfway, round up if odd, OR if last digit is 0" (the whole fraction).
Rounded(tmp, prec) ==
    LET frac == tmp \div Denominator
        diff == 2 * (tmp % Denominator)
    IN  IF diff > Denominator THEN frac + 1
        ELSE IF diff = Denominator /\ (frac = 0 \/ frac % 2 = 1) THEN frac + 1
        ELSE frac

\* Mutant of Fraction: "add extra 0s" is missing.
FractionUnpadded(frac, prec) == Pushed(DigitsOf(frac, 10, Digits), ".")

\* The fraction: its digits, zeros up to prec, the point.  One digit too
\* many makes the counter of the zeros wrap, and they fill the buffer.
Fraction(frac, prec) ==
    LET s == DigitsOf(frac, 10, Digits)
    IN  Pushed(PadTo(s, IF Len(s) > prec THEN BufferSize ELSE prec, "0"), ".")

\* _ftoa of value / Denominator, its field beginning at offset idx of the
\* output; prec <= 9.  Only diff > 0.5 rolls over into the whole part.
Ftoa(idx, value, negative, prec, width, flags) ==
    LET tmp == (value % Denominator) * 10 ^ prec
        frac == Rounded(tmp, prec)
        rolls == frac >= 10 ^ prec /\ 2 * (tmp % Denominator) > Denominator
        whole == value \div Denominator + (IF rolls THEN 1 ELSE 0)
        rest == value - whole * Denominator
        up == 2 * rest > Denominator \/ (2 * rest = Denominator /\ whole % 2 = 1)
        fraction == IF prec = 0 THEN <<>> ELSE Fraction(IF rolls THEN 0 ELSE frac, prec)
        number == DigitsOf(IF prec = 0 /\ up THEN whole + 1 ELSE whole, 10, Digits)
        s == SubSeq(fraction \o number, 1, Min({BufferSize, Len(fraction \o number)}))
    IN  Laid(Signed(Zeros(s, 0, width, flags), negative, width, flags), idx, width, flags)

(***************************************************************************)
(* Directives.                                                             *)
(***************************************************************************)

\* "evaluate flags" to "evaluate precision field": a negative width given
\* by * is the flag -.  d.precision is {} or the set of one number.
Flags(d) ==
    d.flags \cup (IF d.width < 0 THEN {"LEFT"} ELSE {})
            \cup (IF d.precision # {} THEN {"PRECISION"} ELSE {})
Width(d) == IF d.width < 0 THEN -d.width ELSE d.width
Precision(d) == IF d.precision = {} THEN 0 ELSE Max(d.precision)

Base(spec) == CASE spec \in {"x", "X", "p"} -> 16 [] spec = "o" -> 8 [] spec = "b" -> 2 [] OTHER -> 10

\* The flags an integer conversion heeds.
IntegerFlags(d) ==
    (Flags(d) \cup (IF d.spec = "X" THEN {"UPPERCASE"} ELSE {}))
        \ ((IF d.spec \in {"b", "d", "u"} THEN {"HASH"} ELSE {})
            \cup (IF d.spec = "d" THEN {} ELSE {"PLUS", "SPACE"}))

\* The length field: h and hh cut the argument, h to a signed number for d.
\* hh casts to char, which is unsigned on ARM: %hhd of -5 is 251.
Cut(d) ==
    LET size == IF d.length = "hh" THEN CharSize ELSE ShortSize
        low == d.arg % size
    IN  IF d.length = "" THEN d.arg
        ELSE IF d.spec = "d" /\ d.length = "h" /\ 2 * low >= size THEN low - size ELSE low

Magnitude(n) == IF n < 0 THEN -n ELSE n

IntegerField(d) ==
    NtoaLong(Magnitude(Cut(d)), Cut(d) < 0, Base(d.spec), Precision(d), Width(d), IntegerFlags(d))

\* %p: eight upper-case digits.
PointerField(d) ==
    NtoaLong(d.arg, FALSE, 16, Precision(d), 8, Flags(d) \cup {"ZEROPAD", "UPPERCASE"})

Spaced(s, width, flags) ==
    IF "LEFT" \in flags THEN PadTo(s, width, " ") ELSE Times(" ", width - Len(s)) \o s

\* %c, and %s of which a precision shows the beginning.
CharField(d) == Spaced(<<d.arg>>, Width(d), Flags(d))
StringField(d) ==
    Spaced(IF "PRECISION" \in Flags(d) THEN SubSeq(d.arg, 1, Min({Precision(d), Len(d.arg)})) ELSE d.arg,
           Width(d), Flags(d))

\* %f, six digits if no precision is given.
FloatField(d, idx) ==
    Ftoa(idx, Magnitude(d.arg), d.arg < 0,
         IF "PRECISION" \in Flags(d) THEN Precision(d) ELSE 6, Width(d), Flags(d))

\* What a directive puts out at offset idx: "evaluate specifier".
Field(d, idx) ==
    CASE d.spec \in {"d", "u", "x", "X", "o", "b"} -> IntegerField(d)
      [] d.spec = "p" -> PointerField(d)
      [] d.spec = "f" -> FloatField(d, idx)
      [] d.spec = "c" -> CharField(d)
      [] d.spec = "s" -> StringField(d)
      [] d.spec = "literal" -> <<d.arg>>

=============================================================================
