------------------------------- MODULE Printf -------------------------------
(***************************************************************************)
(* _vsnprintf (printf.cpp, segger/tiny_printf.c): the loop over a format,  *)
(* whose characters go one by one to an output function.                   *)
(*   "buffer"  _out_buffer: os_sprintf, os_snprintf, os_vsnprintf          *)
(*   "rtt"     _out_fct with _StoreChar (segger/SEGGER_RTT_printf.c), that *)
(*             collects characters and gives them to SEGGER_RTT_Write, in  *)
(*             mode "SKIP", "TRIM" or "BLOCK" (module Rtt).                *)
(***************************************************************************)
EXTENDS Formats

CONSTANTS
    Directives,       \* bound: Directives[sink][n] may come n-th in a format
    BufferLengths,    \* the sizes of the caller's buffer
    RttBufferSize     \* SEGGER_RTT_PRINTF_BUFFER_SIZE

Nul == "\\0"

ASSUME PrintfAssumption ==
    /\ BufferLengths \subseteq Nat
    /\ RttBufferSize \in Nat \ {0}
    /\ DOMAIN Directives = {"buffer", "rtt"}

VARIABLES
    sink,      \* the output function
    maxlen,    \* the size of the buffer ("buffer")
    mode,      \* the mode of the up-buffer ("rtt")
    seen,      \* how many directives have been evaluated
    todo,      \* what the current directive still has to put out
    last,      \* that directive, and all it puts out
    text,      \* everything put out so far; its length is idx
    buffer,    \* the caller's buffer
    desc,      \* SEGGER_RTT_PRINTF_DESC; characters are positions in text
    sent,      \* what SEGGER_RTT_Write has accepted
    returned

vars == <<sink, maxlen, mode, seen, todo, last, text, buffer, desc, sent, returned>>

Nothing == [d |-> [spec |-> "none"], idx |-> 0, field |-> <<>>]

Init ==
    /\ sink \in {"buffer", "rtt"}
    /\ maxlen \in (IF sink = "buffer" THEN BufferLengths ELSE {0})
    /\ mode \in (IF sink = "buffer" THEN {"SKIP"} ELSE {"SKIP", "TRIM", "BLOCK"})
    /\ seen = 0 /\ todo = <<>> /\ last = Nothing /\ text = <<>>
    /\ buffer = [k \in 0 .. maxlen - 1 |-> Garbage]
    /\ desc = [cnt |-> <<>>, ret |-> 0]
    /\ sent = <<>>
    /\ returned = FALSE

\* The next directive of the format, or an ordinary character.
Evaluate(d) ==
    /\ ~returned /\ todo = <<>>
    /\ seen' = seen + 1
    /\ todo' = Field(d, Len(text))
    /\ last' = [d |-> d, idx |-> Len(text), field |-> todo']
    /\ UNCHANGED <<sink, maxlen, mode, text, buffer, desc, sent, returned>>

\* Mutant of Stored: the last byte is not kept for the termination.
StoredBeyond(c, idx) == [k \in DOMAIN buffer \cup {idx} |-> IF k = idx THEN c ELSE buffer[k]]

\* _out_buffer
Stored(c, idx) == IF idx < maxlen THEN [buffer EXCEPT ![idx] = c] ELSE buffer

OutBuffer ==
    /\ sink = "buffer" /\ todo # <<>>
    /\ buffer' = Stored(Head(todo), Len(text))
    /\ text' = Append(text, Head(todo))
    /\ todo' = Tail(todo)
    /\ UNCHANGED <<sink, maxlen, mode, seen, last, desc, sent, returned>>

\* SEGGER_RTT_Write of p.  In blocking mode it accepts all of it; if that
\* does not fit, nothing when skipping and the beginning when trimming.
Accepts(p) ==
    CASE mode = "BLOCK" -> {p}
      [] mode = "SKIP" -> {p, <<>>}
      [] mode = "TRIM" -> Prefixes(p)

\* Mutant of Written: the buffer is not emptied.
WrittenTwice(d, w) == [d EXCEPT !.ret = IF w = d.cnt THEN @ ELSE -1]

\* What a write of the whole buffer, of which w was accepted, leaves: all of
\* the buffer, unless all was accepted.
Written(d, w) == IF w = d.cnt THEN [d EXCEPT !.cnt = <<>>] ELSE [d EXCEPT !.ret = -1]

\* write_buffer and _StoreChar.  A full buffer is written, and if that fails
\* it stays full: the next characters are lost, and each tries again, with
\* what has been accepted already too.
StoreChar(at) ==
    LET fits == Len(desc.cnt) < RttBufferSize
        d == IF fits THEN [cnt |-> Append(desc.cnt, at), ret |-> desc.ret + 1] ELSE desc
    IN  \/ /\ Len(d.cnt) < RttBufferSize
           /\ desc' = d /\ sent' = sent
        \/ /\ Len(d.cnt) = RttBufferSize
           /\ \E w \in Accepts(d.cnt) : desc' = Written(d, w) /\ sent' = sent \o w

OutRtt ==
    /\ sink = "rtt" /\ todo # <<>>
    /\ StoreChar(Len(text) + 1)
    /\ text' = Append(text, Head(todo))
    /\ todo' = Tail(todo)
    /\ UNCHANGED <<sink, maxlen, mode, seen, last, buffer, returned>>

Returns == ~returned /\ todo = <<>> /\ returned' = TRUE

\* The terminating zero of a buffer, and os_snprintf's return of idx.
Terminate ==
    /\ sink = "buffer" /\ Returns
    /\ buffer' = IF maxlen = 0 THEN buffer ELSE Stored(Nul, Min({Len(text), maxlen - 1}))
    /\ UNCHANGED <<sink, maxlen, mode, seen, todo, last, text, desc, sent>>

\* The end of SEGGER_RTT_vprintf: the rest of the buffer is written, if the
\* count of characters has not become -1, or 0 again after that.  What it
\* adds to the count is left out.
Flush ==
    /\ sink = "rtt" /\ Returns
    /\ \E w \in (IF desc.ret > 0 THEN Accepts(desc.cnt) ELSE {<<>>}) : sent' = sent \o w
    /\ UNCHANGED <<sink, maxlen, mode, seen, todo, last, text, buffer, desc>>

Next ==
    \/ \E n \in {seen + 1} \cap DOMAIN Directives[sink] : \E d \in Directives[sink][n] : Evaluate(d)
    \/ OutBuffer \/ OutRtt \/ Terminate \/ Flush

Spec == Init /\ [][Next]_vars

(***************************************************************************)
(* Properties.                                                             *)
(***************************************************************************)

\* However long the output and however small the buffer, os_snprintf leaves
\* the beginning of what it would have put out, ended by a zero, and touches
\* nothing beyond: the offset runs on past the end of the buffer.
Truncates ==
    LET n == Min({Len(text), maxlen - 1})
    IN  /\ DOMAIN buffer = 0 .. maxlen - 1
        /\ returned /\ maxlen > 0 => buffer[n] = Nul /\ \A k \in 1 .. n : buffer[k - 1] = text[k]

\* The number that a field shows: its digits, and a sign before the first.
Shows(field, base) ==
    LET digit(c) == CHOOSE k \in 0 .. 15 : c \in {Digits[k + 1], UpperDigits[k + 1]}
        digits == SelectSeq(field, LAMBDA c : c \in ToSet(Digits) \cup ToSet(UpperDigits))
        n == FoldLeft(LAMBDA m, c : m * base + digit(c), 0, digits)
    IN  IF "-" \in ToSet(field) THEN -n ELSE n

\* The length of a number without its sign and padding.
Natural(d) ==
    Len(SelectSeq(Field([d EXCEPT !.width = 0, !.flags = {}, !.precision = IF d.spec = "f" THEN @ ELSE {}], 0),
                  LAMBDA c : c # "-"))

\* Where the sign or the prefix takes the place of a digit: a number as long
\* as its field (%2d of -12 is "-2"), or one shorter, if it is to have 0x.
Crowded(d) ==
    \/ Natural(d) = Width(d) /\ ({"PLUS", "SPACE"} \cap d.flags # {} \/ d.arg < 0)
    \/ "HASH" \in d.flags /\ {Natural(d), Natural(d) + 1} \cap ({Width(d)} \cup d.precision) # {}

\* Where a halfway fraction of nines is rounded up to one digit more (%.1f
\* of 0.95): no rollover, and zeros fill the buffer instead of the number.
Nines(d) ==
    LET unit == 10 ^ (IF d.precision = {} THEN 6 ELSE Precision(d))
    IN  2 * (Magnitude(d.arg) % Denominator) * unit = Denominator * (2 * unit - 1)

\* Where the place of a digit is to be taken and there is none (%+.0d of 0,
\* and %-+.3d, where the flag - leaves out the zeros).
Runaway(d) ==
    /\ d.spec = "d" /\ Cut(d) = 0 /\ d.width = 0 /\ d.precision # {}
    /\ Precision(d) = 0 \/ "LEFT" \in d.flags
    /\ {"PLUS", "SPACE"} \cap d.flags # {}

\* Integers read back as the argument, cut to its length, and floats as a
\* decimal next to it: nothing is lost between the zeros, the sign and the
\* padding, and the field is as wide as it must be, but for the three cases
\* above and for a left-justified float, padded from the wrong column.  The
\* third is the only one in which memory beyond the work buffer is read.
NumbersReadBack ==
    LET d == last.d
    IN  /\ Garbage \in ToSet(last.field) <=> Runaway(d)
        /\ d.spec \in {"d", "u", "x", "X", "o", "b", "p"} /\ ~Crowded(d) /\ ~Runaway(d) =>
               Shows(last.field, Base(d.spec)) = Cut(d) /\ Len(last.field) >= Width(d)
        /\ d.spec = "f" /\ ~Crowded(d) /\ ~Nines(d) =>
               LET unit == 10 ^ (IF d.precision = {} THEN 6 ELSE Precision(d))
                   off == Shows(last.field, 10) * Denominator - d.arg * unit
               IN  /\ 2 * Magnitude(off) <= Denominator
                   /\ \/ Len(last.field) >= Width(d)
                      \/ "LEFT" \in Flags(d) /\ last.idx > 0

\* What follows s[k] is the beginning of a bulk buffer once more: a part of
\* it, shorter than the buffer, was the last that had been accepted.
Resent(s, k) ==
    \E j \in 1 .. k :
        /\ k - j + 1 < RttBufferSize
        /\ s[k + 1] = s[j]
        /\ \A i \in j .. k - 1 : s[i + 1] = s[i] + 1

\* What os_printf sends to the probe arrives in order and no character
\* twice, although a full buffer is written again and again; but in trim
\* mode the beginning of a buffer that was accepted in part comes again, and
\* again, with the characters that follow.  In blocking mode nothing is
\* missing in the end.
SentInOrder ==
    /\ \A k \in 1 .. Len(sent) - 1 : sent[k] < sent[k + 1] \/ (mode = "TRIM" /\ Resent(sent, k))
    /\ sink = "rtt" /\ mode = "BLOCK" /\ returned => Len(sent) = Len(text)

=============================================================================
