---------------------------- MODULE PrintfProofs ----------------------------
(***************************************************************************)
(* For every format, every buffer size and every size of the bulk buffer:  *)
(* what reaches the caller's buffer is the beginning of the output, ended  *)
(* by a zero, and what reaches the probe is in order, but for what is sent *)
(* again in trim mode.  What a conversion puts out does not matter here:   *)
(* any characters will do.                                                 *)
(***************************************************************************)
EXTENDS Printf, SequenceTheorems, TLAPS

-----------------------------------------------------------------------------
(***************************************************************************)
(* Sequences whose elements we know nothing about, and increasing ones.    *)
(***************************************************************************)

\* Any character may be put out after a text.
LEMMA AppendAny ==
    ASSUME NEW S, NEW s \in Seq(S), NEW e
    PROVE  /\ Append(s, e) \in Seq(S \cup {e})
           /\ Len(Append(s, e)) = Len(s) + 1
           /\ \A k \in 1 .. Len(s) : Append(s, e)[k] = s[k]
           /\ Append(s, e)[Len(s) + 1] = e
<1>1. s \in Seq(S \cup {e}) /\ e \in S \cup {e}
  BY SeqMonotonic
<1>. QED  BY <1>1, AppendProperties

\* The positions in the output that a sequence of them up to n names, in
\* order.
Ascending(s, n) ==
    /\ s \in Seq(1 .. n)
    /\ \A j, k \in DOMAIN s : j < k => s[j] < s[k]

\* A character put out after n others comes behind them.
LEMMA AscendingAppend ==
    ASSUME NEW n \in Nat, NEW s, Ascending(s, n)
    PROVE  Ascending(Append(s, n + 1), n + 1)
<1>. DEFINE a == Append(s, n + 1)
<1>1. s \in Seq(1 .. n) /\ s \in Seq(1 .. n + 1) /\ Len(s) \in Nat
  <2>1. s \in Seq(1 .. n)
    BY DEF Ascending
  <2>2. 1 .. n \subseteq 1 .. n + 1
    OBVIOUS
  <2>. QED  BY <2>1, <2>2, SeqMonotonic, LenProperties
<1>2. n + 1 \in 1 .. n + 1
  OBVIOUS
<1>3. /\ a \in Seq(1 .. n + 1) /\ Len(a) = Len(s) + 1
      /\ \A k \in 1 .. Len(s) : a[k] = s[k]
      /\ a[Len(s) + 1] = n + 1
  BY <1>1, <1>2, AppendProperties
<1>4. \A k \in 1 .. Len(s) : s[k] \in 1 .. n
  BY <1>1, ElementOfSeq
<1>5. DOMAIN s = 1 .. Len(s) /\ DOMAIN a = 1 .. Len(s) + 1
  BY <1>1, <1>3, LenProperties
<1>6. \A j, k \in 1 .. Len(s) : j < k => s[j] < s[k]
  BY <1>5 DEF Ascending
<1>. HIDE DEF a
<1>7. ASSUME NEW j \in 1 .. Len(s) + 1, NEW k \in 1 .. Len(s) + 1, j < k
      PROVE  a[j] < a[k]
  <2>1. j \in 1 .. Len(s) /\ a[j] = s[j]
    BY <1>1, <1>3, <1>7
  <2>2. CASE k = Len(s) + 1
    BY <2>1, <2>2, <1>3, <1>4
  <2>3. CASE k # Len(s) + 1
    <3>1. k \in 1 .. Len(s) /\ a[k] = s[k]
      BY <2>3, <1>1, <1>3
    <3>. QED  BY <2>1, <3>1, <1>6, <1>7
  <2>. QED  BY <2>2, <2>3
<1>8. Ascending(a, n + 1)
  BY <1>3, <1>5, <1>7 DEF Ascending
<1>. QED  BY <1>8 DEF a

\* Also if what it comes behind is in two parts.
LEMMA AscendingAppendToSecond ==
    ASSUME NEW n \in Nat, NEW s \in Seq(1 .. n), NEW c \in Seq(1 .. n),
           Ascending(s \o c, n)
    PROVE  Ascending(s \o Append(c, n + 1), n + 1)
<1>. DEFINE T == 1 .. n + 1
            e == n + 1
<1>1. 1 .. n \subseteq T /\ e \in T
  OBVIOUS
<1>2. Ascending(Append(s \o c, e), e)
  BY AscendingAppend
<1>. HIDE DEF T, e
<1>3. s \in Seq(T) /\ c \in Seq(T) /\ <<e>> \in Seq(T)
  BY <1>1, SeqMonotonic
<1>4. s \o c \in Seq(T)
  BY <1>3, ConcatProperties
<1>5. Append(s \o c, e) = (s \o c) \o <<e>>
  BY <1>1, <1>4, AppendIsConcat
<1>6. Append(c, e) = c \o <<e>>
  BY <1>1, <1>3, AppendIsConcat
<1>7. (s \o c) \o <<e>> = s \o (c \o <<e>>)
  BY <1>3, ConcatAssociative
<1>8. Ascending(s \o Append(c, e), e)
  BY <1>2, <1>5, <1>6, <1>7
<1>. QED  BY <1>8 DEF e

\* It stays ascending when more is put out.
LEMMA AscendingWiden ==
    ASSUME NEW n \in Nat, NEW s, Ascending(s, n)
    PROVE  Ascending(s, n + 1)
<1>1. s \in Seq(1 .. n) /\ 1 .. n \subseteq 1 .. n + 1
  BY DEF Ascending
<1>2. s \in Seq(1 .. n + 1)
  BY <1>1, SeqMonotonic
<1>. QED  BY <1>2 DEF Ascending

\* The beginning of an ascending sequence is one.
LEMMA AscendingPrefix ==
    ASSUME NEW n \in Nat, NEW s \in Seq(1 .. n), NEW c \in Seq(1 .. n),
           Ascending(s \o c, n)
    PROVE  Ascending(s, n)
<1>1. /\ Len(s \o c) = Len(s) + Len(c)
      /\ \A k \in 1 .. Len(s) + Len(c) : (s \o c)[k] = IF k <= Len(s) THEN s[k] ELSE c[k - Len(s)]
  BY ConcatProperties
<1>2. Len(s) \in Nat /\ Len(c) \in Nat /\ DOMAIN s = 1 .. Len(s)
  BY LenProperties
<1>3. DOMAIN (s \o c) = 1 .. Len(s) + Len(c)
  BY <1>1, LenProperties DEF Ascending
<1>4. \A k \in 1 .. Len(s) : k \in 1 .. Len(s) + Len(c) /\ (s \o c)[k] = s[k]
  BY <1>1, <1>2
<1>5. ASSUME NEW j \in 1 .. Len(s), NEW k \in 1 .. Len(s), j < k
      PROVE  s[j] < s[k]
  <2>1. (s \o c)[j] < (s \o c)[k]
    BY <1>3, <1>4, <1>5 DEF Ascending
  <2>. QED  BY <2>1, <1>4
<1>. QED  BY <1>2, <1>5 DEF Ascending

-----------------------------------------------------------------------------
(***************************************************************************)
(* The caller's buffer.                                                    *)
(***************************************************************************)

\* While the loop runs the buffer holds the beginning of the output.  Only
\* then; the terminating zero takes the place of a character.
BufferInv ==
    /\ maxlen \in Nat
    /\ sink = "rtt" => maxlen = 0
    /\ sink \in {"buffer", "rtt"}
    /\ \E S : text \in Seq(S)
    /\ DOMAIN buffer = 0 .. maxlen - 1
    /\ returned \in BOOLEAN
    /\ returned => todo = <<>>
    /\ ~returned => \A k \in 1 .. Len(text) : k <= maxlen => buffer[k - 1] = text[k]

\* Where the zero goes.
LEMMA EndOfText ==
    ASSUME NEW l \in Nat, NEW m \in Nat, m > 0
    PROVE  /\ Min({l, m - 1}) \in 0 .. m - 1
           /\ Min({l, m - 1}) <= l
<1>1. \E x \in {l, m - 1} : \A y \in {l, m - 1} : x =< y
  OBVIOUS
<1>2. Min({l, m - 1}) \in {l, m - 1} /\ \A y \in {l, m - 1} : Min({l, m - 1}) =< y
  BY <1>1 DEF Min
<1>. QED  BY <1>2

\* The inductive invariant of the buffer holds.
THEOREM BufferInvHolds == Spec => [](BufferInv /\ Truncates)
<1>1. Init => BufferInv /\ Truncates
  <2>. SUFFICES ASSUME Init
                PROVE  BufferInv /\ Truncates
    OBVIOUS
  <2>1. maxlen \in Nat /\ text = <<>> /\ returned = FALSE
    BY PrintfAssumption DEF Init
  <2>2. <<>> \in Seq({}) /\ Len(<<>>) = 0
    OBVIOUS
  <2>3. DOMAIN buffer = 0 .. maxlen - 1
    BY DEF Init
  <2>4. \E S : text \in Seq(S)
    BY <2>1, <2>2
  <2>5. \A k \in 1 .. Len(text) : FALSE
    BY <2>1, <2>2
  <2>6. BufferInv
    BY <2>1, <2>3, <2>4, <2>5 DEF Init, BufferInv
  <2>. QED  BY <2>1, <2>3, <2>6 DEF Truncates
<1>2. BufferInv /\ Truncates /\ [Next]_vars => BufferInv' /\ Truncates'
  <2>. SUFFICES ASSUME BufferInv, Truncates, [Next]_vars
                PROVE  BufferInv' /\ Truncates'
    OBVIOUS
  <2>. USE DEF BufferInv
  <2>1. Len(text) \in Nat
    BY LenProperties
  <2>2. ASSUME NEW d, Evaluate(d)
        PROVE  BufferInv' /\ Truncates'
    BY <2>2 DEF Evaluate, Truncates
  \* Another character: in the buffer it is the last of the beginning.
  <2>3. ASSUME text' = Append(text, Head(todo)), todo # <<>>, buffer' = Stored(Head(todo), Len(text)),
               UNCHANGED <<sink, maxlen, returned>>
        PROVE  BufferInv' /\ Truncates'
    <3>. DEFINE c == Head(todo)
    <3>1. ~returned
      BY <2>3
    <3>2. PICK S : text \in Seq(S)
      OBVIOUS
    <3>3. /\ text' \in Seq(S \cup {c}) /\ Len(text') = Len(text) + 1
          /\ \A k \in 1 .. Len(text) : text'[k] = text[k]
          /\ text'[Len(text) + 1] = c
      BY <3>2, <2>3, AppendAny
    <3>4. /\ DOMAIN buffer' = 0 .. maxlen - 1
          /\ \A i \in 0 .. maxlen - 1 : buffer'[i] = IF i = Len(text) THEN c ELSE buffer[i]
      BY <2>1, <2>3 DEF Stored
    <3>. HIDE DEF c
    <3>5. ASSUME NEW k \in 1 .. Len(text) + 1, k <= maxlen
          PROVE  buffer'[k - 1] = text'[k]
      <4>1. k - 1 \in 0 .. maxlen - 1
        BY <3>5, <2>1
      <4>2. CASE k = Len(text) + 1
        BY <4>1, <4>2, <3>3, <3>4, <2>1
      <4>3. CASE k \in 1 .. Len(text)
        BY <4>1, <4>3, <3>1, <3>3, <3>4, <3>5, <2>1
      <4>. QED  BY <4>2, <4>3, <2>1
    <3>. QED  BY <2>3, <3>1, <3>3, <3>4, <3>5 DEF Truncates
  <2>4. CASE OutBuffer
    BY <2>3, <2>4 DEF OutBuffer
  \* To the probe: there is no buffer of the caller's.
  <2>5. CASE OutRtt
    <3>1. maxlen = 0 /\ ~returned /\ text' = Append(text, Head(todo)) /\ todo # <<>>
          /\ UNCHANGED <<sink, maxlen, buffer, returned>>
      BY <2>5 DEF OutRtt
    <3>2. buffer' = Stored(Head(todo), Len(text))
      BY <3>1, <2>1 DEF Stored
    <3>. QED  BY <3>1, <3>2, <2>3
  <2>6. CASE Terminate
    <3>. DEFINE n == Min({Len(text), maxlen - 1})
    <3>1. /\ returned' /\ ~returned /\ todo = <<>> /\ todo' = todo
          /\ UNCHANGED <<sink, maxlen, text>>
          /\ buffer' = IF maxlen = 0 THEN buffer ELSE Stored(Nul, n)
      BY <2>6 DEF Terminate, Returns
    <3>2. CASE maxlen = 0
      BY <3>1, <3>2 DEF Truncates
    <3>3. CASE maxlen # 0
      <4>1. n \in 0 .. maxlen - 1 /\ n <= Len(text)
        BY <3>3, <2>1, EndOfText
      <4>. HIDE DEF n
      <4>2. /\ DOMAIN buffer' = 0 .. maxlen - 1
            /\ \A i \in 0 .. maxlen - 1 : buffer'[i] = IF i = n THEN Nul ELSE buffer[i]
        BY <3>1, <3>3, <4>1 DEF Stored
      <4>3. \A k \in 1 .. n : k - 1 \in 0 .. maxlen - 1 /\ k - 1 # n /\ k \in 1 .. Len(text) /\ k <= maxlen
        BY <4>1, <2>1
      <4>4. \A k \in 1 .. n : buffer'[k - 1] = text'[k]
        BY <4>2, <4>3, <3>1
      <4>5. n' = n
        BY <3>1 DEF n
      <4>6. buffer'[n] = Nul
        BY <4>1, <4>2
      <4>7. Truncates'
        BY <4>2, <4>4, <4>5, <4>6, <3>1 DEF Truncates, n
      <4>. QED  BY <4>2, <4>7, <3>1
    <3>. QED  BY <3>2, <3>3
  <2>7. CASE Flush
    BY <2>7 DEF Flush, Returns, Truncates
  <2>8. CASE UNCHANGED vars
    BY <2>8 DEF vars, Truncates
  <2>. QED  BY <2>2, <2>4, <2>5, <2>6, <2>7, <2>8 DEF Next
<1>. QED  BY <1>1, <1>2, PTL DEF Spec

\* However much is put out and however small the buffer is, os_snprintf
\* leaves the beginning of the output in it, ended by a zero inside.
THEOREM OutputIsTruncated == Spec => []Truncates
BY BufferInvHolds, PTL

-----------------------------------------------------------------------------
(***************************************************************************)
(* The way to the probe: an up-buffer that skips or blocks.                *)
(***************************************************************************)

\* What has been sent and what the bulk buffer holds are, in this order, an
\* ascending sequence of the positions put out.  Retried writes leave gaps
\* in it; in blocking mode every write succeeds, and there are none.
SentInv ==
    /\ mode \in {"SKIP", "BLOCK"}
    /\ Len(text) \in Nat
    /\ \E S : text \in Seq(S)
    /\ desc.cnt \in Seq(1 .. Len(text))
    /\ sent \in Seq(1 .. Len(text))
    /\ desc = [cnt |-> desc.cnt, ret |-> desc.ret]
    /\ returned \in BOOLEAN
    /\ returned => todo = <<>>
    /\ Ascending(sent, Len(text))
    /\ ~returned => Ascending(sent \o desc.cnt, Len(text))
    /\ sink = "rtt" /\ mode = "BLOCK" /\ ~returned =>
           /\ Len(desc.cnt) < RttBufferSize
           /\ desc.ret = Len(text)
           /\ Len(sent) + Len(desc.cnt) = Len(text)
    /\ sink = "rtt" /\ mode = "BLOCK" /\ returned => Len(sent) = Len(text)

\* What SEGGER_RTT_Write may accept, in each mode.
LEMMA AcceptsFacts ==
    ASSUME NEW c
    PROVE  /\ mode \in {"SKIP", "BLOCK"} =>
                  \A w \in Accepts(c) : w = c \/ (mode # "BLOCK" /\ w = <<>>)
           /\ mode = "TRIM" => Accepts(c) = Prefixes(c)
<1>1. CASE mode = "SKIP"
  BY <1>1 DEF Accepts
<1>2. CASE mode = "BLOCK"
  BY <1>2 DEF Accepts
<1>3. CASE mode = "TRIM"
  BY <1>3 DEF Accepts
<1>. QED  BY <1>1, <1>2, <1>3

\* What _StoreChar leaves behind, whether the character fits or not and
\* whether a full buffer is accepted or not.
LEMMA StoreCharFacts ==
    ASSUME NEW n \in Nat, NEW cnt \in Seq(1 .. n), NEW out \in Seq(1 .. n),
           desc = [cnt |-> cnt, ret |-> desc.ret], sent = out,
           Ascending(out \o cnt, n),
           mode \in {"SKIP", "BLOCK"},
           StoreChar(n + 1)
    PROVE  /\ desc' = [cnt |-> desc'.cnt, ret |-> desc'.ret]
           /\ desc'.cnt \in Seq(1 .. n + 1)
           /\ sent' \in Seq(1 .. n + 1)
           /\ Ascending(sent' \o desc'.cnt, n + 1)
           /\ mode = "BLOCK" /\ Len(cnt) < RttBufferSize =>
                  /\ Len(desc'.cnt) < RttBufferSize
                  /\ desc'.ret = desc.ret + 1
                  /\ Len(sent') + Len(desc'.cnt) = Len(out) + Len(cnt) + 1
<1>. DEFINE fits == Len(cnt) < RttBufferSize
            new == Append(cnt, n + 1)
            c == IF fits THEN new ELSE cnt
            r == IF fits THEN desc.ret + 1 ELSE desc.ret
            d == [cnt |-> c, ret |-> r]
            T == 1 .. n + 1
<1>0. RttBufferSize \in Nat \ {0} /\ Len(cnt) \in Nat /\ Len(out) \in Nat
  BY PrintfAssumption, LenProperties
<1>1. 1 .. n \subseteq T /\ n + 1 \in T
  OBVIOUS
<1>. HIDE DEF T
<1>2. cnt \in Seq(T) /\ out \in Seq(T)
  BY <1>1, SeqMonotonic
<1>3. new \in Seq(T) /\ Len(new) = Len(cnt) + 1
  BY <1>1, <1>2, AppendProperties
<1>4. /\ c \in Seq(T) /\ Len(c) \in Nat
      /\ fits => c = new /\ Len(c) = Len(cnt) + 1
      /\ ~fits => c = cnt
  <2>1. CASE fits
    BY <2>1, <1>0, <1>3
  <2>2. CASE ~fits
    BY <2>2, <1>0, <1>2
  <2>. QED  BY <2>1, <2>2
<1>. HIDE DEF c, new, fits
<1>4a. ASSUME fits PROVE Len(out) + Len(c) = Len(out) + Len(cnt) + 1
  <2>1. Len(c) = Len(cnt) + 1
    BY <1>4a, <1>4
  <2>. QED  BY <2>1, <1>0
\* A character that does not fit is lost, and one that does comes last.
<1>5. Ascending(out \o c, n + 1)
  <2>1. CASE fits
    <3>1. Ascending(out \o Append(cnt, n + 1), n + 1)
      BY AscendingAppendToSecond
    <3>. QED  BY <3>1, <2>1, <1>4 DEF new
  <2>2. CASE ~fits
    BY <2>2, <1>4, AscendingWiden
  <2>. QED  BY <2>1, <2>2
<1>6. CASE Len(c) < RttBufferSize /\ desc' = d /\ sent' = out
  <2>1. desc' = [cnt |-> c, ret |-> r] /\ desc'.cnt = c /\ desc'.ret = r
    BY <1>6
  <2>2. fits => r = desc.ret + 1
    BY DEF fits, r
  <2>. HIDE DEF r, d
  <2>. QED  BY <2>1, <2>2, <1>4a, <1>6, <1>2, <1>4, <1>5 DEF fits, T
\* A full buffer that is accepted, all of it, moves to what has been sent.
<1>7. CASE Len(c) = RttBufferSize /\ desc' = [d EXCEPT !.cnt = <<>>] /\ sent' = out \o c
  <2>1. desc'.cnt = <<>> /\ desc'.ret = r /\ desc' = [cnt |-> <<>>, ret |-> r]
    BY <1>7
  <2>2. sent' \in Seq(T) /\ Len(sent') = Len(out) + Len(c)
    BY <1>7, <1>2, <1>4, ConcatProperties
  <2>4. sent' \o <<>> = sent'
    BY <2>2, ConcatEmptySeq
  <2>5. fits => r = desc.ret + 1
    BY DEF fits, r
  <2>3. <<>> \in Seq(T) /\ Len(<<>>) = 0
    OBVIOUS
  <2>. HIDE DEF r, d
  <2>. QED  BY <2>1, <2>2, <2>3, <2>4, <2>5, <1>4a, <1>7, <1>0, <1>5 DEF fits, T
\* One that is not stays.
<1>8. CASE Len(c) = RttBufferSize /\ mode # "BLOCK" /\ desc' = [d EXCEPT !.ret = -1] /\ sent' = out \o <<>>
  <2>1. sent' = out
    BY <1>8, ConcatEmptySeq
  <2>2. desc' = [cnt |-> c, ret |-> -1]
    BY <1>8
  <2>3. desc'.cnt = c
    BY <2>2
  <2>. HIDE DEF r, d
  <2>. QED  BY <2>1, <2>2, <2>3, <1>8, <1>2, <1>4, <1>5 DEF T
<1>9. \/ Len(c) < RttBufferSize /\ desc' = d /\ sent' = out
      \/ Len(c) = RttBufferSize /\ \E w \in Accepts(c) : desc' = Written(d, w) /\ sent' = out \o w
  <2>1. desc.cnt = cnt
    OBVIOUS
  <2>2. d = IF fits THEN [cnt |-> Append(desc.cnt, n + 1), ret |-> desc.ret + 1] ELSE desc
    BY <2>1 DEF c, new, fits
  <2>3. d.cnt = c
    OBVIOUS
  <2>. HIDE DEF d
  <2>. QED  BY <2>1, <2>2, <2>3 DEF StoreChar, fits
<1>10. ASSUME Len(c) = RttBufferSize, NEW w \in Accepts(c), desc' = Written(d, w), sent' = out \o w
       PROVE  \/ desc' = [d EXCEPT !.cnt = <<>>] /\ sent' = out \o c
              \/ mode # "BLOCK" /\ desc' = [d EXCEPT !.ret = -1] /\ sent' = out \o <<>>
  <2>1. c # <<>>
    <3>1. Len(<<>>) = 0
      OBVIOUS
    <3>. QED  BY <3>1, <1>0, <1>10
  <2>2. w = c \/ (mode # "BLOCK" /\ w = <<>>)
    BY AcceptsFacts
  <2>. QED  BY <2>1, <2>2, <1>10 DEF Written
<1>. QED  BY <1>6, <1>7, <1>8, <1>9, <1>10

\* The inductive invariant of the bulk buffer holds unless it trims.
THEOREM SentInvHolds == Spec => [](mode # "TRIM" => SentInv)
<1>1. Init => (mode # "TRIM" => SentInv)
  <2>. SUFFICES ASSUME Init, mode # "TRIM"
                PROVE  SentInv
    OBVIOUS
  <2>1. /\ text = <<>> /\ sent = <<>> /\ desc = [cnt |-> <<>>, ret |-> 0]
        /\ returned = FALSE /\ mode \in {"SKIP", "BLOCK"}
    BY DEF Init
  <2>2. Len(<<>>) = 0 /\ <<>> \in Seq({}) /\ <<>> \in Seq(1 .. 0) /\ RttBufferSize > 0
    BY PrintfAssumption
  <2>3. <<>> \o <<>> = <<>>
    BY ConcatEmptySeq, <2>2
  <2>4. Ascending(<<>>, 0)
    BY <2>2 DEF Ascending
  <2>5. \E S : text \in Seq(S)
    BY <2>1, <2>2
  <2>6. desc.cnt = <<>> /\ desc.ret = 0 /\ desc = [cnt |-> desc.cnt, ret |-> desc.ret]
    BY <2>1
  <2>7. Len(text) = 0 /\ Len(sent) = 0 /\ Len(desc.cnt) = 0 /\ sent \o desc.cnt = <<>>
    BY <2>1, <2>2, <2>3, <2>6
  <2>8. Ascending(sent, Len(text)) /\ Ascending(sent \o desc.cnt, Len(text))
    BY <2>1, <2>4, <2>7
  <2>9. desc.cnt \in Seq(1 .. Len(text)) /\ sent \in Seq(1 .. Len(text))
    BY <2>1, <2>2, <2>6, <2>7
  <2>10. /\ Len(text) \in Nat /\ Len(desc.cnt) < RttBufferSize
         /\ desc.ret = Len(text) /\ Len(sent) + Len(desc.cnt) = Len(text)
    <3>1. RttBufferSize \in Nat
      BY PrintfAssumption
    <3>. QED  BY <3>1, <2>2, <2>6, <2>7
  <2>. QED  BY <2>1, <2>5, <2>6, <2>8, <2>9, <2>10 DEF SentInv
<1>2. (mode # "TRIM" => SentInv) /\ [Next]_vars => (mode # "TRIM" => SentInv)'
  <2>0. [Next]_vars => mode' = mode
    BY DEF Next, Evaluate, OutBuffer, OutRtt, Terminate, Flush, vars
  <2>. SUFFICES ASSUME SentInv, [Next]_vars
                PROVE  SentInv'
    BY <2>0
  <2>1. ASSUME NEW d, Evaluate(d)
        PROVE  SentInv'
    BY <2>1 DEF Evaluate, SentInv
  \* Output to a buffer makes the text longer and sends nothing.
  <2>2. CASE OutBuffer
    <3>. DEFINE n == Len(text)
    <3>1. /\ sink = "buffer" /\ todo # <<>> /\ text' = Append(text, Head(todo))
          /\ UNCHANGED <<sink, mode, desc, sent, returned>>
      BY <2>2 DEF OutBuffer
    <3>2. (\E S : text' \in Seq(S)) /\ Len(text') = n + 1 /\ n \in Nat
      BY <3>1, AppendAny DEF SentInv
    <3>3. desc.cnt \in Seq(1 .. n + 1) /\ sent \in Seq(1 .. n + 1)
      <4>1. 1 .. n \subseteq 1 .. n + 1
        BY <3>2
      <4>. QED  BY <4>1, SeqMonotonic DEF SentInv
    <3>4. Ascending(sent, n + 1) /\ (~returned => Ascending(sent \o desc.cnt, n + 1))
      BY <3>2, AscendingWiden DEF SentInv
    <3>. HIDE DEF n
    <3>. QED  BY <3>1, <3>2, <3>3, <3>4 DEF SentInv
  <2>3. CASE OutRtt
    <3>. DEFINE n == Len(text)
    <3>1. /\ sink = "rtt" /\ todo # <<>> /\ text' = Append(text, Head(todo)) /\ ~returned
          /\ UNCHANGED <<sink, mode, returned>>
      BY <2>3 DEF OutRtt, SentInv
    <3>2. (\E S : text' \in Seq(S)) /\ Len(text') = n + 1 /\ n \in Nat
      BY <3>1, AppendAny DEF SentInv
    <3>3. StoreChar(n + 1)
      BY <2>3 DEF OutRtt
    <3>4. /\ desc.cnt \in Seq(1 .. n) /\ sent \in Seq(1 .. n)
          /\ desc = [cnt |-> desc.cnt, ret |-> desc.ret]
          /\ Ascending(sent \o desc.cnt, n) /\ mode \in {"SKIP", "BLOCK"}
      BY <3>1 DEF SentInv
    <3>5. mode = "BLOCK" => /\ Len(desc.cnt) < RttBufferSize /\ desc.ret = n
                            /\ Len(sent) + Len(desc.cnt) = n
      BY <3>1 DEF SentInv
    <3>. HIDE DEF n
    <3>6. /\ desc' = [cnt |-> desc'.cnt, ret |-> desc'.ret]
          /\ desc'.cnt \in Seq(1 .. n + 1)
          /\ sent' \in Seq(1 .. n + 1)
          /\ Ascending(sent' \o desc'.cnt, n + 1)
          /\ mode = "BLOCK" /\ Len(desc.cnt) < RttBufferSize =>
                 /\ Len(desc'.cnt) < RttBufferSize
                 /\ desc'.ret = desc.ret + 1
                 /\ Len(sent') + Len(desc'.cnt) = Len(sent) + Len(desc.cnt) + 1
      BY <3>2, <3>3, <3>4, StoreCharFacts
    <3>7. Ascending(sent', n + 1)
      BY <3>2, <3>6, AscendingPrefix
    <3>8. mode = "BLOCK" => /\ Len(desc'.cnt) < RttBufferSize /\ desc'.ret = n + 1
                            /\ Len(sent') + Len(desc'.cnt) = n + 1
      BY <3>5, <3>6
    <3>. QED  BY <3>1, <3>2, <3>4, <3>6, <3>7, <3>8 DEF SentInv
  <2>4. CASE Terminate
    BY <2>4 DEF Terminate, Returns, SentInv
  \* What is left in the bulk buffer goes out, or nothing does.
  <2>5. CASE Flush
    <3>. DEFINE n == Len(text)
    <3>1. /\ sink = "rtt" /\ ~returned /\ returned' = TRUE /\ todo' = <<>>
          /\ UNCHANGED <<sink, mode, text, desc>>
      BY <2>5 DEF Flush, Returns
    <3>2. PICK w \in (IF desc.ret > 0 THEN Accepts(desc.cnt) ELSE {<<>>}) : sent' = sent \o w
      BY <2>5 DEF Flush
    <3>3. n \in Nat /\ desc.cnt \in Seq(1 .. n) /\ sent \in Seq(1 .. n) /\ Ascending(sent, n)
          /\ Ascending(sent \o desc.cnt, n)
      BY <3>1 DEF SentInv
    <3>4. Len(sent) \in Nat /\ Len(desc.cnt) \in Nat
      BY <3>3, LenProperties
    <3>5. mode = "BLOCK" => desc.ret = n /\ Len(sent) + Len(desc.cnt) = n
      BY <3>1 DEF SentInv
    <3>. HIDE DEF n
    <3>6. CASE w = desc.cnt
      <4>1. sent' \in Seq(1 .. n) /\ Len(sent') = Len(sent) + Len(desc.cnt)
        BY <3>2, <3>3, <3>6, ConcatProperties
      <4>. QED  BY <4>1, <3>1, <3>2, <3>3, <3>5, <3>6 DEF SentInv, n
    <3>7. CASE w = <<>> /\ (mode = "BLOCK" => desc.ret = 0)
      <4>1. sent' = sent
        BY <3>2, <3>3, <3>7, ConcatEmptySeq
      <4>2. mode = "BLOCK" => Len(sent) = n
        BY <3>4, <3>5, <3>7
      <4>. QED  BY <4>1, <4>2, <3>1, <3>3 DEF SentInv, n
    <3>8. w = desc.cnt \/ (w = <<>> /\ (mode = "BLOCK" => desc.ret = 0))
      <4>1. mode \in {"SKIP", "BLOCK"}
        BY DEF SentInv
      <4>. QED  BY <4>1, <3>2, <3>5, AcceptsFacts
    <3>. QED  BY <3>6, <3>7, <3>8
  <2>6. CASE UNCHANGED vars
    BY <2>6 DEF vars, SentInv
  <2>. QED  BY <2>1, <2>2, <2>3, <2>4, <2>5, <2>6 DEF Next
<1>. QED  BY <1>1, <1>2, PTL DEF Spec

-----------------------------------------------------------------------------
(***************************************************************************)
(* The way to the probe: an up-buffer that trims.                          *)
(***************************************************************************)

\* Each position comes behind the one before it, or again.
Orderly(s) == \A k \in 1 .. Len(s) - 1 : s[k] < s[k + 1] \/ Resent(s, k)

\* The bulk buffer holds consecutive positions, up to the last of n; only a
\* full one lags behind.
Pending(c, n) ==
    /\ c \in Seq(1 .. n)
    /\ Len(c) <= RttBufferSize
    /\ \A i \in 1 .. Len(c) - 1 : c[i + 1] = c[i] + 1
    /\ c # <<>> /\ Len(c) < RttBufferSize => c[Len(c)] = n

\* It comes behind what has been sent, or it is full and that ends with a
\* part of it.
Behind(s, c) ==
    s # <<>> /\ c # <<>> =>
        \/ s[Len(s)] < c[1]
        \/ /\ Len(c) = RttBufferSize
           /\ \E m \in 1 .. Len(c) - 1 :
                  m <= Len(s) /\ \A i \in 1 .. m : s[Len(s) - m + i] = c[i]

TrimInv ==
    /\ sink = "rtt"
    /\ Len(text) \in Nat
    /\ \E S : text \in Seq(S)
    /\ desc = [cnt |-> desc.cnt, ret |-> desc.ret]
    /\ returned \in BOOLEAN
    /\ returned => todo = <<>>
    /\ sent \in Seq(1 .. Len(text))
    /\ Orderly(sent)
    /\ ~returned => Pending(desc.cnt, Len(text)) /\ Behind(sent, desc.cnt)

\* Any beginning of the bulk buffer may be sent, and if it is not all of a
\* full one the rest is still behind it.
LEMMA SendPrefix ==
    ASSUME NEW n \in Nat, NEW s \in Seq(1 .. n), NEW c, NEW w \in Prefixes(c),
           Orderly(s), Pending(c, n), Behind(s, c)
    PROVE  /\ s \o w \in Seq(1 .. n)
           /\ Orderly(s \o w)
           /\ Len(c) = RttBufferSize /\ w # c => Behind(s \o w, c)
<1>. DEFINE t == s \o w
<1>0. RttBufferSize \in Nat /\ c \in Seq(1 .. n) /\ Len(c) \in Nat /\ Len(s) \in Nat
  BY PrintfAssumption, LenProperties DEF Pending
<1>1. PICK l \in 0 .. Len(c) : w = SubSeq(c, 1, l)
  BY DEF Prefixes
<1>2. /\ w \in Seq(1 .. n) /\ Len(w) = l
      /\ \A i \in 1 .. l : w[i] = c[i]
  <2>1. \A i \in 1 .. l : i \in 1 .. Len(c) /\ c[i] \in 1 .. n
    BY <1>0, <1>1, ElementOfSeq
  <2>. QED  BY <1>0, <1>1, <2>1, SubSeqProperties
<1>3. /\ t \in Seq(1 .. n) /\ Len(t) = Len(s) + l
      /\ \A k \in 1 .. Len(s) : t[k] = s[k]
      /\ \A i \in 1 .. l : t[Len(s) + i] = c[i]
  <2>1. /\ t \in Seq(1 .. n) /\ Len(t) = Len(s) + l
        /\ \A k \in 1 .. Len(s) + l : t[k] = IF k <= Len(s) THEN s[k] ELSE w[k - Len(s)]
    BY <1>2, ConcatProperties
  <2>. HIDE DEF t
  <2>2. ASSUME NEW k \in 1 .. Len(s) PROVE t[k] = s[k]
    BY <1>0, <2>1
  <2>3. ASSUME NEW i \in 1 .. l PROVE t[Len(s) + i] = c[i]
    <3>. DEFINE k == Len(s) + i
    <3>1. k \in 1 .. Len(s) + l /\ ~(k <= Len(s)) /\ k - Len(s) = i
      BY <1>0
    <3>2. t[k] = w[k - Len(s)]
      <4>. HIDE DEF k
      <4>. QED  BY <3>1, <2>1
    <3>3. t[k] = w[i]
      BY <3>1, <3>2
    <3>. QED  BY <3>3, <1>2
  <2>. QED  BY <2>1, <2>2, <2>3
<1>4. \A k \in 1 .. Len(s) : s[k] \in Int
  BY <1>0, ElementOfSeq
<1>5. \A k \in 1 .. Len(c) : c[k] \in Int
  BY <1>0, ElementOfSeq
<1>. HIDE DEF t
<1>6. ASSUME NEW k \in 1 .. Len(t) - 1
      PROVE  t[k] < t[k + 1] \/ Resent(t, k)
  <2>0. k \in Nat /\ k >= 1 /\ k < Len(s) + l /\ l \in Nat /\ l <= Len(c)
    BY <1>0, <1>1, <1>3
  <2>1. CASE k < Len(s)
    <3>0. k \in 1 .. Len(s) - 1 /\ k \in 1 .. k + 1 /\ k + 1 \in 1 .. k + 1
          /\ \A i \in 1 .. k + 1 : i \in 1 .. Len(s)
      BY <1>0, <2>0, <2>1
    <3>1. \A i \in 1 .. k + 1 : t[i] = s[i]
      BY <3>0, <1>3
    <3>2. CASE s[k] < s[k + 1]
      BY <3>0, <3>1, <3>2
    <3>3. CASE Resent(s, k)
      <4>1. PICK j \in 1 .. k : /\ k - j + 1 < RttBufferSize
                                /\ s[k + 1] = s[j]
                                /\ \A i \in j .. k - 1 : s[i + 1] = s[i] + 1
        BY <3>3 DEF Resent
      <4>2. \A i \in j .. k - 1 : i \in 1 .. k + 1 /\ i + 1 \in 1 .. k + 1
        BY <2>0
      <4>3. \A i \in j .. k - 1 : t[i + 1] = t[i] + 1
        BY <4>1, <4>2, <3>1
      <4>4. t[k + 1] = t[j]
        <5>1. j \in 1 .. k + 1
          BY <2>0
        <5>. QED  BY <5>1, <3>0, <3>1, <4>1
      <4>5. Resent(t, k)
        BY <4>1, <4>3, <4>4 DEF Resent
      <4>. QED  BY <4>5
    <3>. QED  BY <3>0, <3>2, <3>3 DEF Orderly
  <2>2. CASE k = Len(s)
    <3>1. t[k] = s[Len(s)] /\ t[k + 1] = c[1]
      BY <1>0, <1>3, <2>0, <2>2
    <3>2. s # <<>> /\ c # <<>>
      BY <1>0, <2>0, <2>2, EmptySeq
    <3>3. CASE s[Len(s)] < c[1]
      BY <3>1, <3>3
    <3>4. ASSUME NEW m \in 1 .. Len(c) - 1, Len(c) = RttBufferSize, m <= Len(s),
                 \A i \in 1 .. m : s[Len(s) - m + i] = c[i]
          PROVE  Resent(t, k)
      <4>. DEFINE j == Len(s) - m + 1
      <4>1. j \in 1 .. k /\ k - j + 1 = m /\ m < RttBufferSize
        BY <1>0, <2>2, <3>4
      <4>2. t[k + 1] = t[j]
        <5>1. 1 \in 1 .. m /\ j \in 1 .. Len(s)
          BY <1>0, <2>2, <4>1
        <5>2. s[j] = c[1]
          BY <5>1, <3>4
        <5>. HIDE DEF j
        <5>. QED  BY <5>1, <5>2, <3>1, <1>3
      <4>3. ASSUME NEW i \in j .. k - 1
            PROVE  t[i + 1] = t[i] + 1
        <5>. DEFINE q == i - (Len(s) - m)
        <5>1. /\ q \in 1 .. m /\ q + 1 \in 1 .. m /\ q \in 1 .. Len(c) - 1
              /\ Len(s) - m + q = i /\ Len(s) - m + (q + 1) = i + 1
              /\ i \in 1 .. Len(s) /\ i + 1 \in 1 .. Len(s)
          BY <1>0, <2>2, <3>4, <4>1
        <5>. HIDE DEF q, j
        <5>2. s[i] = c[q] /\ s[i + 1] = c[q + 1]
          BY <5>1, <3>4
        <5>3. c[q + 1] = c[q] + 1
          BY <5>1 DEF Pending
        <5>. QED  BY <5>1, <5>2, <5>3, <1>3
      <4>. HIDE DEF j
      <4>. QED  BY <4>1, <4>2, <4>3 DEF Resent
    <3>. QED  BY <3>2, <3>3, <3>4 DEF Behind
  <2>3. CASE k > Len(s)
    <3>. DEFINE q == k - Len(s)
    <3>1. q \in 1 .. Len(c) - 1 /\ q \in 1 .. l /\ q + 1 \in 1 .. l /\ q \in 1 .. Len(c)
          /\ Len(s) + q = k /\ Len(s) + (q + 1) = k + 1
      BY <1>0, <2>0, <2>3
    <3>. HIDE DEF q
    <3>2. c[q + 1] = c[q] + 1
      BY <3>1 DEF Pending
    <3>3. t[k] = c[q] /\ t[k + 1] = c[q + 1] /\ c[q] \in Int
      BY <3>1, <1>3, <1>5
    <3>. QED  BY <3>2, <3>3
  <2>. QED  BY <1>0, <2>0, <2>1, <2>2, <2>3
<1>7. ASSUME Len(c) = RttBufferSize, w # c
      PROVE  Behind(t, c)
  <2>1. l < Len(c)
    <3>1. l = Len(c) => w = c
      BY <1>0, <1>1, <1>2, SeqEqual
    <3>. QED  BY <3>1, <1>0, <1>1, <1>7
  <2>2. CASE l = 0
    <3>1. w = <<>>
      BY <2>2, <1>2, EmptySeq
    <3>. QED  BY <3>1, ConcatEmptySeq DEF t
  <2>3. CASE l # 0
    <3>1. l \in 1 .. Len(c) - 1 /\ l <= Len(t)
      BY <1>0, <1>1, <1>3, <2>1, <2>3
    <3>2. \A i \in 1 .. l : t[Len(t) - l + i] = c[i]
      <4>1. Len(t) - l = Len(s)
        BY <1>0, <1>1, <1>3
      <4>. QED  BY <4>1, <1>3
    <3>. QED  BY <3>1, <3>2, <1>7 DEF Behind
  <2>. QED  BY <2>2, <2>3
<1>. QED  BY <1>3, <1>6, <1>7 DEF Orderly, t

\* The bulk buffer takes a character more, which is behind all before it.
LEMMA PendingAppend ==
    ASSUME NEW n \in Nat, NEW s \in Seq(1 .. n), NEW c,
           Pending(c, n), Behind(s, c), Len(c) < RttBufferSize
    PROVE  Pending(Append(c, n + 1), n + 1) /\ Behind(s, Append(c, n + 1))
<1>. DEFINE a == Append(c, n + 1)
<1>0. RttBufferSize \in Nat /\ c \in Seq(1 .. n) /\ Len(c) \in Nat /\ Len(s) \in Nat
  BY PrintfAssumption, LenProperties DEF Pending
<1>1. c \in Seq(1 .. n + 1) /\ n + 1 \in 1 .. n + 1
  <2>1. 1 .. n \subseteq 1 .. n + 1
    OBVIOUS
  <2>. QED  BY <2>1, <1>0, SeqMonotonic
<1>2. /\ a \in Seq(1 .. n + 1) /\ Len(a) = Len(c) + 1
      /\ \A k \in 1 .. Len(c) : a[k] = c[k]
      /\ a[Len(c) + 1] = n + 1
  BY <1>1, AppendProperties
<1>. HIDE DEF a
<1>3. c # <<>> => Len(c) > 0 /\ c[Len(c)] = n
  BY <1>0, EmptySeq DEF Pending
<1>4. ASSUME NEW i \in 1 .. Len(a) - 1
      PROVE  a[i + 1] = a[i] + 1
  <2>1. CASE i = Len(c)
    <3>1. c # <<>>
      BY <1>0, <2>1, <1>4, EmptySeq
    <3>. QED  BY <3>1, <2>1, <1>0, <1>2, <1>3
  <2>2. CASE i # Len(c)
    <3>1. i \in 1 .. Len(c) - 1 /\ i \in 1 .. Len(c) /\ i + 1 \in 1 .. Len(c)
      BY <2>2, <1>0, <1>2
    <3>2. c[i + 1] = c[i] + 1
      BY <3>1 DEF Pending
    <3>. QED  BY <3>1, <3>2, <1>2
  <2>. QED  BY <2>1, <2>2
<1>5. Pending(a, n + 1)
  BY <1>0, <1>2, <1>4 DEF Pending
<1>6. ASSUME s # <<>>
      PROVE  s[Len(s)] < a[1]
  <2>1. Len(s) > 0 /\ s[Len(s)] \in 1 .. n
    BY <1>0, <1>6, EmptySeq, ElementOfSeq
  <2>2. CASE c = <<>>
    <3>1. Len(c) = 0
      BY <2>2
    <3>. QED  BY <3>1, <2>1, <1>2
  <2>3. CASE c # <<>>
    <3>1. a[1] = c[1]
      BY <2>3, <1>0, <1>2, <1>3
    <3>. QED  BY <3>1, <2>3, <1>6, <1>0 DEF Behind
  <2>. QED  BY <2>2, <2>3
<1>7. Behind(s, a)
  BY <1>6 DEF Behind
<1>. QED  BY <1>5, <1>7 DEF a

\* A full one takes no more, and lags behind.
LEMMA PendingLags ==
    ASSUME NEW n \in Nat, NEW c, Pending(c, n), ~(Len(c) < RttBufferSize)
    PROVE  Pending(c, n + 1)
<1>1. c \in Seq(1 .. n) /\ 1 .. n \subseteq 1 .. n + 1
  BY DEF Pending
<1>2. c \in Seq(1 .. n + 1)
  BY <1>1, SeqMonotonic
<1>. QED  BY <1>2 DEF Pending

\* An empty one is behind anything.
LEMMA PendingEmpty ==
    ASSUME NEW n \in Nat, NEW s
    PROVE  Pending(<<>>, n) /\ Behind(s, <<>>)
<1>1. <<>> \in Seq(1 .. n) /\ Len(<<>>) = 0 /\ RttBufferSize \in Nat
  BY PrintfAssumption, EmptySeq
<1>. QED  BY <1>1 DEF Pending, Behind

\* What _StoreChar leaves behind when the up-buffer trims.
LEMMA StoreCharTrims ==
    ASSUME NEW n \in Nat, NEW out \in Seq(1 .. n), mode = "TRIM", sent = out,
           desc = [cnt |-> desc.cnt, ret |-> desc.ret],
           Orderly(out), Pending(desc.cnt, n), Behind(out, desc.cnt),
           StoreChar(n + 1)
    PROVE  /\ desc' = [cnt |-> desc'.cnt, ret |-> desc'.ret]
           /\ sent' \in Seq(1 .. n + 1)
           /\ Orderly(sent')
           /\ Pending(desc'.cnt, n + 1) /\ Behind(sent', desc'.cnt)
<1>. DEFINE fits == Len(desc.cnt) < RttBufferSize
            d == IF fits THEN [cnt |-> Append(desc.cnt, n + 1), ret |-> desc.ret + 1] ELSE desc
            c == d.cnt
<1>1. Pending(c, n + 1) /\ Behind(out, c)
  <2>1. CASE fits
    <3>1. c = Append(desc.cnt, n + 1)
      BY <2>1
    <3>. QED  BY <3>1, <2>1, PendingAppend
  <2>2. CASE ~fits
    BY <2>2, PendingLags
  <2>. QED  BY <2>1, <2>2
<1>2. d = [cnt |-> c, ret |-> d.ret]
  OBVIOUS
<1>3. out \in Seq(1 .. n + 1) /\ n + 1 \in Nat
  <2>1. 1 .. n \subseteq 1 .. n + 1
    OBVIOUS
  <2>. QED  BY <2>1, SeqMonotonic
<1>4. \/ desc' = d /\ sent' = out
      \/ Len(c) = RttBufferSize /\ \E w \in Accepts(c) : desc' = Written(d, w) /\ sent' = out \o w
  BY DEF StoreChar
<1>. HIDE DEF d, c
<1>5. CASE desc' = d /\ sent' = out
  <2>1. d.cnt = c
    BY DEF c
  <2>. QED  BY <2>1, <1>1, <1>2, <1>3, <1>5
<1>6. ASSUME Len(c) = RttBufferSize, NEW w \in Accepts(c), desc' = Written(d, w), sent' = out \o w
      PROVE  /\ desc' = [cnt |-> desc'.cnt, ret |-> desc'.ret]
             /\ sent' \in Seq(1 .. n + 1)
             /\ Orderly(sent')
             /\ Pending(desc'.cnt, n + 1) /\ Behind(sent', desc'.cnt)
  <2>1. /\ sent' \in Seq(1 .. n + 1) /\ Orderly(sent')
        /\ w # c => Behind(sent', c)
    <3>1. w \in Prefixes(c)
      BY <1>6, AcceptsFacts
    <3>. QED  BY <3>1, <1>1, <1>3, <1>6, SendPrefix
  <2>2. CASE w = c
    <3>1. desc' = [d EXCEPT !.cnt = <<>>]
      BY <2>2, <1>6 DEF Written, c
    <3>2. desc' = [cnt |-> <<>>, ret |-> d.ret]
      BY <3>1, <1>2
    <3>3. desc'.cnt = <<>>
      BY <3>2
    <3>. QED  BY <2>1, <3>2, <3>3, <1>3, PendingEmpty
  <2>3. CASE w # c
    <3>1. desc' = [d EXCEPT !.ret = -1]
      BY <2>3, <1>6 DEF Written, c
    <3>2. desc' = [cnt |-> c, ret |-> -1]
      BY <3>1, <1>2
    <3>3. desc'.cnt = c
      BY <3>2
    <3>. QED  BY <2>1, <2>3, <3>2, <3>3, <1>1
  <2>. QED  BY <2>2, <2>3
<1>. QED  BY <1>4, <1>5, <1>6

\* The inductive invariant of the bulk buffer holds when it trims.
THEOREM TrimInvHolds == Spec => [](mode = "TRIM" => TrimInv)
<1>1. Init => (mode = "TRIM" => TrimInv)
  <2>. SUFFICES ASSUME Init, mode = "TRIM"
                PROVE  TrimInv
    OBVIOUS
  <2>1. /\ text = <<>> /\ sent = <<>> /\ desc = [cnt |-> <<>>, ret |-> 0]
        /\ returned = FALSE
    BY DEF Init
  <2>2. sink = "rtt"
    BY DEF Init
  <2>3. <<>> \in Seq({}) /\ <<>> \in Seq(1 .. 0) /\ Len(<<>>) = 0
    BY EmptySeq
  <2>4. \E S : text \in Seq(S)
    BY <2>1, <2>3
  <2>5. desc.cnt = <<>> /\ desc = [cnt |-> desc.cnt, ret |-> desc.ret]
    BY <2>1
  <2>6. Len(text) = 0 /\ sent \in Seq(1 .. Len(text)) /\ Orderly(sent)
    <3>1. Len(text) = 0 /\ Len(sent) = 0
      BY <2>1, <2>3
    <3>. QED  BY <3>1, <2>1, <2>3 DEF Orderly
  <2>7. Pending(desc.cnt, Len(text)) /\ Behind(sent, desc.cnt)
    BY <2>5, <2>6, PendingEmpty
  <2>. QED  BY <2>1, <2>2, <2>4, <2>5, <2>6, <2>7 DEF TrimInv
<1>2. (mode = "TRIM" => TrimInv) /\ [Next]_vars => (mode = "TRIM" => TrimInv)'
  <2>0. [Next]_vars => mode' = mode
    BY DEF Next, Evaluate, OutBuffer, OutRtt, Terminate, Flush, vars
  <2>. SUFFICES ASSUME TrimInv, mode = "TRIM", [Next]_vars
                PROVE  TrimInv'
    BY <2>0
  <2>1. ASSUME NEW d, Evaluate(d)
        PROVE  TrimInv'
    BY <2>1 DEF Evaluate, TrimInv, Orderly, Resent, Pending, Behind
  <2>2. CASE OutBuffer
    BY <2>2 DEF OutBuffer, TrimInv
  <2>3. CASE OutRtt
    <3>. DEFINE n == Len(text)
    <3>1. /\ sink = "rtt" /\ todo # <<>> /\ text' = Append(text, Head(todo)) /\ ~returned
          /\ UNCHANGED <<sink, returned>>
      BY <2>3 DEF OutRtt, TrimInv
    <3>2. (\E S : text' \in Seq(S)) /\ Len(text') = n + 1 /\ n \in Nat
      BY <3>1, AppendAny DEF TrimInv
    <3>3. StoreChar(n + 1)
      BY <2>3 DEF OutRtt
    <3>4. /\ sent \in Seq(1 .. n) /\ Orderly(sent)
          /\ desc = [cnt |-> desc.cnt, ret |-> desc.ret]
          /\ Pending(desc.cnt, n) /\ Behind(sent, desc.cnt)
      BY <3>1 DEF TrimInv
    <3>. HIDE DEF n
    <3>5. /\ desc' = [cnt |-> desc'.cnt, ret |-> desc'.ret]
          /\ sent' \in Seq(1 .. n + 1)
          /\ Orderly(sent')
          /\ Pending(desc'.cnt, n + 1) /\ Behind(sent', desc'.cnt)
      BY <3>2, <3>3, <3>4, StoreCharTrims
    <3>6. Orderly(sent)' /\ Pending(desc.cnt, Len(text))' /\ Behind(sent, desc.cnt)'
      BY <3>2, <3>5 DEF Orderly, Resent, Pending, Behind
    <3>. QED  BY <3>1, <3>2, <3>5, <3>6 DEF TrimInv
  <2>4. CASE Terminate
    BY <2>4 DEF Terminate, TrimInv
  \* The beginning of what is left goes out, or nothing does.
  <2>5. CASE Flush
    <3>. DEFINE n == Len(text)
    <3>1. /\ sink = "rtt" /\ ~returned /\ returned' = TRUE /\ todo' = <<>>
          /\ UNCHANGED <<sink, text, desc>>
      BY <2>5 DEF Flush, Returns
    <3>2. PICK w \in (IF desc.ret > 0 THEN Accepts(desc.cnt) ELSE {<<>>}) : sent' = sent \o w
      BY <2>5 DEF Flush
    <3>3. n \in Nat /\ sent \in Seq(1 .. n) /\ Orderly(sent)
          /\ Pending(desc.cnt, n) /\ Behind(sent, desc.cnt)
      BY <3>1 DEF TrimInv
    <3>. HIDE DEF n
    <3>4. sent' \in Seq(1 .. n) /\ Orderly(sent')
      <4>1. CASE w \in Prefixes(desc.cnt)
        BY <4>1, <3>2, <3>3, SendPrefix
      <4>2. CASE w = <<>>
        BY <4>2, <3>2, <3>3, ConcatEmptySeq
      <4>. QED  BY <4>1, <4>2, <3>2, AcceptsFacts
    <3>5. Orderly(sent)'
      BY <3>4 DEF Orderly, Resent
    <3>. QED  BY <3>1, <3>4, <3>5 DEF TrimInv, n
  <2>6. CASE UNCHANGED vars
    BY <2>6 DEF vars, TrimInv, Orderly, Resent, Pending, Behind
  <2>. QED  BY <2>1, <2>2, <2>3, <2>4, <2>5, <2>6 DEF Next
<1>. QED  BY <1>1, <1>2, PTL DEF Spec

-----------------------------------------------------------------------------
\* What reaches the probe is in the order of the output and nothing comes
\* twice, however often a full bulk buffer is refused; but in trim mode, and
\* only there, the beginning of a full buffer of which a part was accepted
\* comes once more.  In blocking mode everything has come when
\* SEGGER_RTT_vprintf returns.
THEOREM OutputIsInOrder == Spec => []SentInOrder
<1>1. (mode # "TRIM" => SentInv) /\ (mode = "TRIM" => TrimInv) => SentInOrder
  <2>1. CASE mode = "TRIM"
    BY <2>1 DEF TrimInv, Orderly, SentInOrder
  <2>2. ASSUME mode # "TRIM", SentInv
        PROVE  SentInOrder
    <3>1. DOMAIN sent = 1 .. Len(sent) /\ Len(sent) \in Nat
      BY <2>2, LenProperties DEF SentInv
    <3>2. \A k \in 1 .. Len(sent) - 1 : sent[k] < sent[k + 1]
      <4>1. \A k \in 1 .. Len(sent) - 1 : k \in DOMAIN sent /\ k + 1 \in DOMAIN sent /\ k < k + 1
        BY <3>1
      <4>. QED  BY <4>1, <2>2 DEF SentInv, Ascending
    <3>. QED  BY <3>2, <2>2 DEF SentInv, SentInOrder
  <2>. QED  BY <2>1, <2>2
<1>. QED  BY <1>1, SentInvHolds, TrimInvHolds, PTL

=============================================================================
