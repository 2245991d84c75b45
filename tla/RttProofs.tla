------------------------------ MODULE RttProofs ------------------------------
(***************************************************************************)
(* The ring buffers of RTT hold what was written and not read, for every   *)
(* number and size of buffers, every text and every number of callers.     *)
(***************************************************************************)
EXTENDS Rtt, SequenceTheorems, WellFoundedInduction, TLAPS

-----------------------------------------------------------------------------
(***************************************************************************)
(* One ring buffer, and the bytes st it has to hold.                       *)
(***************************************************************************)
Bytes == Chars \cup Terminals \cup {Escape, Blank}
Byte == [b : Bytes, on : Terminals]
Modes == {"SKIP", "TRIM", "BLOCK"}

\* SEGGER_RTT_BUFFER_UP and _DOWN: the offsets are inside the buffer.
IsRing(r) ==
    /\ r.size \in Nat \ {1}
    /\ r \in [buf: [0 .. r.size - 1 -> Bytes], size: Nat, rd: Nat, wr: Nat, flags: Modes]
    /\ r.size # 0 => r.rd < r.size /\ r.wr < r.size

\* What the offsets enclose is st.
Holds(r, st) ==
    /\ Used(r) = Len(st)
    /\ \A k \in 1 .. Len(st) : r.buf[Wrapped(r.rd + k - 1, r.size)] = st[k].b

\* What lies ahead of WrOff is s.
Ahead(r, s) ==
    \A k \in 1 .. Len(s) : r.buf[Wrapped(r.wr + k - 1, r.size)] = s[k].b

\* An offset that is less than two buffers away.
LEMMA WrappedIsMod ==
    ASSUME NEW n \in Nat \ {0}, NEW a \in 0 .. 2 * n - 1
    PROVE  a % n = Wrapped(a, n) /\ Wrapped(a, n) \in 0 .. n - 1
BY DEF Wrapped

\* The bytes between RdOff and WrOff.
Gap(rd, wr, N) == IF rd <= wr THEN wr - rd ELSE wr + N - rd

\* _GetAvailWriteSpace keeps one byte free.
LEMMA RoomOfRing ==
    ASSUME NEW r, IsRing(r), r.size # 0
    PROVE  /\ Used(r) = Gap(r.rd, r.wr, r.size)
           /\ Used(r) \in 0 .. r.size - 1
           /\ AvailWriteSpace(r) = r.size - 1 - Used(r)
           /\ AvailWriteSpace(r) \in 0 .. r.size - 1
<1>1. /\ r.size \in Nat \ {0} /\ r.rd \in 0 .. r.size - 1 /\ r.wr \in 0 .. r.size - 1
  BY DEF IsRing
<1>2. r.wr + r.size - r.rd \in 0 .. 2 * r.size - 1
  BY <1>1
<1>3. Used(r) = Wrapped(r.wr + r.size - r.rd, r.size)
  BY <1>1, <1>2, WrappedIsMod DEF Used
<1>. QED  BY <1>1, <1>3 DEF Wrapped, AvailWriteSpace, Gap

\* What becomes of the distances when RdOff moves by n to e.
Moves(N, rd, wr, n, e) ==
    /\ e \in 0 .. N - 1
    /\ Gap(e, wr, N) = Gap(rd, wr, N) - n
    /\ \A k \in 1 .. Gap(rd, wr, N) - n : Wrapped(e + k - 1, N) = Wrapped(rd + (n + k) - 1, N)
    /\ \A k \in 0 .. N - 1 : Wrapped(rd + k, N) \in 0 .. N - 1
    /\ \A k \in 0 .. N - 1 : Wrapped(Wrapped(rd + k, N) + N - rd, N) = k
    /\ \A k \in 1 .. N - 1 - Gap(rd, wr, N) :
           Wrapped(wr + k - 1, N) = Wrapped(rd + (Gap(rd, wr, N) + k - 1), N)

\* RdOff never gets past WrOff.
LEMMA Distances ==
    ASSUME NEW N \in Nat, N # 0, NEW rd \in 0 .. N - 1, NEW wr \in 0 .. N - 1,
           NEW n \in 0 .. Gap(rd, wr, N)
    PROVE  Moves(N, rd, wr, n, Wrapped(rd + n, N))
<1>1. Wrapped(rd + n, N) = IF rd + n >= N THEN rd + n - N ELSE rd + n
  BY DEF Wrapped
<1>. QED  BY <1>1 DEF Wrapped, Moves, Gap

\* The reader, or the other side, takes the oldest bytes.
LEMMA DrainedRing ==
    ASSUME NEW r, IsRing(r), r.size # 0, NEW st \in Seq(Byte), Holds(r, st),
           NEW n \in 0 .. Len(st), NEW d, d = Drained(r, n)
    PROVE  /\ IsRing(d) /\ d.size = r.size /\ d.wr = r.wr /\ d.flags = r.flags
           /\ Holds(d, SubSeq(st, n + 1, Len(st))) /\ SubSeq(st, n + 1, Len(st)) \in Seq(Byte)
           /\ AvailWriteSpace(d) = AvailWriteSpace(r) + n
           /\ \A s \in Seq(Byte) : Len(s) <= AvailWriteSpace(r) /\ Ahead(r, s) => Ahead(d, s)
<1>. DEFINE rest == SubSeq(st, n + 1, Len(st))
<1>1. PICK N, rd, wr, u :
         N = r.size /\ rd = r.rd /\ wr = r.wr /\ u = Used(r)
  OBVIOUS
<1>2. /\ N \in Nat \ {0, 1} /\ rd \in 0 .. N - 1 /\ wr \in 0 .. N - 1
      /\ u = Gap(rd, wr, N)
      /\ u \in 0 .. N - 1 /\ Len(st) = u /\ AvailWriteSpace(r) = N - 1 - u
      /\ r.buf \in [0 .. N - 1 -> Bytes] /\ r.flags \in Modes /\ n \in 0 .. u
  <2>1. /\ N \in Nat \ {0, 1} /\ rd \in 0 .. N - 1 /\ wr \in 0 .. N - 1
        /\ r.buf \in [0 .. N - 1 -> Bytes] /\ r.flags \in Modes
    BY <1>1 DEF IsRing
  <2>2. /\ u = Gap(rd, wr, N)
        /\ u \in 0 .. N - 1 /\ AvailWriteSpace(r) = N - 1 - u
    BY <1>1, RoomOfRing
  <2>. QED  BY <1>1, <2>1, <2>2 DEF Holds
<1>e. PICK e : e = Wrapped(rd + n, N)
  OBVIOUS
<1>3. /\ e \in 0 .. N - 1
      /\ u - n = Gap(e, wr, N)
      /\ \A k \in 1 .. u - n : Wrapped(e + k - 1, N) = Wrapped(rd + (n + k) - 1, N)
      /\ \A k \in 0 .. N - 1 : Wrapped(rd + k, N) \in 0 .. N - 1
      /\ \A k \in 0 .. N - 1 : Wrapped(Wrapped(rd + k, N) + N - rd, N) = k
      /\ \A k \in 1 .. N - 1 - u : Wrapped(wr + k - 1, N) = Wrapped(rd + (u + k - 1), N)
  <2>1. Moves(N, rd, wr, n, e)
    BY <1>2, <1>e, Distances
  <2>. QED  BY <1>2, <2>1 DEF Moves
<1>4. (rd + n) % N = e
  <2>1. rd + n \in 0 .. 2 * N - 1
    BY <1>2
  <2>. QED  BY <1>2, <1>e, <2>1, WrappedIsMod
<1>5. \A k \in 0 .. N - 1 : (k + N - rd) % N = Wrapped(k + N - rd, N)
  <2>1. \A k \in 0 .. N - 1 : k + N - rd \in 0 .. 2 * N - 1
    BY <1>2
  <2>. QED  BY <1>2, <2>1, WrappedIsMod
<1>b. PICK b : b = [k \in 0 .. N - 1 |-> IF (k + N - rd) % N < n THEN Blank ELSE r.buf[k]]
  OBVIOUS
<1>d. d = [buf |-> b, size |-> N, rd |-> e, wr |-> wr, flags |-> r.flags]
  BY <1>1, <1>2, <1>4, <1>b DEF Drained, IsRing
<1>6. d.size = N /\ d.wr = wr /\ d.flags = r.flags /\ d.rd = e /\ d.buf = b
  BY <1>d
<1>7. \A k \in 0 .. N - 1 :
          d.buf[Wrapped(rd + k, N)] = IF k < n THEN Blank ELSE r.buf[Wrapped(rd + k, N)]
  BY <1>3, <1>5, <1>6, <1>b
<1>8. IsRing(d)
  <2>1. b \in [0 .. N - 1 -> Bytes]
    <3>1. Blank \in Bytes
      BY DEF Bytes
    <3>2. \A k \in 0 .. N - 1 :
              (IF (k + N - rd) % N < n THEN Blank ELSE r.buf[k]) \in Bytes
      BY <1>2, <3>1
    <3>. QED  BY <1>b, <3>2, Zenon
  <2>2. N \in Nat \ {0, 1} /\ e \in Nat /\ wr \in Nat /\ e < N /\ wr < N
    <3>1. N \in Nat \ {0, 1} /\ wr \in 0 .. N - 1
      BY <1>2
    <3>2. e \in 0 .. N - 1
      BY <1>3
    <3>. QED  BY <3>1, <3>2
  <2>. QED  BY <1>2, <1>6, <1>d, <2>1, <2>2 DEF IsRing
<1>9. /\ rest \in Seq(Byte) /\ Len(rest) = u - n
      /\ \A k \in 1 .. u - n : rest[k] = st[n + k]
  <2>1. n + 1 \in Int /\ Len(st) \in Int /\ \A k \in n + 1 .. Len(st) : st[k] \in Byte
    OBVIOUS
  <2>2. /\ rest \in Seq(Byte) /\ Len(rest) = IF n + 1 <= Len(st) THEN Len(st) - (n + 1) + 1 ELSE 0
        /\ \A k \in 1 .. Len(st) - (n + 1) + 1 : rest[k] = st[n + 1 + k - 1]
    BY <2>1, SubSeqProperties
  <2>3. n \in Nat /\ n <= Len(st) /\ Len(st) = u /\ u \in Nat
    BY <1>2
  <2>. QED  BY <2>2, <2>3
<1>10. Used(d) = u - n /\ AvailWriteSpace(d) = AvailWriteSpace(r) + n
  <2>1. Used(d) = u - n
    <3>1. d.size # 0
      BY <1>2, <1>6
    <3>2. Used(d) = Gap(d.rd, d.wr, d.size)
      BY <1>8, <3>1, RoomOfRing
    <3>. QED  BY <1>3, <1>6, <3>2
  <2>2. AvailWriteSpace(d) = d.size - 1 - Used(d)
    <3>1. d.size # 0
      BY <1>2, <1>6
    <3>. QED  BY <1>8, <3>1, RoomOfRing
  <2>. QED  BY <1>2, <1>6, <2>1, <2>2
<1>11. Holds(d, rest)
  <2>. SUFFICES ASSUME NEW k \in 1 .. u - n
                PROVE  d.buf[Wrapped(e + k - 1, N)] = rest[k].b
    BY <1>6, <1>9, <1>10 DEF Holds
  <2>1. n + k - 1 \in 0 .. N - 1 /\ ~(n + k - 1 < n) /\ rd + (n + k) - 1 = rd + (n + k - 1)
    BY <1>2
  <2>2. d.buf[Wrapped(e + k - 1, N)] = r.buf[Wrapped(rd + (n + k - 1), N)]
    BY <1>3, <1>7, <2>1
  <2>3. n + k \in 1 .. Len(st) /\ r.buf[Wrapped(rd + (n + k) - 1, N)] = st[n + k].b
    <3>1. n + k \in 1 .. Len(st)
      BY <1>2
    <3>2. \A i \in 1 .. Len(st) : r.buf[Wrapped(rd + i - 1, N)] = st[i].b
      BY <1>1 DEF Holds
    <3>. QED  BY <3>1, <3>2
  <2>. QED  BY <1>9, <2>1, <2>2, <2>3
<1>12. ASSUME NEW s \in Seq(Byte), Len(s) <= AvailWriteSpace(r), Ahead(r, s) PROVE Ahead(d, s)
  <2>. SUFFICES ASSUME NEW k \in 1 .. Len(s)
                PROVE  d.buf[Wrapped(wr + k - 1, N)] = s[k].b
    BY <1>6 DEF Ahead
  <2>1. k \in 1 .. N - 1 - u /\ u + k - 1 \in 0 .. N - 1 /\ ~(u + k - 1 < n)
    BY <1>2, <1>12
  <2>2. d.buf[Wrapped(wr + k - 1, N)] = r.buf[Wrapped(wr + k - 1, N)]
    BY <1>3, <1>7, <2>1
  <2>. QED  BY <1>1, <1>12, <2>2 DEF Ahead
<1>. QED  BY <1>1, <1>6, <1>8, <1>9, <1>10, <1>11, <1>12

\* The same distances, from WrOff; u bytes are in use.
Around(N, rd, wr, u) ==
    /\ \A k \in 0 .. u - 1 : Wrapped(rd + k, N) \in 0 .. N - 1
    /\ \A k \in 0 .. u - 1 : Wrapped(Wrapped(rd + k, N) + N - wr, N) = N - u + k
    /\ \A k \in 0 .. N - 1 : Wrapped(wr + k, N) \in 0 .. N - 1
    /\ \A k \in 0 .. N - 1 : Wrapped(Wrapped(wr + k, N) + N - wr, N) = k
    /\ \A k \in 0 .. N - 1 - u : Gap(rd, Wrapped(wr + k, N), N) = u + k
    /\ \A k \in 1 .. N - 1 - u : Wrapped(wr + k - 1, N) = Wrapped(rd + (u + k) - 1, N)

\* WrOff may move on by what is free.
LEMMA Offsets ==
    ASSUME NEW N \in Nat, N # 0, NEW rd \in 0 .. N - 1, NEW wr \in 0 .. N - 1
    PROVE  Around(N, rd, wr, Gap(rd, wr, N))
BY DEF Wrapped, Gap, Around

\* What RoomOfRing and the types say, field by field.
LEMMA FieldsOfRing ==
    ASSUME NEW r, IsRing(r), r.size # 0
    PROVE  /\ r.size \in Nat \ {0, 1} /\ r.rd \in 0 .. r.size - 1 /\ r.wr \in 0 .. r.size - 1
           /\ r.buf \in [0 .. r.size - 1 -> Bytes] /\ r.flags \in Modes
           /\ Used(r) = Gap(r.rd, r.wr, r.size) /\ Used(r) \in 0 .. r.size - 1
           /\ AvailWriteSpace(r) = r.size - 1 - Used(r)
<1>1. /\ r.size \in Nat \ {0, 1} /\ r.rd \in 0 .. r.size - 1 /\ r.wr \in 0 .. r.size - 1
      /\ r.buf \in [0 .. r.size - 1 -> Bytes] /\ r.flags \in Modes
  BY DEF IsRing
<1>. QED  BY <1>1, RoomOfRing

\* Beside st there is room for s.
HasRoom(r, st, s) ==
    /\ IsRing(r) /\ r.size # 0 /\ st \in Seq(Byte) /\ Holds(r, st)
    /\ s \in Seq(Byte) /\ Len(s) <= AvailWriteSpace(r)

\* s has been copied, and WrOff is where it was.
Copied(r, st, s, p) ==
    /\ IsRing(p) /\ p.size = r.size /\ p.rd = r.rd /\ p.wr = r.wr /\ p.flags = r.flags
    /\ Holds(p, st) /\ Ahead(p, s) /\ AvailWriteSpace(p) = AvailWriteSpace(r)

\* WrOff has moved past s.
Published(r, st, s, p) ==
    /\ IsRing(p) /\ p.size = r.size /\ p.flags = r.flags
    /\ Holds(p, st \o s) /\ st \o s \in Seq(Byte)
    /\ AvailWriteSpace(p) = AvailWriteSpace(r) - Len(s)

\* The writer copies s behind what is there.
LEMMA PlacedRing ==
    ASSUME NEW r, NEW st, NEW s, HasRoom(r, st, s)
    PROVE  Copied(r, st, s, Placed(r, r.wr, s))
<1>. USE DEF HasRoom
<1>p. PICK p : p = Placed(r, r.wr, s)
  OBVIOUS
<1>1. PICK N, rd, wr, u, L :
         N = r.size /\ rd = r.rd /\ wr = r.wr /\ u = Used(r) /\ L = Len(s)
  OBVIOUS
<1>2. /\ N \in Nat \ {0, 1} /\ rd \in 0 .. N - 1 /\ wr \in 0 .. N - 1
      /\ u = Gap(rd, wr, N) /\ u \in 0 .. N - 1 /\ L \in Nat /\ L <= N - 1 - u
      /\ r.buf \in [0 .. N - 1 -> Bytes]
  BY <1>1, FieldsOfRing
<1>3. /\ \A k \in 0 .. u - 1 : Wrapped(rd + k, N) \in 0 .. N - 1
      /\ \A k \in 0 .. u - 1 : Wrapped(Wrapped(rd + k, N) + N - wr, N) = N - u + k
      /\ \A k \in 0 .. N - 1 : Wrapped(wr + k, N) \in 0 .. N - 1
      /\ \A k \in 0 .. N - 1 : Wrapped(Wrapped(wr + k, N) + N - wr, N) = k
  <2>1. Around(N, rd, wr, u)
    BY <1>2, Offsets
  <2>. QED  BY <2>1 DEF Around
<1>4. \A k \in 0 .. N - 1 : /\ (k + N - wr) % N = Wrapped(k + N - wr, N)
                            /\ Wrapped(k + N - wr, N) \in 0 .. N - 1
  <2>1. \A k \in 0 .. N - 1 : k + N - wr \in 0 .. 2 * N - 1
    BY <1>2
  <2>. QED  BY <1>2, <2>1, WrappedIsMod
<1>5. PICK b : b = [k \in 0 .. N - 1 |->
                       IF (k + N - wr) % N < L THEN s[((k + N - wr) % N) + 1].b ELSE r.buf[k]]
  OBVIOUS
<1>6. p = [r EXCEPT !.buf = b]
  BY <1>1, <1>2, <1>5, <1>p DEF Placed
<1>7. p.buf = b /\ p.size = N /\ p.rd = rd /\ p.wr = wr /\ p.flags = r.flags
  BY <1>1, <1>6 DEF IsRing
<1>8. \A k \in 0 .. N - 1 :
          b[k] = IF Wrapped(k + N - wr, N) < L THEN s[Wrapped(k + N - wr, N) + 1].b ELSE r.buf[k]
  BY <1>4, <1>5
<1>9. IsRing(p)
  <2>1. \A k \in 0 .. N - 1 : b[k] \in Bytes
    <3>. SUFFICES ASSUME NEW k \in 0 .. N - 1 PROVE b[k] \in Bytes
      OBVIOUS
    <3>1. \A i \in 1 .. L : s[i].b \in Bytes
      <4>1. \A x \in Byte : x.b \in Bytes
        BY DEF Byte
      <4>2. \A i \in 1 .. L : s[i] \in Byte
        BY <1>1
      <4>. QED  BY <4>1, <4>2
    <3>2. PICK w : w = Wrapped(k + N - wr, N)
      OBVIOUS
    <3>3. w \in 0 .. N - 1 /\ b[k] = IF w < L THEN s[w + 1].b ELSE r.buf[k]
      BY <1>4, <1>8, <3>2
    <3>4. CASE w < L
      <4>1. w + 1 \in 1 .. L
        BY <1>2, <3>3, <3>4
      <4>. QED  BY <3>1, <3>3, <3>4, <4>1
    <3>5. CASE ~(w < L)
      BY <1>2, <3>3, <3>5
    <3>. QED  BY <3>4, <3>5
  <2>2. b \in [0 .. N - 1 -> Bytes]
    BY <1>5, <2>1
  <2>. QED  BY <1>1, <1>6, <1>7, <2>2 DEF IsRing
<1>10. AvailWriteSpace(p) = AvailWriteSpace(r) /\ Used(p) = u
  BY <1>1, <1>7 DEF AvailWriteSpace, Used
<1>11. Holds(p, st)
  <2>. SUFFICES ASSUME NEW k \in 1 .. Len(st)
                PROVE  b[Wrapped(rd + k - 1, N)] = st[k].b
    BY <1>1, <1>7, <1>10 DEF Holds
  <2>1. k - 1 \in 0 .. u - 1 /\ rd + k - 1 = rd + (k - 1) /\ ~(N - u + (k - 1) < L)
    BY <1>1, <1>2 DEF Holds
  <2>2. b[Wrapped(rd + (k - 1), N)] = r.buf[Wrapped(rd + (k - 1), N)]
    BY <1>3, <1>8, <2>1
  <2>. QED  BY <1>1, <2>1, <2>2 DEF Holds
<1>12. Ahead(p, s)
  <2>. SUFFICES ASSUME NEW k \in 1 .. L
                PROVE  b[Wrapped(wr + k - 1, N)] = s[k].b
    BY <1>1, <1>7 DEF Ahead
  <2>1. k - 1 \in 0 .. N - 1 /\ wr + k - 1 = wr + (k - 1) /\ k - 1 < L /\ k - 1 + 1 = k
    BY <1>2
  <2>. QED  BY <1>3, <1>8, <2>1
<1>. QED  BY <1>1, <1>7, <1>9, <1>10, <1>11, <1>12, <1>p DEF Copied

\* WrOff moves past s.
LEMMA PublishedRing ==
    ASSUME NEW r, NEW st, NEW s, HasRoom(r, st, s), Ahead(r, s)
    PROVE  Published(r, st, s, [r EXCEPT !.wr = Wrapped(r.wr + Len(s), r.size)])
<1>. USE DEF HasRoom
<1>p. PICK p : p = [r EXCEPT !.wr = Wrapped(r.wr + Len(s), r.size)]
  OBVIOUS
<1>1. PICK N, rd, wr, u, L :
         N = r.size /\ rd = r.rd /\ wr = r.wr /\ u = Used(r) /\ L = Len(s)
  OBVIOUS
<1>2. /\ N \in Nat \ {0, 1} /\ rd \in 0 .. N - 1 /\ wr \in 0 .. N - 1
      /\ u = Gap(rd, wr, N) /\ u \in 0 .. N - 1 /\ L \in 0 .. N - 1 - u
      /\ AvailWriteSpace(r) = N - 1 - u /\ Len(st) = u
  BY <1>1, FieldsOfRing DEF Holds
<1>3. PICK e : e = Wrapped(wr + L, N)
  OBVIOUS
<1>4. /\ \A k \in 0 .. N - 1 : Wrapped(wr + k, N) \in 0 .. N - 1
      /\ \A k \in 0 .. N - 1 - u : Gap(rd, Wrapped(wr + k, N), N) = u + k
      /\ \A k \in 1 .. N - 1 - u : Wrapped(wr + k - 1, N) = Wrapped(rd + (u + k) - 1, N)
  <2>1. Around(N, rd, wr, u)
    BY <1>2, Offsets
  <2>. QED  BY <2>1 DEF Around
<1>5. e \in 0 .. N - 1 /\ Gap(rd, e, N) = u + L
  <2>1. L \in 0 .. N - 1
    BY <1>2
  <2>. QED  BY <1>2, <1>3, <1>4, <2>1
<1>6. p = [r EXCEPT !.wr = e]
  BY <1>1, <1>3, <1>p
<1>7. p.size = N /\ p.rd = rd /\ p.wr = e /\ p.flags = r.flags /\ p.buf = r.buf
  BY <1>1, <1>6 DEF IsRing
<1>8. IsRing(p)
  <2>1. e \in Nat /\ e < N
    BY <1>2, <1>5
  <2>. QED  BY <1>1, <1>6, <1>7, <2>1 DEF IsRing
<1>9. Used(p) = u + L /\ AvailWriteSpace(p) = N - 1 - (u + L)
  <2>1. p.size # 0
    BY <1>2, <1>7
  <2>2. Used(p) = Gap(p.rd, p.wr, p.size) /\ AvailWriteSpace(p) = p.size - 1 - Used(p)
    BY <1>8, <2>1, FieldsOfRing
  <2>. QED  BY <1>5, <1>7, <2>2
<1>10. /\ st \o s \in Seq(Byte) /\ Len(st \o s) = u + L
       /\ \A k \in 1 .. u + L : (st \o s)[k] = IF k <= u THEN st[k] ELSE s[k - u]
  <2>1. /\ st \o s \in Seq(Byte) /\ Len(st \o s) = Len(st) + Len(s)
        /\ \A k \in 1 .. Len(st) + Len(s) :
               (st \o s)[k] = IF k <= Len(st) THEN st[k] ELSE s[k - Len(st)]
    BY ConcatProperties
  <2>. QED  BY <1>1, <1>2, <2>1
<1>11. Holds(p, st \o s)
  <2>. SUFFICES ASSUME NEW k \in 1 .. u + L
                PROVE  r.buf[Wrapped(rd + k - 1, N)] = (st \o s)[k].b
    BY <1>7, <1>9, <1>10 DEF Holds
  <2>1. CASE k <= u
    <3>1. k \in 1 .. Len(st)
      BY <1>2, <2>1
    <3>. QED  BY <1>1, <1>10, <2>1, <3>1 DEF Holds
  <2>2. CASE ~(k <= u)
    <3>1. k - u \in 1 .. L /\ k - u \in 1 .. N - 1 - u /\ u + (k - u) = k
      BY <1>2, <2>2
    <3>2. r.buf[Wrapped(wr + (k - u) - 1, N)] = s[k - u].b
      BY <1>1, <3>1 DEF Ahead
    <3>. QED  BY <1>4, <1>10, <2>2, <3>1, <3>2
  <2>. QED  BY <2>1, <2>2
<1>. QED  BY <1>1, <1>2, <1>7, <1>8, <1>9, <1>10, <1>11, <1>p DEF Published

-----------------------------------------------------------------------------
(***************************************************************************)
(* The inductive invariant.                                                *)
(***************************************************************************)
Buffers == Ups \cup Downs
Pieces == Seq(Byte) \ {<<>>}

\* A buffer without memory holds nothing.
Sound(x, st) ==
    /\ IsRing(x) /\ st \in Seq(Byte)
    /\ x.size = 0 => st = <<>>
    /\ x.size # 0 => Holds(x, st)

\* A write in progress, to the buffer x: what it has copied is ahead of WrOff
\* and fits; in the modes that do not wait so does all it still has to write.
Busy(j, x) ==
    /\ j \in [ring: Ups, pieces: Seq(Pieces), blocking: BOOLEAN, wr: Nat \cup {None}, chunk: Nat]
    /\ j.pieces # <<>> /\ x.size # 0
    /\ j.chunk <= Len(Head(j.pieces)) /\ j.chunk <= AvailWriteSpace(x)
    /\ Ahead(x, SubSeq(Head(j.pieces), 1, j.chunk))
    /\ j.wr # None \/ j.chunk > 0 => j.wr = x.wr
    /\ ~j.blocking => Len(j.pieces) = 1 /\ Len(Head(j.pieces)) <= AvailWriteSpace(x)

\* SEGGER_RTT_LOCK lets one caller in.
OneWriter == \A t, u \in Tasks : job[t] # Idle /\ job[u] # Idle => t = u

\* The inductive invariant: every buffer holds its stream, none has a size before
\* INIT, and the one write in progress fits its buffer.
RttInv ==
    /\ DOMAIN ring = Buffers /\ DOMAIN stream = Buffers /\ DOMAIN job = Tasks
    /\ active \in Terminals
    /\ \A r \in Buffers : Sound(ring[r], stream[r])
    /\ Initialised \/ \A r \in Buffers : ring[r].size = 0
    /\ \A t \in Tasks : job[t] = Idle \/ Busy(job[t], ring[job[t].ring])
    /\ OneWriter

\* Names of buffers.
LEMMA BufferNames ==
    /\ Terminal \in Ups /\ <<"down", 0>> \in Downs /\ Ups \cap Downs = {}
    /\ \A i \in Indices : <<"up", i>> \in Ups /\ <<"down", i>> \in Downs
    /\ \A r \in Buffers : r[2] \in Indices
<1>1. 0 \in Indices
  BY RttSizesAssumption DEF Indices
<1>. QED  BY <1>1 DEF Terminal, Ups, Downs, Buffers

\* The invariant makes what the offsets enclose readable.
LEMMA InvIsIntact == RttInv => RingsIntact
<1>. SUFFICES ASSUME RttInv, NEW r \in Buffers, ring[r].size # 0
              PROVE  /\ {ring[r].rd, ring[r].wr} \subseteq DOMAIN ring[r].buf
                     /\ Content(ring[r]) = [k \in DOMAIN stream[r] |-> stream[r][k].b]
  BY DEF RingsIntact, Open, Buffers
<1>1. PICK x, st : x = ring[r] /\ st = stream[r]
  OBVIOUS
<1>2. IsRing(x) /\ st \in Seq(Byte) /\ Holds(x, st) /\ x.size # 0
  BY <1>1 DEF RttInv, Sound
<1>3. /\ x.size \in Nat \ {0, 1} /\ x.rd \in 0 .. x.size - 1 /\ x.wr \in 0 .. x.size - 1
      /\ x.buf \in [0 .. x.size - 1 -> Bytes] /\ Used(x) \in 0 .. x.size - 1
  BY <1>2, FieldsOfRing
<1>4. /\ Used(x) = Len(st) /\ DOMAIN st = 1 .. Len(st)
      /\ \A k \in 1 .. Len(st) : x.buf[Wrapped(x.rd + k - 1, x.size)] = st[k].b
  BY <1>2 DEF Holds
<1>5. ASSUME NEW k \in 1 .. Len(st)
      PROVE  (x.rd + k - 1) % x.size = Wrapped(x.rd + k - 1, x.size)
  <2>1. x.rd + k - 1 \in 0 .. 2 * x.size - 1
    BY <1>3, <1>4
  <2>. QED  BY <1>3, <2>1, WrappedIsMod
<1>6. Content(x) = [k \in DOMAIN st |-> st[k].b]
  BY <1>4, <1>5 DEF Content
<1>. QED  BY <1>1, <1>3, <1>6

\* A buffer that has just been given memory is empty.
LEMMA FreshRing ==
    ASSUME NEW n \in Nat \ {1}, NEW m \in Modes
    PROVE  Sound(Fresh(n, m), <<>>) /\ Fresh(n, m).size = n
<1>1. PICK x : x = Fresh(n, m)
  OBVIOUS
<1>2. Blank \in Bytes
  BY DEF Bytes
<1>3. PICK b : b = [k \in 0 .. n - 1 |-> Blank]
  OBVIOUS
<1>4. b \in [0 .. n - 1 -> Bytes]
  BY <1>2, <1>3
<1>5. x = [buf |-> b, size |-> n, rd |-> 0, wr |-> 0, flags |-> m]
  BY <1>1, <1>3 DEF Fresh
<1>6. IsRing(x) /\ x.size = n /\ x.rd = 0 /\ x.wr = 0
  BY <1>4, <1>5 DEF IsRing
<1>7. n # 0 => Used(x) = 0
  BY <1>6, FieldsOfRing DEF Gap
<1>8. n # 0 => Holds(x, <<>>)
  BY <1>7 DEF Holds
<1>. QED  BY <1>1, <1>6, <1>8 DEF Sound

\* The memory of an unused RTT control block is zero.
LEMMA InitInv == Init => RttInv
<1>. SUFFICES ASSUME Init PROVE RttInv
  OBVIOUS
<1>1. Sound(Fresh(0, "SKIP"), <<>>) /\ Fresh(0, "SKIP").size = 0
  BY FreshRing DEF Modes
<1>2. \A r \in Buffers : ring[r] = Fresh(0, "SKIP") /\ stream[r] = <<>>
  BY DEF Init, Buffers
<1>3. \A r \in Buffers : Sound(ring[r], stream[r]) /\ ring[r].size = 0
  BY <1>1, <1>2
<1>4. \A t \in Tasks : job[t] = Idle
  BY DEF Init
<1>5. /\ DOMAIN ring = Buffers /\ DOMAIN stream = Buffers /\ DOMAIN job = Tasks
      /\ active \in Terminals
  BY RttBytesAssumption DEF Init, Buffers
<1>. QED  BY <1>3, <1>4, <1>5 DEF RttInv, OneWriter

-----------------------------------------------------------------------------
(***************************************************************************)
(* The steps.                                                              *)
(***************************************************************************)

\* The buffers, or what they have to hold, differ at r alone.
Updated(f, g, r, v) ==
    DOMAIN g = Buffers /\ \A p \in Buffers : g[p] = IF p = r THEN v ELSE f[p]

\* One buffer changes, and no write to it is in progress that minds.
LEMMA OneBufferKept ==
    ASSUME RttInv, Initialised, UNCHANGED <<active, job>>,
           NEW r \in Buffers, NEW x, NEW st, Sound(x, st), r = Terminal => x.size # 0,
           Updated(ring, ring', r, x), Updated(stream, stream', r, st),
           \A t \in Tasks : job[t] # Idle /\ job[t].ring = r => Busy(job[t], x)
    PROVE  RttInv'
<1>1. /\ DOMAIN ring = Buffers /\ DOMAIN stream = Buffers /\ DOMAIN job = Tasks
      /\ active \in Terminals /\ OneWriter /\ \A p \in Buffers : Sound(ring[p], stream[p])
      /\ \A t \in Tasks : job[t] = Idle \/ Busy(job[t], ring[job[t].ring])
  BY DEF RttInv
<1>2. /\ DOMAIN ring' = Buffers /\ DOMAIN stream' = Buffers
      /\ \A p \in Buffers : ring'[p] = (IF p = r THEN x ELSE ring[p])
      /\ \A p \in Buffers : stream'[p] = (IF p = r THEN st ELSE stream[p])
  BY <1>1 DEF Updated
<1>3. \A p \in Buffers : Sound(ring'[p], stream'[p])
  BY <1>1, <1>2
<1>4. Initialised'
  BY <1>2, BufferNames DEF Initialised, Buffers
<1>5. \A t \in Tasks : job'[t] = Idle \/ Busy(job'[t], ring'[job'[t].ring])
  <2>. SUFFICES ASSUME NEW t \in Tasks, job[t] # Idle
                PROVE  Busy(job[t], ring'[job[t].ring])
    OBVIOUS
  <2>1. Busy(job[t], ring[job[t].ring])
    BY <1>1
  <2>2. job[t].ring \in Buffers
    BY <2>1 DEF Busy, Buffers
  <2>. QED  BY <1>2, <2>1, <2>2
<1>6. OneWriter'
  BY <1>1 DEF OneWriter
<1>. QED  BY <1>1, <1>2, <1>3, <1>4, <1>5, <1>6 DEF RttInv

\* What a job can be, when nothing has been copied yet.
LEMMA BeginKept ==
    ASSUME RttInv, Unlocked, NEW t \in Tasks, NEW r \in Ups, Open(r),
           NEW pieces \in Seq(Seq(Byte)), pieces # <<>>, NEW blocking \in BOOLEAN,
           Begin(t, r, pieces, blocking), active' \in Terminals,
           ~blocking => Len(pieces) = 1 /\ Len(pieces[1]) <= AvailWriteSpace(ring[r])
    PROVE  RttInv'
<1>1. /\ DOMAIN ring = Buffers /\ DOMAIN stream = Buffers /\ DOMAIN job = Tasks
      /\ \A p \in Buffers : Sound(ring[p], stream[p])
      /\ Initialised \/ \A p \in Buffers : ring[p].size = 0
  BY DEF RttInv
<1>2. PICK j : j = [ring |-> r, pieces |-> pieces, blocking |-> blocking, wr |-> None, chunk |-> 0]
  OBVIOUS
<1>3. ring' = ring /\ stream' = stream /\ job' = [job EXCEPT ![t] = j]
  <2>1. j = [Idle EXCEPT !.ring = r, !.pieces = pieces, !.blocking = blocking]
    <3>1. PICK i : i = Idle
      OBVIOUS
    <3>2. i \in [ring: {None}, pieces: {<<>>}, blocking: {FALSE}, wr: {None}, chunk: {0}]
      BY <3>1 DEF Idle
    <3>3. PICK z : z = [i EXCEPT !.ring = r, !.pieces = pieces, !.blocking = blocking]
      OBVIOUS
    <3>4. z \in [ring: {r}, pieces: {pieces}, blocking: {blocking}, wr: {None}, chunk: {0}]
      BY <3>2, <3>3
    <3>5. z = j
      BY <1>2, <3>4
    <3>. QED  BY <3>1, <3>3, <3>5
  <2>2. job' = [job EXCEPT
                  ![t] = [Idle EXCEPT !.ring = r, !.pieces = pieces, !.blocking = blocking]]
    BY DEF Begin
  <2>. QED  BY <2>1, <2>2 DEF Begin
<1>4. \A u \in Tasks : job'[u] = IF u = t THEN j ELSE Idle
  BY <1>1, <1>3 DEF Unlocked
<1>5. Busy(j, ring[r])
  <2>1. pieces \in Seq(Pieces) /\ Head(pieces) = pieces[1] /\ pieces[1] \in Seq(Byte)
    BY DEF Begin, Pieces
  <2>2. /\ j.ring = r /\ j.pieces = pieces /\ j.blocking = blocking /\ j.wr = None /\ j.chunk = 0
        /\ j \in [ring: Ups, pieces: Seq(Pieces), blocking: BOOLEAN,
                   wr: Nat \cup {None}, chunk: Nat]
    BY <1>2, <2>1
  <2>3. IsRing(ring[r]) /\ ring[r].size # 0 /\ 0 <= AvailWriteSpace(ring[r])
    BY <1>1, FieldsOfRing DEF Open, Buffers, Sound
  <2>4. Ahead(ring[r], SubSeq(pieces[1], 1, 0))
    BY <2>1 DEF Ahead
  <2>. QED  BY <2>1, <2>2, <2>3, <2>4 DEF Busy
<1>6. OneWriter'
  BY <1>4 DEF OneWriter
<1>7. \A u \in Tasks : job'[u] = Idle \/ Busy(job'[u], ring'[job'[u].ring])
  BY <1>2, <1>3, <1>4, <1>5
<1>. QED  BY <1>1, <1>3, <1>6, <1>7 DEF RttInv, Initialised

\* The smaller of two, or of three, numbers.
LEMMA MinOfTwo ==
    ASSUME NEW m \in Nat, NEW n \in Nat
    PROVE  Min({m, n}) \in {m, n} /\ Min({m, n}) <= m /\ Min({m, n}) <= n
<1>1. \E x \in {m, n} : \A y \in {m, n} : x <= y
  <2>1. CASE m <= n
    BY <2>1
  <2>2. CASE ~(m <= n)
    BY <2>2
  <2>. QED  BY <2>1, <2>2
<1>2. Min({m, n}) \in {m, n} /\ \A y \in {m, n} : Min({m, n}) <= y
  BY <1>1, Zenon DEF Min
<1>. QED  BY <1>2

\* The least of three, and the rounds of a write take the least of three lengths.
LEMMA MinOfThree ==
    ASSUME NEW m \in Nat, NEW n \in Nat, NEW k \in Nat
    PROVE  /\ Min({m, n, k}) \in {m, n, k}
           /\ Min({m, n, k}) <= m /\ Min({m, n, k}) <= n /\ Min({m, n, k}) <= k
<1>1. \E x \in {m, n, k} : \A y \in {m, n, k} : x <= y
  <2>1. CASE m <= n /\ m <= k
    BY <2>1
  <2>2. CASE n <= m /\ n <= k
    BY <2>2
  <2>3. CASE k <= m /\ k <= n
    BY <2>3
  <2>. QED  BY <2>1, <2>2, <2>3
<1>2. Min({m, n, k}) \in {m, n, k} /\ \A y \in {m, n, k} : Min({m, n, k}) <= y
  BY <1>1, Zenon DEF Min
<1>. QED  BY <1>2

\* The larger of two.
LEMMA MaxOfTwo ==
    ASSUME NEW m \in Nat, NEW n \in Nat
    PROVE  Max({m, n}) \in Nat
<1>1. \E x \in {m, n} : \A y \in {m, n} : x >= y
  <2>1. CASE m >= n
    BY <2>1
  <2>2. CASE ~(m >= n)
    BY <2>2
  <2>. QED  BY <2>1, <2>2
<1>2. Max({m, n}) \in {m, n}
  BY <1>1, Zenon DEF Max
<1>. QED  BY <1>2

\* What callers hand over, with the terminal each byte is for.
LEMMA ForIsBytes ==
    ASSUME NEW S, S \subseteq Bytes, NEW s \in Seq(S), NEW id \in Terminals
    PROVE  For(id, s) \in Seq(Byte) /\ Len(For(id, s)) = Len(s)
<1>1. PICK n \in Nat : n = Len(s) /\ DOMAIN s = 1 .. n
  OBVIOUS
<1>2. PICK f : f = [k \in 1 .. n |-> [b |-> s[k], on |-> id]]
  OBVIOUS
<1>3. \A k \in 1 .. n : f[k] \in Byte
  BY <1>1, <1>2 DEF Byte
<1>4. f \in Seq(Byte) /\ Len(f) = n
  BY <1>2, <1>3
<1>. QED  BY <1>1, <1>2, <1>4 DEF For

\* A text, for a terminal if it goes to the terminal's buffer.
LEMMA TextIsBytes ==
    ASSUME RttInv, NEW r, NEW s \in Seq(Chars)
    PROVE  Text(r, s) \in Seq(Byte) /\ Len(Text(r, s)) = Len(s)
<1>1. Chars \subseteq Bytes /\ active \in Terminals /\ "0" \in Terminals
  BY RttBytesAssumption DEF Bytes, RttInv
<1>2. (IF r = Terminal THEN active ELSE "0") \in Terminals
  BY <1>1
<1>. QED  BY <1>1, <1>2, ForIsBytes DEF Text

\* Two bytes.
LEMMA SwitchIsBytes ==
    ASSUME NEW id \in Terminals
    PROVE  Switch(id) \in Seq(Byte) /\ Len(Switch(id)) = 2
<1>1. <<Escape, id>> \in Seq(Bytes) /\ Len(<<Escape, id>>) = 2
  BY DEF Bytes
<1>. QED  BY <1>1, ForIsBytes DEF Switch

\* The texts, their beginnings, and the single characters.
LEMMA TextFacts ==
    /\ \A s \in Texts : s \in Seq(Chars) /\ s # <<>>
    /\ \A c \in Keys : <<c>> \in Seq(Chars)
BY RttTextsAssumption DEF Keys

\* One piece.
LEMMA BeginOneKept ==
    ASSUME RttInv, Unlocked, NEW t \in Tasks, NEW r \in Ups, Open(r),
           NEW s \in Seq(Byte), NEW blocking \in BOOLEAN,
           Begin(t, r, <<s>>, blocking), active' \in Terminals,
           ~blocking => Len(s) <= AvailWriteSpace(ring[r])
    PROVE  RttInv'
<1>1. PICK p : p = <<s>>
  OBVIOUS
<1>2. p \in Seq(Seq(Byte)) /\ p # <<>> /\ Len(p) = 1 /\ p[1] = s
  BY <1>1
<1>. QED  BY <1>1, <1>2, BeginKept

\* The room in an open buffer.
LEMMA RoomIsNat ==
    ASSUME RttInv, NEW r \in Buffers, Open(r)
    PROVE  AvailWriteSpace(ring[r]) \in Nat
BY FieldsOfRing DEF RttInv, Sound, Open

\* SEGGER_RTT_WriteNoLock
LEMMA WriteNoLockKept ==
    ASSUME RttInv, Unlocked, NEW t \in Tasks, NEW r \in Ups, Open(r), NEW s \in Seq(Byte),
           WriteNoLock(t, r, s), UNCHANGED active
    PROVE  RttInv'
<1>1. active' \in Terminals /\ r \in Buffers
  BY DEF RttInv, Buffers
<1>2. PICK avail \in Nat : avail = AvailWriteSpace(ring[r])
  BY <1>1, RoomIsNat
<1>3. CASE Len(s) <= avail /\ Begin(t, r, <<s>>, FALSE)
  BY <1>1, <1>2, <1>3, BeginOneKept
<1>4. CASE Begin(t, r, <<SubSeq(s, 1, Min({avail, Len(s)}))>>, FALSE)
  <2>1. PICK n : n = Min({avail, Len(s)})
    OBVIOUS
  <2>2. n \in Nat /\ n <= avail /\ n <= Len(s)
    BY <1>2, <2>1, MinOfTwo
  <2>3. SubSeq(s, 1, n) \in Seq(Byte) /\ Len(SubSeq(s, 1, n)) = n
    BY <2>2
  <2>. QED  BY <1>1, <1>2, <1>4, <2>1, <2>2, <2>3, BeginOneKept
<1>5. CASE Begin(t, r, <<s>>, TRUE)
  BY <1>1, <1>5, BeginOneKept
<1>. QED  BY <1>2, <1>3, <1>4, <1>5 DEF WriteNoLock

\* SEGGER_RTT_Write and _WriteSkipNoLock, and their callers.
LEMMA WritesKept ==
    ASSUME RttInv, NEW t \in Tasks, NEW r \in Ups, NEW s \in Seq(Chars),
           Write(t, r, s) \/ WriteSkip(t, r, s)
    PROVE  RttInv'
<1>1. Text(r, s) \in Seq(Byte) /\ Len(Text(r, s)) = Len(s)
  BY TextIsBytes
<1>2. CASE Write(t, r, s)
  BY <1>1, <1>2, WriteNoLockKept DEF Write, Calls
<1>3. CASE WriteSkip(t, r, s)
  <2>1. active' \in Terminals
    BY <1>3 DEF WriteSkip, RttInv
  <2>. QED  BY <1>1, <1>3, <2>1, BeginOneKept DEF WriteSkip, Calls
<1>. QED  BY <1>2, <1>3

\* SEGGER_RTT_PutChar
LEMMA PutCharKept ==
    ASSUME RttInv, NEW t \in Tasks, NEW r \in Ups, NEW c, <<c>> \in Seq(Chars),
           PutChar(t, r, c)
    PROVE  RttInv'
<1>1. PICK s : s = Text(r, <<c>>)
  OBVIOUS
<1>2. s \in Seq(Byte) /\ Len(s) = 1
  BY <1>1, TextIsBytes
<1>3. PICK blocking : blocking = (ring[r].flags = "BLOCK")
  OBVIOUS
<1>4. /\ blocking \in BOOLEAN /\ Begin(t, r, <<s>>, blocking) /\ Unlocked /\ Open(r)
      /\ active' \in Terminals /\ (blocking \/ AvailWriteSpace(ring[r]) > 0)
  BY <1>1, <1>3 DEF PutChar, Calls, RttInv
<1>5. AvailWriteSpace(ring[r]) \in Nat
  BY <1>4, RoomIsNat DEF Buffers
<1>6. blocking \/ Len(s) <= AvailWriteSpace(ring[r])
  BY <1>2, <1>4, <1>5
<1>. QED  BY <1>2, <1>4, <1>6, BeginOneKept

\* SEGGER_RTT_SetTerminal
LEMMA SetTerminalKept ==
    ASSUME RttInv, NEW t \in Tasks, NEW id \in Terminals, SetTerminal(t, id)
    PROVE  RttInv'
<1>1. Switch(id) \in Seq(Byte) /\ Len(Switch(id)) = 2
  BY SwitchIsBytes
<1>2. PICK blocking : blocking = (ring[Terminal].flags = "BLOCK")
  OBVIOUS
<1>3. /\ blocking \in BOOLEAN /\ Begin(t, Terminal, <<Switch(id)>>, blocking) /\ Unlocked
      /\ active' \in Terminals /\ (blocking \/ AvailWriteSpace(ring[Terminal]) >= 2)
      /\ Open(Terminal) /\ Terminal \in Ups
  BY <1>2, BufferNames DEF SetTerminal, Calls, Initialised, Open
<1>4. AvailWriteSpace(ring[Terminal]) \in Nat
  BY <1>3, RoomIsNat DEF Buffers
<1>. QED  BY <1>1, <1>3, <1>4, BeginOneKept

\* SEGGER_RTT_TerminalOut
LEMMA TerminalOutKept ==
    ASSUME RttInv, NEW t \in Tasks, NEW id \in Terminals, NEW s \in Seq(Chars),
           TerminalOut(t, id, s)
    PROVE  RttInv'
<1>1. /\ Unlocked /\ Open(Terminal) /\ Terminal \in Ups /\ active' \in Terminals
      /\ active \in Terminals
  BY BufferNames DEF TerminalOut, Calls, Initialised, Open, RttInv
<1>2. PICK avail \in Nat : avail = AvailWriteSpace(ring[Terminal])
  BY <1>1, RoomIsNat DEF Buffers
<1>3. ASSUME NEW x \in Seq(Chars), Begin(t, Terminal, Out(id, x), TRUE) PROVE RttInv'
  <2>1. PICK p : p = Out(id, x)
    OBVIOUS
  <2>2. /\ Switch(id) \in Seq(Byte) /\ Switch(active) \in Seq(Byte) /\ For(id, x) \in Seq(Byte)
    BY <1>1, SwitchIsBytes, ForIsBytes DEF Bytes
  <2>3. p \in Seq(Seq(Byte)) /\ p # <<>>
    BY <2>1, <2>2 DEF Out
  <2>. QED  BY <1>1, <1>3, <2>1, <2>3, BeginKept
<1>4. CASE Begin(t, Terminal, Out(id, s), TRUE)
  BY <1>3, <1>4
<1>5. CASE avail >= 4 /\ Begin(t, Terminal, Out(id, Trimmed(s, avail)), TRUE)
  <2>1. PICK n : n = Min({Len(s), avail - 4})
    OBVIOUS
  <2>2. avail - 4 \in Nat /\ Len(s) \in Nat
    BY <1>5
  <2>3. n \in Nat /\ n <= Len(s)
    BY <2>1, <2>2, MinOfTwo
  <2>4. SubSeq(s, 1, n) \in Seq(Chars)
    BY <2>3
  <2>. QED  BY <1>3, <1>5, <2>1, <2>4 DEF Trimmed
<1>. QED  BY <1>2, <1>4, <1>5 DEF TerminalOut

\* The calls that begin a write.
LEMMA WriteCallsKept == ASSUME RttInv, NEW t \in Tasks, WriteCalls(t) PROVE RttInv'
<1>1. CASE \E r \in Ups, s \in Texts : Write(t, r, s) \/ WriteSkip(t, r, s)
  BY <1>1, TextFacts, WritesKept
<1>2. CASE \E r \in Ups, c \in Keys : PutChar(t, r, c) \/ PutCharSkip(t, r, c)
  BY <1>2, TextFacts, WritesKept, PutCharKept DEF PutCharSkip
<1>3. CASE \E id \in Terminals : SetTerminal(t, id)
  BY <1>3, SetTerminalKept
<1>4. CASE \E id \in Terminals, s \in Texts : TerminalOut(t, id, s)
  BY <1>4, TextFacts, TerminalOutKept
<1>. QED  BY <1>1, <1>2, <1>3, <1>4 DEF WriteCalls

-----------------------------------------------------------------------------
(***************************************************************************)
(* A round of a writer.                                                    *)
(***************************************************************************)

\* What the writer t finds.
LEMMA WriterFacts ==
    ASSUME RttInv, NEW t \in Tasks, job[t] # Idle,
           NEW j, j = job[t], NEW x, x = ring[j.ring]
    PROVE  /\ j.ring \in Ups /\ j.ring \in Buffers /\ Busy(j, x)
           /\ IsRing(x) /\ x.size # 0 /\ stream[j.ring] \in Seq(Byte) /\ Holds(x, stream[j.ring])
           /\ j.pieces \in Seq(Pieces) /\ j.pieces # <<>>
           /\ Head(j.pieces) \in Seq(Byte) /\ Head(j.pieces) # <<>> /\ From(j) = x.wr
           /\ \A u \in Tasks : u # t => job[u] = Idle
           /\ Initialised
<1>1. Busy(j, x)
  BY DEF RttInv
<1>2. /\ j.ring \in Ups /\ j.ring \in Buffers /\ x.size # 0
      /\ j.pieces \in Seq(Pieces) /\ j.pieces # <<>>
  BY <1>1 DEF Busy, Buffers
<1>3. Sound(x, stream[j.ring])
  BY <1>2 DEF RttInv
<1>4. Head(j.pieces) \in Seq(Byte) /\ Head(j.pieces) # <<>>
  <2>1. Head(j.pieces) \in Pieces
    BY <1>2
  <2>. QED  BY <2>1 DEF Pieces
<1>5. From(j) = x.wr
  BY <1>1 DEF Busy, From
<1>6. (\A u \in Tasks : u # t => job[u] = Idle) /\ Initialised
  BY <1>2 DEF RttInv, OneWriter
<1>. QED  BY <1>1, <1>2, <1>3, <1>4, <1>5, <1>6 DEF Sound

\* The writer's buffer and its job change, and nothing else.
LEMMA OneWriterKept ==
    ASSUME RttInv, NEW t \in Tasks, job[t] # Idle, NEW r \in Buffers, r = job[t].ring,
           UNCHANGED active, NEW x, NEW st, NEW j, Sound(x, st), x.size # 0,
           Updated(ring, ring', r, x), Updated(stream, stream', r, st),
           job' = [job EXCEPT ![t] = j], j = Idle \/ (Busy(j, x) /\ j.ring = r)
    PROVE  RttInv'
<1>1. /\ DOMAIN ring = Buffers /\ DOMAIN stream = Buffers /\ DOMAIN job = Tasks
      /\ active \in Terminals /\ \A p \in Buffers : Sound(ring[p], stream[p])
  BY DEF RttInv
<1>2. (\A u \in Tasks : u # t => job[u] = Idle) /\ Initialised
  BY WriterFacts
<1>3. /\ DOMAIN ring' = Buffers /\ DOMAIN stream' = Buffers /\ DOMAIN job' = Tasks
      /\ \A p \in Buffers : ring'[p] = (IF p = r THEN x ELSE ring[p])
      /\ \A p \in Buffers : stream'[p] = (IF p = r THEN st ELSE stream[p])
      /\ \A u \in Tasks : job'[u] = (IF u = t THEN j ELSE job[u])
  BY <1>1 DEF Updated
<1>4. \A p \in Buffers : Sound(ring'[p], stream'[p])
  BY <1>1, <1>3
<1>5. Initialised'
  BY <1>2, <1>3, BufferNames DEF Initialised, Buffers
<1>6. \A u \in Tasks : job'[u] = Idle \/ Busy(job'[u], ring'[job'[u].ring])
  BY <1>2, <1>3
<1>7. OneWriter'
  BY <1>2, <1>3 DEF OneWriter
<1>. QED  BY <1>1, <1>3, <1>4, <1>5, <1>6, <1>7 DEF RttInv

\* How much a round copies: it fits, and is something of what is left.
LEMMA ChunkFits ==
    ASSUME RttInv, NEW t \in Tasks, job[t] # Idle
    PROVE  LET j == job[t]
           IN  /\ ChunkOf(j) \in 0 .. Len(Head(j.pieces))
               /\ ChunkOf(j) <= AvailWriteSpace(ring[j.ring])
<1>1. PICK j, x : j = job[t] /\ x = ring[j.ring]
  OBVIOUS
<1>2. /\ Busy(j, x) /\ IsRing(x) /\ x.size # 0 /\ Head(j.pieces) \in Seq(Byte)
      /\ From(j) = x.wr
  BY <1>1, WriterFacts
<1>3. PICK y : y = [ring[j.ring] EXCEPT !.wr = From(j)]
  OBVIOUS
<1>4. y = x
  BY <1>1, <1>2, <1>3 DEF IsRing
<1>5. PICK rest \in Nat : rest = Len(Head(j.pieces))
  BY <1>2
<1>6. PICK avail \in Nat : avail = AvailWriteSpace(x)
  BY <1>2, FieldsOfRing
<1>7. PICK room \in Nat : room = x.size - x.wr
  BY <1>2, FieldsOfRing
<1>8. ChunkOf(j) = IF j.blocking THEN Min({avail, room, rest}) ELSE rest
  <2>1. ChunkOf(j) = IF j.blocking
                     THEN Min({AvailWriteSpace(y), y.size - y.wr, Len(Head(j.pieces))})
                     ELSE Len(Head(j.pieces))
    BY <1>3 DEF ChunkOf
  <2>2. /\ AvailWriteSpace(y) = avail /\ y.size - y.wr = room /\ Len(Head(j.pieces)) = rest
    BY <1>4, <1>5, <1>6, <1>7
  <2>. QED  BY <2>1, <2>2
<1>9. CASE j.blocking
  <2>1. PICK n : n = Min({avail, room, rest})
    OBVIOUS
  <2>2. n \in Nat /\ n <= avail /\ n <= rest
    BY <2>1, MinOfThree
  <2>. QED  BY <1>1, <1>5, <1>6, <1>8, <1>9, <2>1, <2>2
<1>10. CASE ~j.blocking
  <2>1. rest <= avail
    BY <1>2, <1>5, <1>6, <1>10 DEF Busy
  <2>. QED  BY <1>1, <1>5, <1>6, <1>8, <1>10, <2>1
<1>. QED  BY <1>9, <1>10

\* A round copies: nothing is published, and what is copied is ahead.
LEMMA CopyKept == ASSUME RttInv, NEW t \in Tasks, Copy(t) PROVE RttInv'
<1>1. PICK j, x, n, s :
         j = job[t] /\ x = ring[j.ring] /\ n = ChunkOf(j) /\ s = SubSeq(Head(j.pieces), 1, n)
  OBVIOUS
<1>2. /\ job[t] # Idle /\ n > 0
      /\ ring' = [ring EXCEPT ![j.ring] = Placed(x, From(j), s)]
      /\ job' = [job EXCEPT ![t].chunk = n, ![t].wr = From(j)]
      /\ UNCHANGED <<uses, active, host, stream>>
  BY <1>1 DEF Copy
<1>3. /\ j.ring \in Buffers /\ Busy(j, x) /\ IsRing(x) /\ x.size # 0
      /\ stream[j.ring] \in Seq(Byte) /\ Holds(x, stream[j.ring])
      /\ Head(j.pieces) \in Seq(Byte) /\ From(j) = x.wr
  BY <1>1, <1>2, WriterFacts
<1>4. n \in 0 .. Len(Head(j.pieces)) /\ n <= AvailWriteSpace(x)
  BY <1>1, <1>2, ChunkFits
<1>5. s \in Seq(Byte) /\ Len(s) = n
  BY <1>1, <1>3, <1>4
<1>6. PICK p : p = Placed(x, x.wr, s)
  OBVIOUS
<1>7. /\ IsRing(p) /\ p.size = x.size /\ p.wr = x.wr /\ Holds(p, stream[j.ring])
      /\ Ahead(p, s) /\ AvailWriteSpace(p) = AvailWriteSpace(x)
  <2>1. HasRoom(x, stream[j.ring], s)
    BY <1>3, <1>4, <1>5 DEF HasRoom
  <2>. QED  BY <1>6, <2>1, PlacedRing DEF Copied
<1>8. PICK k : k = [j EXCEPT !.chunk = n, !.wr = x.wr]
  OBVIOUS
<1>9. /\ k.ring = j.ring /\ k.pieces = j.pieces /\ k.blocking = j.blocking /\ k.wr = x.wr
      /\ k.chunk = n
      /\ k \in [ring: Ups, pieces: Seq(Pieces), blocking: BOOLEAN, wr: Nat \cup {None}, chunk: Nat]
  <2>1. x.wr \in Nat /\ n \in Nat
    BY <1>3, <1>4 DEF IsRing
  <2>2. j \in [ring: Ups, pieces: Seq(Pieces), blocking: BOOLEAN, wr: Nat \cup {None}, chunk: Nat]
    BY <1>3 DEF Busy
  <2>. QED  BY <1>8, <2>1, <2>2
<1>10. Busy(k, p)
  <2>1. /\ j.pieces # <<>>
        /\ ~j.blocking => Len(j.pieces) = 1 /\ Len(Head(j.pieces)) <= AvailWriteSpace(x)
    BY <1>3 DEF Busy
  <2>2. n <= Len(Head(j.pieces))
    BY <1>4
  <2>. QED  BY <1>1, <1>3, <1>4, <1>7, <1>9, <2>1, <2>2 DEF Busy
<1>11. /\ Updated(ring, ring', j.ring, p) /\ job' = [job EXCEPT ![t] = k]
       /\ Updated(stream, stream', j.ring, stream[j.ring])
  <2>1. Updated(ring, ring', j.ring, p)
    BY <1>2, <1>3, <1>6 DEF RttInv, Updated
  <2>2. job' = [job EXCEPT ![t] = k]
    BY <1>1, <1>2, <1>3, <1>8
  <2>3. Updated(stream, stream', j.ring, stream[j.ring])
    BY <1>2 DEF RttInv, Updated
  <2>. QED  BY <2>1, <2>2, <2>3
<1>12. Sound(p, stream[j.ring]) /\ p.size # 0
  BY <1>3, <1>7 DEF Sound
<1>13. active' = active
  BY <1>2
<1>14. /\ job[t] # Idle /\ j.ring \in Buffers /\ j.ring = job[t].ring
       /\ Busy(k, p) /\ k.ring = j.ring
  BY <1>1, <1>2, <1>3, <1>9, <1>10
<1>. QED  BY <1>11, <1>12, <1>13, <1>14, OneWriterKept

\* A round publishes what it has copied.
LEMMA PublishKept == ASSUME RttInv, NEW t \in Tasks, Publish(t) PROVE RttInv'
<1>1. PICK j, x, s, c :
         /\ j = job[t] /\ x = ring[j.ring]
         /\ s = Head(j.pieces) /\ c = SubSeq(s, 1, j.chunk)
  OBVIOUS
<1>2. job[t] # Idle /\ j.chunk > 0
  BY <1>1 DEF Publish
<1>3. /\ j.ring \in Buffers /\ Busy(j, x) /\ IsRing(x) /\ x.size # 0
      /\ stream[j.ring] \in Seq(Byte) /\ Holds(x, stream[j.ring])
      /\ s \in Seq(Byte) /\ s # <<>> /\ j.pieces \in Seq(Pieces) /\ j.pieces # <<>>
  BY <1>1, <1>2, WriterFacts
<1>4. /\ j \in [ring: Ups, pieces: Seq(Pieces), blocking: BOOLEAN, wr: Nat \cup {None}, chunk: Nat]
      /\ j.chunk \in Nat /\ j.chunk <= Len(s) /\ j.chunk <= AvailWriteSpace(x) /\ j.wr = x.wr
      /\ Ahead(x, c) /\ (~j.blocking => Len(j.pieces) = 1 /\ Len(s) <= AvailWriteSpace(x))
  BY <1>1, <1>2, <1>3 DEF Busy
<1>5. c \in Seq(Byte) /\ Len(c) = j.chunk
  BY <1>1, <1>3, <1>4
<1>6. PICK wr : wr = Wrapped(x.wr + j.chunk, x.size)
  OBVIOUS
<1>7. PICK p : p = [x EXCEPT !.wr = wr]
  OBVIOUS
<1>8. /\ IsRing(p) /\ p.size = x.size /\ Holds(p, stream[j.ring] \o c)
      /\ stream[j.ring] \o c \in Seq(Byte)
      /\ AvailWriteSpace(p) = AvailWriteSpace(x) - j.chunk
  <2>1. HasRoom(x, stream[j.ring], c)
    BY <1>3, <1>4, <1>5 DEF HasRoom
  <2>2. p = [x EXCEPT !.wr = Wrapped(x.wr + Len(c), x.size)]
    BY <1>5, <1>6, <1>7
  <2>3. Published(x, stream[j.ring], c, p)
    BY <1>4, <2>1, <2>2, PublishedRing
  <2>. QED  BY <1>5, <2>3 DEF Published
<1>9. p.wr = wr /\ wr \in Nat
  BY <1>3, <1>7, <1>8 DEF IsRing
<1>10. PICK left : left =
          IF j.chunk < Len(s)
          THEN [j EXCEPT !.pieces[1] = SubSeq(s, j.chunk + 1, Len(s)), !.wr = wr, !.chunk = 0]
          ELSE [j EXCEPT !.pieces = Tail(@), !.wr = None, !.chunk = 0]
  OBVIOUS
<1>11. PICK k : k = IF left.pieces = <<>> THEN Idle ELSE left
  OBVIOUS
<1>12. /\ Updated(ring, ring', j.ring, p) /\ job' = [job EXCEPT ![t] = k]
       /\ Updated(stream, stream', j.ring, stream[j.ring] \o c) /\ active' = active
  <2>1. /\ ring' = [ring EXCEPT ![j.ring].wr = wr]
        /\ stream' = [stream EXCEPT ![j.ring] = @ \o c] /\ active' = active
    BY <1>1, <1>4, <1>6 DEF Publish
  <2>2. job' = [job EXCEPT ![t] = k]
    BY <1>1, <1>4, <1>6, <1>10, <1>11 DEF Publish
  <2>3. ring' = [ring EXCEPT ![j.ring] = p]
    BY <1>1, <1>7, <2>1
  <2>. QED  BY <2>1, <2>2, <2>3 DEF RttInv, Updated
<1>13. k = Idle \/ (Busy(k, p) /\ k.ring = j.ring)
  <2>. SUFFICES ASSUME left.pieces # <<>> PROVE Busy(left, p) /\ left.ring = j.ring
    BY <1>11
  <2>1. Ahead(p, SubSeq(Head(left.pieces), 1, 0)) /\ AvailWriteSpace(p) \in Nat
    <3>1. p.size # 0
      BY <1>3, <1>8
    <3>2. AvailWriteSpace(p) \in Nat
      BY <1>8, <3>1, RoomOfRing
    <3>3. Len(SubSeq(Head(left.pieces), 1, 0)) = 0
      OBVIOUS
    <3>. QED  BY <3>2, <3>3 DEF Ahead
  <2>2. CASE j.chunk < Len(s)
    <3>1. PICK d : d = SubSeq(s, j.chunk + 1, Len(s))
      OBVIOUS
    <3>2. d \in Pieces /\ Len(d) = Len(s) - j.chunk
      <4>1. PICK m, n \in Nat : m = j.chunk /\ n = Len(s)
        BY <1>3, <1>4
      <4>2. m < n /\ SubSeq(s, m + 1, n) \in Seq(Byte) /\ Len(SubSeq(s, m + 1, n)) = n - m
        <5>1. m < n /\ m + 1 \in Int /\ n \in Int /\ \A i \in m + 1 .. n : s[i] \in Byte
          BY <1>3, <2>2, <4>1
        <5>. QED  BY <5>1, SubSeqProperties
      <4>3. d \in Seq(Byte) /\ Len(d) = n - m /\ n - m # 0
        BY <3>1, <4>1, <4>2
      <4>4. d # <<>>
        BY <4>3, EmptySeq
      <4>. QED  BY <4>1, <4>3, <4>4 DEF Pieces
    <3>3. PICK q : q = [j.pieces EXCEPT ![1] = d]
      OBVIOUS
    <3>4. q \in Seq(Pieces) /\ Len(q) = Len(j.pieces) /\ Head(q) = d /\ q # <<>>
      BY <1>3, <3>2, <3>3
    <3>5. left = [j EXCEPT !.pieces = q, !.wr = wr, !.chunk = 0]
      BY <1>4, <1>10, <2>2, <3>1, <3>3
    <3>6. /\ left.ring = j.ring /\ left.pieces = q /\ left.blocking = j.blocking
          /\ left.wr = wr /\ left.chunk = 0
          /\ left \in [ring: Ups, pieces: Seq(Pieces), blocking: BOOLEAN,
                       wr: Nat \cup {None}, chunk: Nat]
      BY <1>4, <1>9, <3>4, <3>5
    <3>7. ~j.blocking => Len(q) = 1 /\ Len(d) <= AvailWriteSpace(p)
      <4>1. AvailWriteSpace(x) \in Nat
        BY <1>3, FieldsOfRing
      <4>2. Len(s) \in Nat
        BY <1>3
      <4>. QED  BY <1>4, <1>8, <3>2, <3>4, <4>1, <4>2
    <3>. QED  BY <1>3, <1>8, <1>9, <2>1, <3>2, <3>4, <3>6, <3>7 DEF Busy
  <2>3. CASE ~(j.chunk < Len(s))
    <3>1. PICK q : q = Tail(j.pieces)
      OBVIOUS
    <3>2. q \in Seq(Pieces) /\ Len(q) = Len(j.pieces) - 1
      BY <1>3, <3>1
    <3>3. left = [j EXCEPT !.pieces = q, !.wr = None, !.chunk = 0]
      BY <1>10, <2>3, <3>1
    <3>4. /\ left.ring = j.ring /\ left.pieces = q /\ left.blocking = j.blocking
          /\ left.wr = None /\ left.chunk = 0
          /\ left \in [ring: Ups, pieces: Seq(Pieces), blocking: BOOLEAN,
                       wr: Nat \cup {None}, chunk: Nat]
      BY <1>4, <3>2, <3>3
    <3>5. j.blocking
      <4>1. q # <<>>
        BY <3>4
      <4>2. Len(q) # 0
        BY <3>2, <4>1, EmptySeq
      <4>3. Len(j.pieces) # 1
        BY <3>2, <4>2
      <4>. QED  BY <1>4, <4>3
    <3>6. Len(Head(q)) \in Nat
      <4>1. Head(q) \in Pieces
        BY <3>2, <3>4
      <4>. QED  BY <4>1 DEF Pieces
    <3>. QED  BY <1>3, <1>8, <2>1, <3>4, <3>5, <3>6 DEF Busy
  <2>. QED  BY <2>2, <2>3
<1>14. Sound(p, stream[j.ring] \o c) /\ p.size # 0
  BY <1>3, <1>8 DEF Sound
<1>. QED  BY <1>1, <1>2, <1>3, <1>12, <1>13, <1>14, OneWriterKept

-----------------------------------------------------------------------------
(***************************************************************************)
(* Readers, configuration and the host.                                    *)
(***************************************************************************)

\* The oldest n bytes are read; a write in progress does not mind.
LEMMA DrainKept ==
    ASSUME RttInv, NEW r \in Buffers, Open(r), NEW n \in Nat, n <= Used(ring[r]),
           DrainRing(r, n), UNCHANGED <<active, job>>
    PROVE  RttInv'
<1>1. PICK x, st : x = ring[r] /\ st = stream[r]
  OBVIOUS
<1>2. IsRing(x) /\ x.size # 0 /\ st \in Seq(Byte) /\ Holds(x, st) /\ n \in 0 .. Len(st)
  BY <1>1 DEF RttInv, Sound, Open, Holds
<1>3. PICK d : d = Drained(x, n)
  OBVIOUS
<1>4. PICK rest : rest = SubSeq(st, n + 1, Len(st))
  OBVIOUS
<1>5. /\ IsRing(d) /\ d.size = x.size /\ d.wr = x.wr
      /\ Holds(d, rest) /\ rest \in Seq(Byte)
      /\ AvailWriteSpace(d) = AvailWriteSpace(x) + n
      /\ \A s \in Seq(Byte) : Len(s) <= AvailWriteSpace(x) /\ Ahead(x, s) => Ahead(d, s)
  BY <1>2, <1>3, <1>4, DrainedRing
<1>6. Updated(ring, ring', r, d) /\ Updated(stream, stream', r, rest)
  <2>1. ring' = [ring EXCEPT ![r] = d] /\ stream' = [stream EXCEPT ![r] = rest]
    BY <1>1, <1>3, <1>4 DEF DrainRing
  <2>. QED  BY <2>1 DEF RttInv, Updated
<1>7. Sound(d, rest) /\ d.size # 0
  BY <1>2, <1>5 DEF Sound
<1>8. Initialised
  BY <1>1, <1>2 DEF RttInv
<1>9. ASSUME NEW t \in Tasks, job[t] # Idle, job[t].ring = r PROVE Busy(job[t], d)
  <2>1. PICK j : j = job[t]
    OBVIOUS
  <2>2. Busy(j, x) /\ Head(j.pieces) \in Seq(Byte)
    BY <1>1, <1>9, <2>1, WriterFacts
  <2>3. PICK s : s = SubSeq(Head(j.pieces), 1, j.chunk)
    OBVIOUS
  <2>4. /\ j.chunk \in Nat /\ j.chunk <= Len(Head(j.pieces)) /\ j.chunk <= AvailWriteSpace(x)
        /\ Ahead(x, s)
    BY <2>2, <2>3 DEF Busy
  <2>5. s \in Seq(Byte) /\ Len(s) = j.chunk
    BY <2>2, <2>3, <2>4
  <2>6. Ahead(d, s)
    BY <1>5, <2>4, <2>5
  <2>7. AvailWriteSpace(x) \in Nat /\ Len(Head(j.pieces)) \in Nat
    BY <1>2, <2>2, FieldsOfRing
  <2>8. /\ j.chunk <= AvailWriteSpace(d)
        /\ Len(Head(j.pieces)) <= AvailWriteSpace(x)
               => Len(Head(j.pieces)) <= AvailWriteSpace(d)
    BY <1>5, <2>4, <2>7
  <2>. QED  BY <1>5, <1>7, <2>1, <2>2, <2>3, <2>6, <2>8 DEF Busy
<1>. QED  BY <1>6, <1>7, <1>8, <1>9, OneBufferKept

\* A buffer changes while nobody writes.
LEMMA UnlockedKept ==
    ASSUME RttInv, Initialised, Unlocked, UNCHANGED <<active, job>>,
           NEW r \in Buffers, NEW x, NEW st, Sound(x, st), r = Terminal => x.size # 0,
           Updated(ring, ring', r, x), Updated(stream, stream', r, st)
    PROVE  RttInv'
<1>1. \A t \in Tasks : job[t] = Idle
  BY DEF Unlocked
<1>. QED  BY <1>1, OneBufferKept

\* SEGGER_RTT_ReadNoLock and its callers.
LEMMA ReadKept ==
    ASSUME RttInv, NEW r \in Buffers, NEW size \in Nat, ReadNoLock(r, size)
    PROVE  RttInv'
<1>1. Open(r) /\ UNCHANGED <<active, job>>
  BY DEF ReadNoLock
<1>2. PICK u \in Nat : u = Used(ring[r])
  BY <1>1, FieldsOfRing DEF RttInv, Sound, Open
<1>3. PICK n : n = Min({size, u})
  OBVIOUS
<1>4. n \in Nat /\ n <= u
  BY <1>3, MinOfTwo
<1>5. DrainRing(r, n)
  BY <1>2, <1>3 DEF ReadNoLock
<1>. QED  BY <1>1, <1>2, <1>4, <1>5, DrainKept

\* SEGGER_RTT_SetFlagsUpBuffer and _SetFlagsDownBuffer.
LEMMA SetFlagsKept ==
    ASSUME RttInv, NEW r \in Buffers, Calls(r), NEW m \in Modes, SetFlags(r, m)
    PROVE  RttInv'
<1>1. PICK x, st : x = ring[r] /\ st = stream[r]
  OBVIOUS
<1>2. Sound(x, st)
  BY <1>1 DEF RttInv
<1>3. PICK y : y = [x EXCEPT !.flags = m]
  OBVIOUS
<1>4. /\ y.size = x.size /\ y.buf = x.buf /\ y.rd = x.rd /\ y.wr = x.wr /\ IsRing(y)
  BY <1>2, <1>3 DEF Sound, IsRing
<1>5. Sound(y, st)
  BY <1>2, <1>4 DEF Sound, Holds, Used
<1>6. /\ Updated(ring, ring', r, y) /\ Updated(stream, stream', r, st)
      /\ UNCHANGED <<active, job>> /\ Unlocked /\ Initialised
  BY <1>1, <1>3 DEF SetFlags, RttInv, Updated, Calls
<1>7. r = Terminal => y.size # 0
  BY <1>1, <1>4, <1>6 DEF Initialised
<1>. QED  BY <1>5, <1>6, <1>7, UnlockedKept

\* A buffer gets its memory.
LEMMA ResetKept ==
    ASSUME RttInv, NEW r \in Buffers, Calls(r), NEW m \in Modes, Reset(r, ExtraSize, m)
    PROVE  RttInv'
<1>1. ExtraSize \in Nat \ {0, 1}
  BY RttSizesAssumption
<1>2. PICK x : x = Fresh(ExtraSize, m)
  OBVIOUS
<1>3. Sound(x, <<>>) /\ x.size # 0
  BY <1>1, <1>2, FreshRing
<1>4. /\ Updated(ring, ring', r, x) /\ Updated(stream, stream', r, <<>>)
      /\ UNCHANGED <<active, job>> /\ Unlocked /\ Initialised
  BY <1>2 DEF Reset, Calls, RttInv, Updated
<1>. QED  BY <1>3, <1>4, UnlockedKept

\* Placing s and moving WrOff past it, at once.
Appended(x, s) == [Placed(x, x.wr, s) EXCEPT !.wr = Wrapped(x.wr + Len(s), x.size)]

\* That is how a text gets into a buffer that its caller has to itself.
LEMMA AppendedRing ==
    ASSUME NEW x, NEW st, NEW s, HasRoom(x, st, s)
    PROVE  Sound(Appended(x, s), st \o s) /\ Appended(x, s).size = x.size
<1>y. PICK y : y = Appended(x, s)
  OBVIOUS
<1>1. PICK p : p = Placed(x, x.wr, s)
  OBVIOUS
<1>2. Copied(x, st, s, p)
  BY <1>1, PlacedRing
<1>3. HasRoom(p, st, s) /\ Ahead(p, s) /\ p.wr = x.wr /\ p.size = x.size /\ p.size # 0
  BY <1>2 DEF Copied, HasRoom
<1>4. y = [p EXCEPT !.wr = Wrapped(p.wr + Len(s), p.size)]
  BY <1>1, <1>3, <1>y DEF Appended
<1>5. Published(p, st, s, y)
  BY <1>3, <1>4, PublishedRing
<1>. QED  BY <1>3, <1>5, <1>y DEF Sound, Published

\* SEGGER_RTT_WriteWithOverwriteNoLock: the oldest bytes go.
LEMMA OverwriteKept ==
    ASSUME RttInv, NEW r \in Ups, NEW text \in Seq(Chars), WriteWithOverwrite(r, text)
    PROVE  RttInv'
<1>1. PICK x, st, s, lost :
         x = ring[r] /\ st = stream[r] /\ s = Text(r, text) /\ lost = Overwritten(x, text)
  OBVIOUS
<1>2. /\ Unlocked /\ Initialised /\ x.size # 0 /\ Len(text) < x.size /\ r \in Buffers
      /\ UNCHANGED <<active, job>>
      /\ ring' = [ring EXCEPT ![r] = [Placed(Drained(x, lost), x.wr, s)
             EXCEPT !.wr = Wrapped(x.wr + Len(text), x.size)]]
      /\ stream' = [stream EXCEPT ![r] = SubSeq(@ \o s, lost + 1, Len(@) + Len(text))]
  BY <1>1 DEF WriteWithOverwrite, Calls, Open, Buffers
<1>3. IsRing(x) /\ st \in Seq(Byte) /\ Holds(x, st)
  BY <1>1, <1>2 DEF RttInv, Sound
<1>4. s \in Seq(Byte) /\ Len(s) = Len(text)
  BY <1>1, TextIsBytes
<1>5. PICK L \in Nat : L = Len(s)
  BY <1>4
<1>6. PICK n \in Nat : n = Len(st)
  BY <1>3
<1>7. /\ AvailWriteSpace(x) = x.size - 1 - n /\ x.size \in Nat /\ L < x.size
  BY <1>2, <1>3, <1>4, <1>5, <1>6, FieldsOfRing DEF Holds
<1>8. lost = IF L > x.size - 1 - n THEN L - (x.size - 1 - n) ELSE 0
  BY <1>1, <1>4, <1>5, <1>7 DEF Overwritten
<1>9. lost \in 0 .. n /\ L <= x.size - 1 - n + lost
  <2>1. x.size - 1 - n \in Nat
    BY <1>2, <1>3, <1>7, RoomOfRing
  <2>. QED  BY <1>7, <1>8, <2>1
<1>10. PICK d : d = Drained(x, lost)
  OBVIOUS
<1>11. PICK rest : rest = SubSeq(st, lost + 1, Len(st))
  OBVIOUS
<1>12. /\ IsRing(d) /\ d.size = x.size /\ d.wr = x.wr /\ Holds(d, rest) /\ rest \in Seq(Byte)
       /\ AvailWriteSpace(d) = AvailWriteSpace(x) + lost
  BY <1>2, <1>3, <1>6, <1>9, <1>10, <1>11, DrainedRing
<1>13. PICK y : y = [Placed(d, d.wr, s) EXCEPT !.wr = Wrapped(d.wr + Len(s), d.size)]
  OBVIOUS
<1>14. Sound(y, rest \o s) /\ y.size = x.size
  <2>1. Len(s) <= AvailWriteSpace(d)
    BY <1>5, <1>7, <1>9, <1>12
  <2>2. HasRoom(d, rest, s)
    BY <1>2, <1>4, <1>12, <2>1 DEF HasRoom
  <2>3. y = Appended(d, s)
    BY <1>13 DEF Appended
  <2>. QED  BY <1>12, <2>2, <2>3, AppendedRing
<1>15. SubSeq(st \o s, lost + 1, Len(st) + Len(text)) = rest \o s
  <2>1. PICK w : w = st \o s
    OBVIOUS
  <2>2. /\ w \in Seq(Byte) /\ Len(w) = n + L
        /\ \A k \in 1 .. n + L : w[k] = IF k <= n THEN st[k] ELSE s[k - n]
    <3>1. /\ w \in Seq(Byte) /\ Len(w) = Len(st) + Len(s)
          /\ \A k \in 1 .. Len(st) + Len(s) :
                 w[k] = IF k <= Len(st) THEN st[k] ELSE s[k - Len(st)]
      BY <1>3, <1>4, <2>1, ConcatProperties
    <3>. QED  BY <1>5, <1>6, <3>1
  <2>3. PICK a : a = SubSeq(w, lost + 1, n + L)
    OBVIOUS
  <2>4. /\ a \in Seq(Byte) /\ Len(a) = n + L - lost
        /\ \A k \in 1 .. n + L - lost : a[k] = w[lost + k]
    BY <1>5, <1>6, <1>9, <2>2, <2>3
  <2>5. /\ Len(rest) = n - lost /\ \A k \in 1 .. n - lost : rest[k] = st[lost + k]
    BY <1>3, <1>6, <1>9, <1>11
  <2>6. PICK b : b = rest \o s
    OBVIOUS
  <2>7. /\ b \in Seq(Byte) /\ Len(b) = n + L - lost
        /\ \A k \in 1 .. n + L - lost : b[k] = IF k <= n - lost THEN rest[k] ELSE s[k - (n - lost)]
    <3>1. /\ b \in Seq(Byte) /\ Len(b) = Len(rest) + Len(s)
          /\ \A k \in 1 .. Len(rest) + Len(s) :
                 b[k] = IF k <= Len(rest) THEN rest[k] ELSE s[k - Len(rest)]
      BY <1>4, <1>12, <2>6, ConcatProperties
    <3>2. Len(rest) + Len(s) = n + L - lost
      BY <1>5, <1>6, <1>9, <2>5
    <3>. QED  BY <2>5, <3>1, <3>2
  <2>8. \A k \in 1 .. n + L - lost : a[k] = b[k]
    <3>. SUFFICES ASSUME NEW k \in 1 .. n + L - lost PROVE a[k] = b[k]
      OBVIOUS
    <3>1. lost + k \in 1 .. n + L /\ (lost + k <= n <=> k <= n - lost)
          /\ (lost + k) - n = k - (n - lost)
      BY <1>5, <1>6, <1>9
    <3>2. a[k] = IF lost + k <= n THEN st[lost + k] ELSE s[(lost + k) - n]
      BY <2>2, <2>4, <3>1
    <3>3. b[k] = IF k <= n - lost THEN rest[k] ELSE s[k - (n - lost)]
      BY <2>7
    <3>4. k <= n - lost => rest[k] = st[lost + k]
      BY <1>6, <1>9, <2>5
    <3>. QED  BY <3>1, <3>2, <3>3, <3>4
  <2>9. a = b
    BY <2>4, <2>7, <2>8
  <2>. QED  BY <1>4, <1>5, <1>6, <2>1, <2>3, <2>6, <2>9
<1>16. Updated(ring, ring', r, y) /\ Updated(stream, stream', r, rest \o s)
  <2>1. y = [Placed(Drained(x, lost), x.wr, s) EXCEPT !.wr = Wrapped(x.wr + Len(text), x.size)]
    BY <1>4, <1>10, <1>12, <1>13
  <2>2. stream' = [stream EXCEPT ![r] = rest \o s]
    BY <1>1, <1>2, <1>15
  <2>3. ring' = [ring EXCEPT ![r] = y]
    BY <1>2, <2>1
  <2>. QED  BY <2>2, <2>3 DEF RttInv, Updated
<1>. QED  BY <1>2, <1>14, <1>16, UnlockedKept

\* Someone types a character.
LEMMA HostTypesKept ==
    ASSUME RttInv, NEW r \in Downs, NEW c, <<c>> \in Seq(Chars), HostTypes(r, c)
    PROVE  RttInv'
<1>1. PICK x, st, s : x = ring[r] /\ st = stream[r] /\ s = For("0", <<c>>)
  OBVIOUS
<1>2. /\ x.size # 0 /\ AvailWriteSpace(x) > 0 /\ r \in Buffers /\ UNCHANGED <<active, job>>
      /\ ring' = [ring EXCEPT ![r] = [Placed(x, x.wr, s) EXCEPT !.wr = (@ + 1) % x.size]]
      /\ stream' = [stream EXCEPT ![r] = @ \o s]
  <2>1. /\ ring' = [ring EXCEPT ![r] = [Placed(ring[r], ring[r].wr, For("0", <<c>>))
               EXCEPT !.wr = (@ + 1) % ring[r].size]]
        /\ stream' = [stream EXCEPT ![r] = @ \o For("0", <<c>>)]
    BY DEF HostTypes
  <2>2. Open(r) /\ AvailWriteSpace(ring[r]) > 0 /\ UNCHANGED <<active, job>>
    BY DEF HostTypes
  <2>. QED  BY <1>1, <2>1, <2>2 DEF Open, Buffers
<1>3. IsRing(x) /\ st \in Seq(Byte) /\ Holds(x, st) /\ Initialised
  BY <1>1, <1>2 DEF RttInv, Sound
<1>4. s \in Seq(Byte) /\ Len(s) = 1
  <2>1. Chars \subseteq Bytes /\ "0" \in Terminals /\ Len(<<c>>) = 1
    BY RttBytesAssumption DEF Bytes
  <2>. QED  BY <1>1, <2>1, ForIsBytes
<1>5. AvailWriteSpace(x) \in Nat
  BY <1>2, <1>3, RoomOfRing
<1>6. PICK p : p = Placed(x, x.wr, s)
  OBVIOUS
<1>7. HasRoom(x, st, s) /\ p.wr = x.wr
  <2>1. HasRoom(x, st, s)
    BY <1>2, <1>3, <1>4, <1>5 DEF HasRoom
  <2>. QED  BY <1>6, <2>1, PlacedRing DEF Copied
<1>8. (x.wr + 1) % x.size = Wrapped(x.wr + Len(s), x.size)
  <2>1. x.size \in Nat \ {0} /\ x.wr + 1 \in 0 .. 2 * x.size - 1
    BY <1>2, <1>3, FieldsOfRing
  <2>. QED  BY <1>4, <2>1, WrappedIsMod
<1>9. PICK y : y = [p EXCEPT !.wr = Wrapped(x.wr + Len(s), x.size)]
  OBVIOUS
<1>10. Sound(y, st \o s) /\ y.size = x.size
  <2>1. y = Appended(x, s)
    BY <1>6, <1>9 DEF Appended
  <2>. QED  BY <1>7, <2>1, AppendedRing
<1>11. Updated(ring, ring', r, y) /\ Updated(stream, stream', r, st \o s)
  <2>1. [Placed(x, x.wr, s) EXCEPT !.wr = (@ + 1) % x.size] = y
    BY <1>6, <1>7, <1>8, <1>9
  <2>. QED  BY <1>1, <1>2, <2>1 DEF RttInv, Updated
<1>12. ASSUME NEW t \in Tasks, job[t] # Idle, job[t].ring = r PROVE FALSE
  BY <1>12, WriterFacts, BufferNames
<1>. QED  BY <1>2, <1>3, <1>10, <1>11, <1>12, OneBufferKept

\* INIT() of the first call.
LEMMA DoInitKept == ASSUME RttInv, DoInit PROVE RttInv'
<1>1. \A r \in Buffers : ring[r].size = 0 /\ stream[r] = <<>>
  BY DEF DoInit, RttInv, Sound
<1>2. \A t \in Tasks : job[t] = Idle
  <2>. SUFFICES ASSUME NEW t \in Tasks, job[t] # Idle PROVE FALSE
    OBVIOUS
  <2>. QED  BY WriterFacts DEF DoInit
<1>3. /\ DOMAIN ring' = Buffers /\ UNCHANGED <<active, job, stream>>
      /\ \A r \in Buffers : ring'[r] = CASE r = Terminal -> Fresh(BufferSizeUp, "SKIP")
                                         [] r = <<"down", 0>> -> Fresh(BufferSizeDown, "SKIP")
                                         [] OTHER -> Fresh(0, "SKIP")
  BY DEF DoInit, Buffers
<1>4. /\ BufferSizeUp \in Nat \ {0, 1} /\ BufferSizeDown \in Nat \ {0, 1} /\ "SKIP" \in Modes
      /\ Terminal # <<"down", 0>>
  BY RttSizesAssumption, BufferNames DEF Modes, Terminal
<1>5. /\ Sound(Fresh(BufferSizeUp, "SKIP"), <<>>) /\ Sound(Fresh(BufferSizeDown, "SKIP"), <<>>)
      /\ Sound(Fresh(0, "SKIP"), <<>>) /\ Fresh(BufferSizeUp, "SKIP").size # 0
  BY <1>4, FreshRing
<1>6. \A r \in Buffers : Sound(ring'[r], stream'[r])
  BY <1>1, <1>3, <1>5
<1>7. Initialised'
  BY <1>3, <1>4, <1>5, BufferNames DEF Initialised, Buffers
<1>8. \A t \in Tasks : job'[t] = Idle
  BY <1>2, <1>3
<1>9. OneWriter'
  BY <1>8 DEF OneWriter
<1>. QED  BY <1>3, <1>6, <1>7, <1>8, <1>9 DEF RttInv

\* The calls that configure buffers.
LEMMA ConfigCallsKept == ASSUME RttInv, ConfigCalls PROVE RttInv'
<1>1. TerminalModes \subseteq Modes /\ OtherModes \subseteq Modes
  BY RttModesAssumption DEF Modes
<1>2. ASSUME NEW dir \in {"up", "down"}, NEW m \in Modes, Alloc(dir, m) PROVE RttInv'
  <2>1. PICK i \in Indices : Calls(<<dir, i>>) /\ Reset(<<dir, i>>, ExtraSize, m)
    BY <1>2 DEF Alloc
  <2>2. <<dir, i>> \in Buffers
    BY BufferNames DEF Buffers
  <2>. QED  BY <2>1, <2>2, ResetKept
<1>3. ASSUME NEW r \in Buffers, NEW m \in Modes, Config(r, m) PROVE RttInv'
  BY <1>3, ResetKept, SetFlagsKept DEF Config
<1>4. ASSUME NEW i \in Indices, NEW m \in Modes,
             \/ ConfigUp(i, m) \/ ConfigDown(i, m) \/ SetFlagsUp(i, m) \/ SetFlagsDown(i, m)
      PROVE  RttInv'
  <2>1. <<"up", i>> \in Buffers /\ <<"down", i>> \in Buffers
    BY BufferNames DEF Buffers
  <2>. QED  BY <1>3, <1>4, <2>1, SetFlagsKept DEF ConfigUp, ConfigDown, SetFlagsUp, SetFlagsDown
<1>5. 0 \in Indices
  BY RttSizesAssumption DEF Indices
<1>6. CASE \E m \in TerminalModes : ConfigUp(0, m) \/ SetFlagsUp(0, m)
  BY <1>1, <1>4, <1>5, <1>6
<1>7. CASE \E m \in OtherModes : AllocUp(m) \/ AllocDown(m)
  BY <1>1, <1>2, <1>7 DEF AllocUp, AllocDown
<1>8. CASE \E m \in OtherModes : ConfigDown(0, m) \/ SetFlagsDown(0, m)
  BY <1>1, <1>4, <1>5, <1>8
<1>9. CASE \E m \in OtherModes, i \in Indices \ {0} :
               ConfigUp(i, m) \/ ConfigDown(i, m) \/ SetFlagsUp(i, m) \/ SetFlagsDown(i, m)
  BY <1>1, <1>4, <1>9
<1>. QED  BY <1>6, <1>7, <1>8, <1>9 DEF ConfigCalls

\* The calls that are one step.
LEMMA AtomicCallsKept == ASSUME RttInv, AtomicCalls PROVE RttInv'
<1>1. CASE \E r \in Ups, s \in Texts : WriteWithOverwrite(r, s)
  BY <1>1, TextFacts, OverwriteKept
<1>2. CASE \E r \in Ups, n \in 1 .. ExtraSize : ReadUp(r, n)
  BY <1>2, RttSizesAssumption, ReadKept DEF ReadUp, Buffers
<1>3. CASE \E r \in Downs, n \in 1 .. Max({BufferSizeDown, ExtraSize}) : ReadNoLock(r, n)
  BY <1>3, RttSizesAssumption, MaxOfTwo, ReadKept DEF Buffers
<1>4. CASE GetKey
  BY <1>4, BufferNames, ReadKept DEF GetKey, Buffers
<1>. QED  BY <1>1, <1>2, <1>3, <1>4 DEF AtomicCalls

\* The probe.
LEMMA ProbeKept == ASSUME RttInv, Probe PROVE RttInv'
<1>1. CASE \E r \in Ups, n \in 1 .. Max({BufferSizeUp, ExtraSize}) - 1 : HostReads(r, n)
  <2>1. PICK r \in Ups, n \in 1 .. Max({BufferSizeUp, ExtraSize}) - 1 : HostReads(r, n)
    BY <1>1
  <2>2. n \in Nat /\ r \in Buffers
    BY RttSizesAssumption, MaxOfTwo DEF Buffers
  <2>3. Open(r) /\ n <= Used(ring[r]) /\ DrainRing(r, n) /\ UNCHANGED <<active, job>>
    BY <2>1 DEF HostReads
  <2>. QED  BY <2>2, <2>3, DrainKept
<1>2. CASE \E r \in Downs, c \in Keys : HostTypes(r, c)
  BY <1>2, TextFacts, HostTypesKept
<1>. QED  BY <1>1, <1>2 DEF Probe

-----------------------------------------------------------------------------
(***************************************************************************)
(* Room.  A write in a mode that does not wait has looked for what it      *)
(* needs, and the room lasts: the reader only adds to it.                  *)
(***************************************************************************)

\* The write j, to the buffer x, will not wait.
Fits(j, x) == x.flags # "BLOCK" => Len(j.pieces) <= 3 /\ Needs(j.pieces) <= AvailWriteSpace(x)

RoomInv == \A t \in Tasks : job[t] # Idle => Fits(job[t], ring[job[t].ring])

\* One piece and three.
LEMMA NeedsFacts ==
    /\ \A a \in Seq(Byte) : Needs(<<a>>) = Len(a)
    /\ \A a, b \in Seq(Byte) : Needs(<<a, b>>) = Len(a) + Len(b)
    /\ \A a, b, c \in Seq(Byte) : Needs(<<a, b, c>>) = Len(a) + Len(b) + Len(c)
<1>1. ASSUME NEW a \in Seq(Byte) PROVE Needs(<<a>>) = Len(a)
  BY DEF Needs, LengthOf
<1>2. ASSUME NEW a \in Seq(Byte), NEW b \in Seq(Byte) PROVE Needs(<<a, b>>) = Len(a) + Len(b)
  BY DEF Needs, LengthOf
<1>3. ASSUME NEW a \in Seq(Byte), NEW b \in Seq(Byte), NEW c \in Seq(Byte)
      PROVE  Needs(<<a, b, c>>) = Len(a) + Len(b) + Len(c)
  BY DEF Needs, LengthOf
<1>. QED  BY <1>1, <1>2, <1>3

\* The first piece gets shorter, or is done.
LEMMA NeedsLess ==
    ASSUME NEW s \in Seq(Pieces), s # <<>>, Len(s) <= 3
    PROVE  /\ Needs(s) \in Nat /\ Needs(Tail(s)) = Needs(s) - Len(Head(s))
           /\ \A d \in Pieces : Needs([s EXCEPT ![1] = d]) = Needs(s) - Len(Head(s)) + Len(d)
<1>1. Len(s) \in 1 .. 3 /\ DOMAIN s = 1 .. Len(s) /\ Head(s) = s[1]
      /\ \A k \in 1 .. Len(s) : s[k] \in Pieces
  <2>1. Len(s) \in Nat /\ Len(s) # 0 /\ DOMAIN s = 1 .. Len(s) /\ Head(s) = s[1]
    OBVIOUS
  <2>2. \A k \in 1 .. Len(s) : s[k] \in Pieces
    OBVIOUS
  <2>. QED  BY <2>1, <2>2
<1>2. \A x \in Pieces : Len(x) \in Nat
  BY DEF Pieces
<1>3. \A k \in 1 .. 3 : LengthOf(s, k) \in Nat
  BY <1>1, <1>2 DEF LengthOf
<1>4. LengthOf(s, 1) = Len(Head(s)) /\ LengthOf(s, 4) = 0
  BY <1>1 DEF LengthOf
<1>5. ASSUME NEW k \in 1 .. 3 PROVE LengthOf(Tail(s), k) = LengthOf(s, k + 1)
  <2>1. DOMAIN Tail(s) = 1 .. Len(s) - 1
    BY <1>1
  <2>2. CASE k \in 1 .. Len(s) - 1
    <3>1. Tail(s)[k] = s[k + 1] /\ k + 1 \in 1 .. Len(s)
      BY <1>1, <2>2
    <3>. QED  BY <1>1, <2>1, <2>2, <3>1 DEF LengthOf
  <2>3. CASE k \notin 1 .. Len(s) - 1
    BY <1>1, <2>1, <2>3 DEF LengthOf
  <2>. QED  BY <2>2, <2>3
<1>6. Needs(s) \in Nat /\ Needs(Tail(s)) = Needs(s) - Len(Head(s))
  <2>1. /\ LengthOf(Tail(s), 1) = LengthOf(s, 2) /\ LengthOf(Tail(s), 2) = LengthOf(s, 3)
        /\ LengthOf(Tail(s), 3) = LengthOf(s, 4)
    BY <1>5
  <2>2. LengthOf(s, 1) \in Nat /\ LengthOf(s, 2) \in Nat /\ LengthOf(s, 3) \in Nat
    BY <1>3
  <2>. QED  BY <1>4, <2>1, <2>2 DEF Needs
<1>7. ASSUME NEW d \in Pieces PROVE Needs([s EXCEPT ![1] = d]) = Needs(s) - Len(Head(s)) + Len(d)
  <2>1. PICK v : v = [s EXCEPT ![1] = d]
    OBVIOUS
  <2>2. DOMAIN v = 1 .. Len(s) /\ v[1] = d /\ \A k \in 2 .. Len(s) : v[k] = s[k]
    BY <1>1, <2>1
  <2>3. /\ LengthOf(v, 1) = Len(d) /\ LengthOf(v, 2) = LengthOf(s, 2)
        /\ LengthOf(v, 3) = LengthOf(s, 3)
    BY <1>1, <2>2 DEF LengthOf
  <2>4. LengthOf(s, 2) \in Nat /\ LengthOf(s, 3) \in Nat /\ Len(d) \in Nat /\ Len(Head(s)) \in Nat
    BY <1>1, <1>2, <1>3
  <2>5. Needs(v) = Needs(s) - Len(Head(s)) + Len(d)
    BY <1>4, <2>3, <2>4 DEF Needs
  <2>. QED  BY <2>1, <2>5
<1>. QED  BY <1>6, <1>7

\* Between writes there is nobody to wait.
LEMMA NobodyWrites ==
    ASSUME Unlocked, UNCHANGED job
    PROVE  RoomInv'
BY DEF Unlocked, RoomInv

\* A call has looked for the room that its pieces need.
LEMMA BeginFits ==
    ASSUME Unlocked, DOMAIN job = Tasks, NEW t \in Tasks, NEW r, NEW pieces, NEW blocking,
           Begin(t, r, pieces, blocking),
           ring[r].flags # "BLOCK" =>
               Len(pieces) <= 3 /\ Needs(pieces) <= AvailWriteSpace(ring[r])
    PROVE  RoomInv'
<1>1. PICK k : k = [Idle EXCEPT !.ring = r, !.pieces = pieces, !.blocking = blocking]
  OBVIOUS
<1>2. k.ring = r /\ k.pieces = pieces
  BY <1>1 DEF Idle
<1>3. job' = [job EXCEPT ![t] = k] /\ ring' = ring
  BY <1>1 DEF Begin
<1>4. \A u \in Tasks : job'[u] # Idle => u = t
  BY <1>3 DEF Unlocked
<1>5. job'[t] = k
  BY <1>3
<1>6. Fits(k, ring[r])
  BY <1>2 DEF Fits
<1>. QED  BY <1>2, <1>3, <1>4, <1>5, <1>6 DEF RoomInv

\* A call of one piece.
LEMMA BeginOneFits ==
    ASSUME RttInv, Unlocked, NEW t \in Tasks, NEW r, NEW s \in Seq(Byte), NEW blocking,
           Begin(t, r, <<s>>, blocking),
           ring[r].flags # "BLOCK" => Len(s) <= AvailWriteSpace(ring[r])
    PROVE  RoomInv'
<1>1. Len(<<s>>) = 1 /\ Needs(<<s>>) = Len(s) /\ DOMAIN job = Tasks
  BY NeedsFacts DEF RttInv
<1>2. ring[r].flags # "BLOCK" => Len(<<s>>) <= 3 /\ Needs(<<s>>) <= AvailWriteSpace(ring[r])
  BY <1>1
<1>. QED  BY <1>1, <1>2, BeginFits

\* SEGGER_RTT_Write, _WriteSkipNoLock, _PutChar and their callers.
LEMMA WritesFit ==
    ASSUME RttInv, NEW t \in Tasks, NEW r \in Ups, NEW text \in Seq(Chars),
           \/ Write(t, r, text) \/ WriteSkip(t, r, text)
           \/ \E c : text = <<c>> /\ PutChar(t, r, c)
    PROVE  RoomInv'
<1>1. PICK s : s = Text(r, text)
  OBVIOUS
<1>2. s \in Seq(Byte) /\ Len(s) = Len(text) /\ Unlocked /\ Open(r)
  BY <1>1, TextIsBytes DEF Write, WriteSkip, PutChar, Calls
<1>3. PICK avail \in Nat : avail = AvailWriteSpace(ring[r])
  BY <1>2, RoomIsNat DEF Buffers
<1>4. CASE Write(t, r, text)
  <2>1. PICK n : n = Min({avail, Len(s)})
    OBVIOUS
  <2>2. n \in Nat /\ n <= avail /\ n <= Len(s)
    BY <1>2, <1>3, <2>1, MinOfTwo
  <2>3. SubSeq(s, 1, n) \in Seq(Byte) /\ Len(SubSeq(s, 1, n)) = n
    BY <1>2, <2>2
  <2>4. \/ Len(s) <= avail /\ Begin(t, r, <<s>>, FALSE)
        \/ Begin(t, r, <<SubSeq(s, 1, n)>>, FALSE)
        \/ ring[r].flags = "BLOCK" /\ Begin(t, r, <<s>>, TRUE)
    BY <1>1, <1>3, <1>4, <2>1 DEF Write, WriteNoLock
  <2>. QED  BY <1>2, <1>3, <2>2, <2>3, <2>4, BeginOneFits
<1>5. CASE WriteSkip(t, r, text)
  BY <1>1, <1>2, <1>5, BeginOneFits DEF WriteSkip
<1>6. CASE \E c : text = <<c>> /\ PutChar(t, r, c)
  <2>1. \/ ring[r].flags = "BLOCK" /\ Len(s) = 1
        \/ Len(s) = 1 /\ avail > 0
    BY <1>2, <1>3, <1>6 DEF PutChar
  <2>2. PICK blocking : Begin(t, r, <<s>>, blocking)
    BY <1>1, <1>6 DEF PutChar
  <2>3. ASSUME ring[r].flags # "BLOCK" PROVE Len(s) <= AvailWriteSpace(ring[r])
    <3>1. Len(s) = 1 /\ avail > 0
      BY <2>1, <2>3
    <3>2. Len(s) <= avail
      BY <3>1
    <3>. QED  BY <1>3, <3>2
  <2>. QED  BY <1>2, <2>2, <2>3, BeginOneFits
<1>. QED  BY <1>4, <1>5, <1>6

\* SEGGER_RTT_SetTerminal
LEMMA SetTerminalFits ==
    ASSUME RttInv, NEW t \in Tasks, NEW id \in Terminals, SetTerminal(t, id)
    PROVE  RoomInv'
<1>1. Switch(id) \in Seq(Byte) /\ Len(Switch(id)) = 2 /\ Unlocked /\ Open(Terminal)
  BY SwitchIsBytes DEF SetTerminal, Calls, Initialised, Open
<1>2. AvailWriteSpace(ring[Terminal]) \in Nat
  BY <1>1, RoomIsNat, BufferNames DEF Buffers
<1>3. /\ ring[Terminal].flags = "BLOCK" \/ AvailWriteSpace(ring[Terminal]) >= 2
      /\ Begin(t, Terminal, <<Switch(id)>>, ring[Terminal].flags = "BLOCK")
  BY DEF SetTerminal
<1>. QED  BY <1>1, <1>2, <1>3, BeginOneFits

\* SEGGER_RTT_TerminalOut: the text and two switches of two bytes.
LEMMA TerminalOutFits ==
    ASSUME RttInv, NEW t \in Tasks, NEW id \in Terminals, NEW text \in Seq(Chars),
           TerminalOut(t, id, text)
    PROVE  RoomInv'
<1>1. Unlocked /\ Open(Terminal) /\ active \in Terminals /\ DOMAIN job = Tasks
  BY DEF TerminalOut, Calls, Initialised, Open, RttInv
<1>2. PICK avail \in Nat : avail = AvailWriteSpace(ring[Terminal])
  BY <1>1, RoomIsNat, BufferNames DEF Buffers
<1>3. ASSUME NEW x \in Seq(Chars)
      PROVE  Len(Out(id, x)) <= 3 /\ Needs(Out(id, x)) = Len(x) + 4
  <2>1. PICK a, b, c \in Seq(Byte) : a = Switch(id) /\ b = For(id, x) /\ c = Switch(active)
    BY <1>1, SwitchIsBytes, ForIsBytes DEF Bytes
  <2>2. Len(a) = 2 /\ Len(c) = 2 /\ Len(b) = Len(x)
    BY <1>1, <2>1, SwitchIsBytes, ForIsBytes DEF Bytes
  <2>3. CASE x = <<>>
    <3>1. Out(id, x) = <<a, c>> /\ Len(x) = 0 /\ Len(<<a, c>>) = 2
      BY <2>1, <2>3 DEF Out
    <3>2. Needs(<<a, c>>) = Len(a) + Len(c)
      BY NeedsFacts
    <3>. QED  BY <2>2, <3>1, <3>2
  <2>4. CASE x # <<>>
    <3>1. Out(id, x) = <<a, b, c>> /\ Len(<<a, b, c>>) = 3 /\ Len(x) \in Nat
      BY <2>1, <2>4 DEF Out
    <3>2. Needs(<<a, b, c>>) = Len(a) + Len(b) + Len(c)
      BY NeedsFacts
    <3>. QED  BY <2>2, <3>1, <3>2
  <2>. QED  BY <2>3, <2>4
<1>4. CASE (ring[Terminal].flags = "BLOCK" \/ avail >= Len(text) + 4)
           /\ Begin(t, Terminal, Out(id, text), TRUE)
  BY <1>1, <1>2, <1>3, <1>4, BeginFits
<1>5. CASE avail >= 4 /\ Begin(t, Terminal, Out(id, Trimmed(text, avail)), TRUE)
  <2>1. PICK n : n = Min({Len(text), avail - 4})
    OBVIOUS
  <2>2. avail - 4 \in Nat /\ Len(text) \in Nat
    BY <1>5
  <2>3. n \in Nat /\ n <= Len(text) /\ n <= avail - 4
    BY <2>1, <2>2, MinOfTwo
  <2>4. SubSeq(text, 1, n) \in Seq(Chars) /\ Len(SubSeq(text, 1, n)) = n
    BY <2>3
  <2>5. PICK x \in Seq(Chars) : x = Trimmed(text, avail) /\ Len(x) = n
    BY <2>1, <2>4 DEF Trimmed
  <2>6. Len(Out(id, x)) <= 3 /\ Needs(Out(id, x)) <= avail
    BY <1>3, <2>2, <2>3, <2>5
  <2>. QED  BY <1>1, <1>2, <1>5, <2>5, <2>6, BeginFits
<1>. QED  BY <1>2, <1>4, <1>5 DEF TerminalOut

\* The calls that begin a write.
LEMMA WriteCallsFit == ASSUME RttInv, NEW t \in Tasks, WriteCalls(t) PROVE RoomInv'
<1>1. CASE \E r \in Ups, s \in Texts : Write(t, r, s) \/ WriteSkip(t, r, s)
  BY <1>1, TextFacts, WritesFit
<1>2. CASE \E r \in Ups, c \in Keys : PutChar(t, r, c) \/ PutCharSkip(t, r, c)
  BY <1>2, TextFacts, WritesFit DEF PutCharSkip
<1>. QED  BY <1>1, <1>2, TextFacts, SetTerminalFits, TerminalOutFits DEF WriteCalls

\* The writer's buffer and its job change, and no other writer is there.
LEMMA WriterFits ==
    ASSUME RttInv, NEW t \in Tasks, job[t] # Idle, NEW r \in Buffers, r = job[t].ring, NEW x, NEW j,
           Updated(ring, ring', r, x), job' = [job EXCEPT ![t] = j],
           j = Idle \/ (j.ring = r /\ Fits(j, x))
    PROVE  RoomInv'
<1>1. \A u \in Tasks : u # t => job'[u] = Idle
  BY WriterFacts
<1>2. job'[t] = j /\ ring'[r] = x
  BY DEF RttInv, Updated
<1>. QED  BY <1>1, <1>2 DEF RoomInv

\* A round copies.
LEMMA CopyFits == ASSUME RttInv, RoomInv, NEW t \in Tasks, Copy(t) PROVE RoomInv'
<1>1. PICK j, x, n, s :
         j = job[t] /\ x = ring[j.ring] /\ n = ChunkOf(j) /\ s = SubSeq(Head(j.pieces), 1, n)
  OBVIOUS
<1>2. /\ job[t] # Idle /\ ring' = [ring EXCEPT ![j.ring] = Placed(x, From(j), s)]
      /\ job' = [job EXCEPT ![t].chunk = n, ![t].wr = From(j)]
  BY <1>1 DEF Copy
<1>3. /\ j.ring \in Buffers /\ Busy(j, x) /\ IsRing(x) /\ x.size # 0
      /\ stream[j.ring] \in Seq(Byte) /\ Holds(x, stream[j.ring])
      /\ Head(j.pieces) \in Seq(Byte) /\ From(j) = x.wr
      /\ n \in 0 .. Len(Head(j.pieces)) /\ n <= AvailWriteSpace(x)
  BY <1>1, <1>2, WriterFacts, ChunkFits
<1>4. PICK p : p = Placed(x, x.wr, s)
  OBVIOUS
<1>5. p.flags = x.flags /\ AvailWriteSpace(p) = AvailWriteSpace(x)
  <2>1. s \in Seq(Byte) /\ Len(s) = n
    BY <1>1, <1>3
  <2>2. HasRoom(x, stream[j.ring], s)
    BY <1>3, <2>1 DEF HasRoom
  <2>. QED  BY <1>4, <2>2, PlacedRing DEF Copied
<1>6. PICK k : k = [j EXCEPT !.chunk = n, !.wr = x.wr]
  OBVIOUS
<1>7. k.ring = j.ring /\ k.pieces = j.pieces
  BY <1>3, <1>6 DEF Busy
<1>8. Fits(k, p)
  BY <1>1, <1>2, <1>5, <1>7 DEF RoomInv, Fits
<1>9. Updated(ring, ring', j.ring, p) /\ job' = [job EXCEPT ![t] = k]
  <2>1. job' = [job EXCEPT ![t] = k]
    BY <1>1, <1>2, <1>3, <1>6
  <2>. QED  BY <1>2, <1>3, <1>4, <2>1 DEF RttInv, Updated
<1>. QED  BY <1>1, <1>2, <1>3, <1>7, <1>8, <1>9, WriterFits

\* A round publishes what it has copied, and that is no longer needed.
LEMMA PublishFits == ASSUME RttInv, RoomInv, NEW t \in Tasks, Publish(t) PROVE RoomInv'
<1>1. PICK j, x, s, c :
         /\ j = job[t] /\ x = ring[j.ring]
         /\ s = Head(j.pieces) /\ c = SubSeq(s, 1, j.chunk)
  OBVIOUS
<1>2. job[t] # Idle /\ j.chunk > 0
  BY <1>1 DEF Publish
<1>3. /\ j.ring \in Buffers /\ Busy(j, x) /\ IsRing(x) /\ x.size # 0
      /\ stream[j.ring] \in Seq(Byte) /\ Holds(x, stream[j.ring])
      /\ s \in Seq(Byte) /\ s # <<>> /\ j.pieces \in Seq(Pieces) /\ j.pieces # <<>>
  BY <1>1, <1>2, WriterFacts
<1>4. /\ j \in [ring: Ups, pieces: Seq(Pieces), blocking: BOOLEAN, wr: Nat \cup {None}, chunk: Nat]
      /\ j.chunk \in Nat /\ j.chunk <= Len(s) /\ j.chunk <= AvailWriteSpace(x) /\ j.wr = x.wr
      /\ Ahead(x, c)
  BY <1>1, <1>2, <1>3 DEF Busy
<1>5. PICK wr : wr = Wrapped(x.wr + j.chunk, x.size)
  OBVIOUS
<1>6. PICK p : p = [x EXCEPT !.wr = wr]
  OBVIOUS
<1>7. p.flags = x.flags /\ AvailWriteSpace(p) = AvailWriteSpace(x) - j.chunk
  <2>1. c \in Seq(Byte) /\ Len(c) = j.chunk
    BY <1>1, <1>3, <1>4
  <2>2. HasRoom(x, stream[j.ring], c)
    BY <1>3, <1>4, <2>1 DEF HasRoom
  <2>3. p = [x EXCEPT !.wr = Wrapped(x.wr + Len(c), x.size)]
    BY <1>5, <1>6, <2>1
  <2>4. Published(x, stream[j.ring], c, p)
    BY <1>4, <2>2, <2>3, PublishedRing
  <2>. QED  BY <2>1, <2>4 DEF Published
<1>8. PICK left : left =
          IF j.chunk < Len(s)
          THEN [j EXCEPT !.pieces[1] = SubSeq(s, j.chunk + 1, Len(s)), !.wr = wr, !.chunk = 0]
          ELSE [j EXCEPT !.pieces = Tail(@), !.wr = None, !.chunk = 0]
  OBVIOUS
<1>9. PICK k : k = IF left.pieces = <<>> THEN Idle ELSE left
  OBVIOUS
<1>10. Updated(ring, ring', j.ring, p) /\ job' = [job EXCEPT ![t] = k]
  <2>1. ring' = [ring EXCEPT ![j.ring].wr = wr]
    BY <1>1, <1>4, <1>5 DEF Publish
  <2>2. job' = [job EXCEPT ![t] = k]
    BY <1>1, <1>4, <1>5, <1>8, <1>9 DEF Publish
  <2>3. ring' = [ring EXCEPT ![j.ring] = p]
    BY <1>1, <1>6, <2>1
  <2>. QED  BY <2>2, <2>3 DEF RttInv, Updated
<1>11. left.ring = j.ring /\ Fits(left, p)
  <2>1. Fits(j, x) /\ AvailWriteSpace(x) \in Nat
    BY <1>1, <1>2, <1>3, RoomOfRing DEF RoomInv
  <2>2. CASE j.chunk < Len(s)
    <3>1. PICK d : d = SubSeq(s, j.chunk + 1, Len(s))
      OBVIOUS
    <3>2. d \in Pieces /\ Len(d) = Len(s) - j.chunk
      <4>1. PICK m, n \in Nat : m = j.chunk /\ n = Len(s)
        BY <1>3, <1>4
      <4>2. m < n /\ SubSeq(s, m + 1, n) \in Seq(Byte) /\ Len(SubSeq(s, m + 1, n)) = n - m
        <5>1. m < n /\ m + 1 \in Int /\ n \in Int /\ \A i \in m + 1 .. n : s[i] \in Byte
          BY <1>3, <2>2, <4>1
        <5>. QED  BY <5>1, SubSeqProperties
      <4>3. d \in Seq(Byte) /\ Len(d) = n - m /\ n - m # 0
        BY <3>1, <4>1, <4>2
      <4>4. d # <<>>
        BY <4>3, EmptySeq
      <4>. QED  BY <4>1, <4>3, <4>4 DEF Pieces
    <3>3. PICK q : q = [j.pieces EXCEPT ![1] = d]
      OBVIOUS
    <3>4. Len(q) = Len(j.pieces)
      BY <1>3, <3>2, <3>3
    <3>5. left = [j EXCEPT !.pieces = q, !.wr = wr, !.chunk = 0]
      BY <1>4, <1>8, <2>2, <3>1, <3>3
    <3>6. left.ring = j.ring /\ left.pieces = q
      BY <1>4, <3>5
    <3>7. ASSUME x.flags # "BLOCK" PROVE Len(q) <= 3 /\ Needs(q) <= AvailWriteSpace(p)
      <4>1. Len(j.pieces) <= 3 /\ Needs(j.pieces) <= AvailWriteSpace(x)
        BY <2>1, <3>7 DEF Fits
      <4>2. Needs(j.pieces) \in Nat /\ Needs(q) = Needs(j.pieces) - Len(s) + Len(d)
        BY <1>1, <1>3, <3>2, <3>3, <4>1, NeedsLess
      <4>3. Len(s) \in Nat
        BY <1>3
      <4>. QED  BY <1>4, <1>7, <2>1, <3>2, <3>4, <4>1, <4>2, <4>3
    <3>. QED  BY <1>7, <3>6, <3>7 DEF Fits
  <2>3. CASE ~(j.chunk < Len(s))
    <3>1. PICK q : q = Tail(j.pieces)
      OBVIOUS
    <3>2. left = [j EXCEPT !.pieces = q, !.wr = None, !.chunk = 0]
      BY <1>8, <2>3, <3>1
    <3>3. left.ring = j.ring /\ left.pieces = q
      BY <1>4, <3>2
    <3>4. ASSUME x.flags # "BLOCK" PROVE Len(q) <= 3 /\ Needs(q) <= AvailWriteSpace(p)
      <4>1. Len(j.pieces) <= 3 /\ Needs(j.pieces) <= AvailWriteSpace(x)
        BY <2>1, <3>4 DEF Fits
      <4>2. Needs(j.pieces) \in Nat /\ Needs(q) = Needs(j.pieces) - Len(s)
        BY <1>1, <1>3, <3>1, <4>1, NeedsLess
      <4>3. Len(s) \in Nat /\ j.chunk = Len(s)
        BY <1>3, <1>4, <2>3
      <4>4. Len(q) = Len(j.pieces) - 1 /\ Len(j.pieces) \in Nat
        BY <1>3, <3>1
      <4>. QED  BY <1>7, <2>1, <4>1, <4>2, <4>3, <4>4
    <3>. QED  BY <1>7, <3>3, <3>4 DEF Fits
  <2>. QED  BY <2>2, <2>3
<1>. QED  BY <1>1, <1>2, <1>3, <1>9, <1>10, <1>11, WriterFits

\* The probe, or a task, makes room by reading, and input is another buffer.
LEMMA ReadersKeepRoom ==
    ASSUME RttInv, RoomInv, UNCHANGED job, NEW r \in Buffers, NEW x, ring' = [ring EXCEPT ![r] = x],
           r \in Ups => x.flags = ring[r].flags /\ AvailWriteSpace(ring[r]) \in Nat
                        /\ \E n \in Nat : AvailWriteSpace(x) = AvailWriteSpace(ring[r]) + n
    PROVE  RoomInv'
<1>. SUFFICES ASSUME NEW t \in Tasks, job[t] # Idle PROVE Fits(job[t], ring'[job[t].ring])
  BY DEF RoomInv
<1>1. PICK j : j = job[t]
  OBVIOUS
<1>2. Fits(j, ring[j.ring]) /\ j.ring \in Ups /\ DOMAIN ring = Buffers /\ Busy(j, ring[j.ring])
  BY <1>1, WriterFacts DEF RoomInv, RttInv
<1>3. CASE j.ring # r
  BY <1>1, <1>2, <1>3
<1>4. CASE j.ring = r
  <2>1. ring'[r] = x
    BY <1>2
  <2>2. PICK n \in Nat : AvailWriteSpace(x) = AvailWriteSpace(ring[r]) + n
    BY <1>2, <1>4
  <2>3. AvailWriteSpace(ring[r]) \in Nat /\ x.flags = ring[r].flags
    BY <1>2, <1>4
  <2>4. ASSUME x.flags # "BLOCK" PROVE Len(j.pieces) <= 3 /\ Needs(j.pieces) <= AvailWriteSpace(x)
    <3>1. Len(j.pieces) <= 3 /\ Needs(j.pieces) <= AvailWriteSpace(ring[r])
      BY <1>2, <1>4, <2>3, <2>4 DEF Fits
    <3>2. Needs(j.pieces) \in Nat
      BY <1>2, <3>1, NeedsLess DEF Busy
    <3>. QED  BY <2>2, <2>3, <3>1, <3>2
  <2>. QED  BY <1>1, <1>4, <2>1, <2>4 DEF Fits
<1>. QED  BY <1>3, <1>4

\* The host.
LEMMA ProbeFits == ASSUME RttInv, RoomInv, Probe PROVE RoomInv'
<1>1. CASE \E r \in Ups, n \in 1 .. Max({BufferSizeUp, ExtraSize}) - 1 : HostReads(r, n)
  <2>1. PICK r \in Ups, n \in 1 .. Max({BufferSizeUp, ExtraSize}) - 1 : HostReads(r, n)
    BY <1>1
  <2>2. n \in Nat /\ r \in Buffers
    BY RttSizesAssumption, MaxOfTwo DEF Buffers
  <2>3. PICK d : d = Drained(ring[r], n)
    OBVIOUS
  <2>4. Open(r) /\ n <= Used(ring[r]) /\ ring' = [ring EXCEPT ![r] = d] /\ UNCHANGED job
    BY <2>1, <2>3 DEF HostReads, DrainRing
  <2>5. d.flags = ring[r].flags /\ AvailWriteSpace(d) = AvailWriteSpace(ring[r]) + n
    <3>1. PICK x, st : x = ring[r] /\ st = stream[r]
      OBVIOUS
    <3>2. IsRing(x) /\ x.size # 0 /\ st \in Seq(Byte) /\ Holds(x, st)
      BY <2>2, <2>4, <3>1 DEF RttInv, Sound, Open
    <3>3. n \in 0 .. Len(st)
      BY <2>2, <2>4, <3>1, <3>2 DEF Holds
    <3>. QED  BY <2>3, <3>1, <3>2, <3>3, DrainedRing
  <2>6. AvailWriteSpace(ring[r]) \in Nat
    BY <2>2, <2>4, RoomIsNat
  <2>. QED  BY <2>2, <2>4, <2>5, <2>6, ReadersKeepRoom
<1>2. CASE \E r \in Downs, c \in Keys : HostTypes(r, c)
  <2>1. PICK r \in Downs, c \in Keys : HostTypes(r, c)
    BY <1>2
  <2>2. UNCHANGED job /\ \E x : ring' = [ring EXCEPT ![r] = x]
    BY <2>1 DEF HostTypes
  <2>3. r \in Buffers /\ r \notin Ups
    BY BufferNames DEF Buffers
  <2>. QED  BY <2>2, <2>3, ReadersKeepRoom
<1>. QED  BY <1>1, <1>2 DEF Probe

\* Calls that are one step, or configure buffers, have the lock.
LEMMA OthersFit ==
    ASSUME RttInv, DoInit \/ AtomicCalls \/ ConfigCalls
    PROVE  RoomInv'
<1>1. CASE DoInit
  <2>1. \A t \in Tasks : job[t] = Idle
    BY <1>1, WriterFacts DEF DoInit
  <2>. QED  BY <1>1, <2>1, NobodyWrites DEF DoInit, Unlocked
<1>2. CASE AtomicCalls
  <2>1. Unlocked /\ UNCHANGED job
    BY <1>2 DEF AtomicCalls, WriteWithOverwrite, ReadUp, ReadNoLock, GetKey, Calls
  <2>. QED  BY <2>1, NobodyWrites
<1>3. CASE ConfigCalls
  <2>1. Unlocked /\ UNCHANGED job
    BY <1>3 DEF ConfigCalls, AllocUp, AllocDown, Alloc, ConfigUp, ConfigDown, Config, SetFlagsUp,
                SetFlagsDown, SetFlags, Reset, Calls
  <2>. QED  BY <2>1, NobodyWrites
<1>. QED  BY <1>1, <1>2, <1>3

-----------------------------------------------------------------------------
(***************************************************************************)
(* Terminals.  What has been written and not read, with what a write in    *)
(* progress still has to write, takes the host to the active terminal.     *)
(***************************************************************************)

\* h is what the host, which begins as h0, makes of s: after each byte.
Watches(h0, s, h) ==
    h = [k \in 0 .. Len(s) |-> IF k = 0 THEN h0 ELSE Show(h[k - 1], s[k])]

\* All is well, and the terminal id is shown.
Settled(id) == [term |-> id, esc |-> FALSE, ok |-> TRUE]

\* s takes the host from h0 to the terminal id, and all is well on the way.
Leads(h0, s, id) ==
    \E h : /\ Watches(h0, s, h) /\ h[Len(s)] = Settled(id)
           /\ \A k \in 0 .. Len(s) : h[k].ok

\* Byte by byte.
LEMMA WatchFacts ==
    ASSUME NEW h0, NEW s \in Seq(Byte), NEW h
    PROVE  Watches(h0, s, h) <=>
               /\ h = [k \in 0 .. Len(s) |-> h[k]] /\ h[0] = h0
               /\ \A k \in 1 .. Len(s) : h[k] = Show(h[k - 1], s[k])
<1>1. PICK n \in Nat : n = Len(s)
  OBVIOUS
<1>2. ASSUME Watches(h0, s, h)
      PROVE  /\ h = [k \in 0 .. n |-> h[k]] /\ h[0] = h0
             /\ \A k \in 1 .. n : h[k] = Show(h[k - 1], s[k])
  <2>1. h = [k \in 0 .. n |-> IF k = 0 THEN h0 ELSE Show(h[k - 1], s[k])]
    BY <1>1, <1>2 DEF Watches
  <2>2. \A k \in 0 .. n : h[k] = IF k = 0 THEN h0 ELSE Show(h[k - 1], s[k])
    BY <2>1, Zenon
  <2>3. h = [k \in 0 .. n |-> h[k]]
    BY <2>1, <2>2, Zenon
  <2>. QED  BY <2>2, <2>3
<1>3. ASSUME h = [k \in 0 .. n |-> h[k]], h[0] = h0,
             \A k \in 1 .. n : h[k] = Show(h[k - 1], s[k])
      PROVE  Watches(h0, s, h)
  <2>1. \A k \in 0 .. n : h[k] = IF k = 0 THEN h0 ELSE Show(h[k - 1], s[k])
    BY <1>3
  <2>2. h = [k \in 0 .. n |-> IF k = 0 THEN h0 ELSE Show(h[k - 1], s[k])]
    BY <1>3, <2>1
  <2>. QED  BY <1>1, <2>2 DEF Watches
<1>. QED  BY <1>1, <1>2, <1>3

\* What it makes of each byte.
LEMMA WatchSteps ==
    ASSUME NEW h0, NEW s \in Seq(Byte), NEW h, Watches(h0, s, h)
    PROVE  h[0] = h0 /\ \A k \in 1 .. Len(s) : h[k] = Show(h[k - 1], s[k])
<1>1. Watches(h0, s, h) <=> /\ h = [k \in 0 .. Len(s) |-> h[k]] /\ h[0] = h0
                            /\ \A k \in 1 .. Len(s) : h[k] = Show(h[k - 1], s[k])
  BY WatchFacts
<1>. QED  BY <1>1, Zenon

\* There is one way to watch.
LEMMA OneWay ==
    ASSUME NEW h0, NEW s \in Seq(Byte), NEW g, NEW h, Watches(h0, s, g), Watches(h0, s, h),
           NEW n \in 0 .. Len(s)
    PROVE  g[n] = h[n]
<1>0. Len(s) \in Nat
  OBVIOUS
<1>1. /\ g[0] = h0 /\ \A k \in 1 .. Len(s) : g[k] = Show(g[k - 1], s[k])
      /\ h[0] = h0 /\ \A k \in 1 .. Len(s) : h[k] = Show(h[k - 1], s[k])
  BY WatchSteps
<1>. DEFINE D == {k \in 0 .. Len(s) : g[k] # h[k]}
<1>2. SUFFICES ASSUME D # {} PROVE FALSE
  OBVIOUS
<1>3. D \subseteq Nat
  OBVIOUS
<1>4. PICK m \in D : \A k \in D : ~(<<k, m>> \in OpToRel(<, Nat))
  BY <1>2, <1>3, NatLessThanWellFounded, WFMin
<1>5. \A k, l \in Nat : k < l => <<k, l>> \in OpToRel(<, Nat)
  BY Zenon DEF OpToRel
<1>6. m \in Nat /\ m <= Len(s) /\ g[m] # h[m] /\ m # 0
  BY <1>0, <1>1
<1>7. m - 1 \in Nat /\ m - 1 < m /\ m - 1 \in 0 .. Len(s) /\ m \in 1 .. Len(s)
  BY <1>0, <1>6
<1>8. m - 1 \notin D
  BY <1>4, <1>5, <1>6, <1>7
<1>. QED  BY <1>1, <1>6, <1>7, <1>8

\* And it is the one the host has.
LEMMA ShownFacts ==
    ASSUME NEW s \in Seq(Byte), NEW h, Watches(host, s, h)
    PROVE  Shown(s) = h[Len(s)]
<1>. DEFINE Q(g) == g = [k \in 0 .. Len(s) |-> IF k = 0 THEN host ELSE Show(g[k - 1], s[k])]
            after == CHOOSE g : Q(g)
<1>1. Shown(s) = after[Len(s)]
  BY DEF Shown
<1>2. Q(h)
  BY DEF Watches
<1>3. Q(after)
  BY <1>2
<1>4. Watches(host, s, after)
  BY <1>3 DEF Watches
<1>. QED  BY <1>1, <1>4, OneWay

\* The beginning of s, and the rest of it.
LEMMA WatchedPart ==
    ASSUME NEW h0, NEW s \in Seq(Byte), NEW h, Watches(h0, s, h), NEW n \in 0 .. Len(s)
    PROVE  /\ Watches(h0, SubSeq(s, 1, n), [k \in 0 .. n |-> h[k]])
           /\ Watches(h[n], SubSeq(s, n + 1, Len(s)), [k \in 0 .. Len(s) - n |-> h[n + k]])
<1>1. PICK m \in Nat : m = Len(s)
  OBVIOUS
<1>2. h[0] = h0 /\ \A k \in 1 .. m : h[k] = Show(h[k - 1], s[k])
  <2>1. h[0] = h0 /\ \A k \in 1 .. Len(s) : h[k] = Show(h[k - 1], s[k])
    BY WatchSteps
  <2>. QED  BY <1>1, <2>1
<1>3. Watches(h0, SubSeq(s, 1, n), [k \in 0 .. n |-> h[k]])
  <2>1. PICK a : a = SubSeq(s, 1, n)
    OBVIOUS
  <2>2. a \in Seq(Byte) /\ Len(a) = n /\ \A k \in 1 .. n : a[k] = s[k]
    BY <1>1, <2>1
  <2>3. PICK g : g = [k \in 0 .. n |-> h[k]]
    OBVIOUS
  <2>4. \A k \in 0 .. n : g[k] = h[k]
    BY <2>3
  <2>5. g = [k \in 0 .. Len(a) |-> g[k]] /\ g[0] = h0
    BY <1>2, <2>2, <2>3, <2>4
  <2>6. ASSUME NEW k \in 1 .. Len(a) PROVE g[k] = Show(g[k - 1], a[k])
    <3>1. k \in 0 .. n /\ k - 1 \in 0 .. n /\ k \in 1 .. n /\ k \in 1 .. m
      BY <1>1, <2>2
    <3>. QED  BY <1>2, <2>2, <2>4, <3>1
  <2>7. Watches(h0, a, g)
    BY <2>2, <2>5, <2>6, WatchFacts
  <2>. QED  BY <2>1, <2>3, <2>7
<1>4. Watches(h[n], SubSeq(s, n + 1, Len(s)), [k \in 0 .. Len(s) - n |-> h[n + k]])
  <2>1. PICK a : a = SubSeq(s, n + 1, Len(s))
    OBVIOUS
  <2>2. a \in Seq(Byte) /\ Len(a) = m - n /\ \A k \in 1 .. m - n : a[k] = s[n + k]
    BY <1>1, <2>1
  <2>3. PICK g : g = [k \in 0 .. m - n |-> h[n + k]]
    OBVIOUS
  <2>4. \A k \in 0 .. m - n : g[k] = h[n + k]
    BY <2>3
  <2>5. g = [k \in 0 .. Len(a) |-> g[k]] /\ g[0] = h[n]
    <3>1. 0 \in 0 .. m - n /\ n + 0 = n
      BY <1>1
    <3>2. g[0] = h[n]
      BY <2>4, <3>1
    <3>. QED  BY <2>2, <2>3, <2>4, <3>2
  <2>6. ASSUME NEW k \in 1 .. Len(a) PROVE g[k] = Show(g[k - 1], a[k])
    <3>1. k \in 0 .. m - n /\ k - 1 \in 0 .. m - n /\ k \in 1 .. m - n /\ n + k \in 1 .. m
          /\ (n + k) - 1 = n + (k - 1)
      BY <1>1, <2>2
    <3>2. g[k] = h[n + k] /\ g[k - 1] = h[(n + k) - 1] /\ a[k] = s[n + k]
      BY <2>2, <2>4, <3>1
    <3>. QED  BY <1>2, <3>1, <3>2
  <2>7. Watches(h[n], a, g)
    BY <2>2, <2>5, <2>6, WatchFacts
  <2>. QED  BY <1>1, <2>1, <2>3, <2>7
<1>. QED  BY <1>3, <1>4

\* What follows goes on from the terminal that is shown.
LEMMA LeadsOn ==
    ASSUME NEW h0, NEW s \in Seq(Byte), NEW u \in Seq(Byte), NEW i, NEW j,
           Leads(h0, s, i), Leads(Settled(i), u, j)
    PROVE  Leads(h0, s \o u, j)
<1>1. PICK m \in Nat, n \in Nat : m = Len(s) /\ n = Len(u)
  OBVIOUS
<1>2. PICK h : /\ Watches(h0, s, h) /\ h[m] = Settled(i)
               /\ \A k \in 0 .. m : h[k].ok
  BY <1>1 DEF Leads
<1>3. PICK g : /\ Watches(Settled(i), u, g) /\ g[n] = Settled(j)
               /\ \A k \in 0 .. n : g[k].ok
  BY <1>1 DEF Leads
<1>4. h[0] = h0 /\ \A k \in 1 .. m : h[k] = Show(h[k - 1], s[k])
  <2>1. h[0] = h0 /\ \A k \in 1 .. Len(s) : h[k] = Show(h[k - 1], s[k])
    BY <1>2, WatchSteps
  <2>. QED  BY <1>1, <2>1
<1>5. g[0] = Settled(i) /\ \A k \in 1 .. n : g[k] = Show(g[k - 1], u[k])
  BY <1>1, <1>3, WatchSteps
<1>6. PICK a : a = s \o u
  OBVIOUS
<1>7. /\ a \in Seq(Byte) /\ Len(a) = m + n
      /\ \A k \in 1 .. m : a[k] = s[k]
      /\ \A k \in 1 .. n : a[m + k] = u[k]
  BY <1>1, <1>6
<1>8. PICK f : f = [k \in 0 .. m + n |-> IF k <= m THEN h[k] ELSE g[k - m]]
  OBVIOUS
<1>9. (\A k \in 0 .. m : f[k] = h[k]) /\ (\A k \in 0 .. n : f[m + k] = g[k])
  <2>1. \A k \in 0 .. m : f[k] = h[k]
    BY <1>8
  <2>2. ASSUME NEW k \in 0 .. n PROVE f[m + k] = g[k]
    <3>1. m + k \in 0 .. m + n /\ (m + k) - m = k /\ (m + k <= m <=> k = 0) /\ m + 0 = m
      OBVIOUS
    <3>2. f[m + k] = IF m + k <= m THEN h[m + k] ELSE g[(m + k) - m]
      BY <1>8, <3>1
    <3>. QED  BY <1>2, <1>5, <3>1, <3>2
  <2>. QED  BY <2>1, <2>2
<1>10. Watches(h0, a, f)
  <2>1. f = [k \in 0 .. Len(a) |-> f[k]] /\ f[0] = h0
    BY <1>4, <1>7, <1>8, <1>9
  <2>2. ASSUME NEW k \in 1 .. Len(a) PROVE f[k] = Show(f[k - 1], a[k])
    <3>1. CASE k <= m
      <4>1. k \in 0 .. m /\ k - 1 \in 0 .. m /\ k \in 1 .. m
        BY <3>1
      <4>. QED  BY <1>4, <1>7, <1>9, <4>1
    <3>2. CASE k > m
      <4>1. PICK l \in 1 .. n : k = m + l
        <5>1. k - m \in 1 .. n /\ k = m + (k - m)
          BY <1>7, <3>2
        <5>. QED  BY <5>1
      <4>2. l \in 0 .. n /\ l - 1 \in 0 .. n /\ k - 1 = m + (l - 1)
        BY <4>1
      <4>3. f[k] = g[l] /\ f[k - 1] = g[l - 1] /\ a[k] = u[l]
        BY <1>7, <1>9, <4>1, <4>2
      <4>. QED  BY <1>5, <4>3
    <3>. QED  BY <1>7, <3>1, <3>2
  <2>. QED  BY <1>7, <2>1, <2>2, WatchFacts
<1>11. f[Len(a)] = Settled(j)
  <2>1. n \in 0 .. n
    OBVIOUS
  <2>. QED  BY <1>3, <1>7, <1>9, <2>1
<1>12. ASSUME NEW k \in 0 .. Len(a) PROVE f[k].ok
  <2>1. CASE k <= m
    <3>1. k \in 0 .. m
      BY <2>1
    <3>. QED  BY <1>2, <1>9, <3>1
  <2>2. CASE k > m
    <3>1. k - m \in 0 .. n /\ k = m + (k - m)
      BY <1>7, <2>2
    <3>2. f[k] = g[k - m]
      BY <1>9, <3>1
    <3>. QED  BY <1>3, <3>1, <3>2
  <2>. QED  BY <1>7, <2>1, <2>2
<1>. QED  BY <1>6, <1>10, <1>11, <1>12 DEF Leads

\* Nothing to show.
LEMMA LeadsNowhere == \A id : Leads(Settled(id), <<>>, id)
<1>. SUFFICES ASSUME NEW id PROVE Leads(Settled(id), <<>>, id)
  OBVIOUS
<1>1. PICK h : h = [k \in 0 .. 0 |-> Settled(id)]
  OBVIOUS
<1>2. h[0] = Settled(id) /\ h = [k \in 0 .. 0 |-> h[k]] /\ \A k \in 0 .. 0 : h[k].ok
  BY <1>1 DEF Settled
<1>3. <<>> \in Seq(Byte) /\ Len(<<>>) = 0
  OBVIOUS
<1>4. Watches(Settled(id), <<>>, h)
  BY <1>2, <1>3, WatchFacts
<1>. QED  BY <1>2, <1>3, <1>4 DEF Leads

\* A text for the terminal that is shown.
LEMMA TextLeads ==
    ASSUME NEW id \in Terminals, NEW s \in Seq(Chars)
    PROVE  Leads(Settled(id), For(id, s), id)
<1>1. PICK n \in Nat : n = Len(s) /\ \A k \in 1 .. n : s[k] \in Chars
  OBVIOUS
<1>2. PICK f : f = For(id, s)
  OBVIOUS
<1>3. f \in Seq(Byte) /\ Len(f) = n /\ \A k \in 1 .. n : f[k] = [b |-> s[k], on |-> id]
  <2>1. f \in Seq(Byte) /\ Len(f) = Len(s)
    BY <1>2, ForIsBytes DEF Bytes
  <2>2. DOMAIN s = 1 .. n
    BY <1>1
  <2>. QED  BY <1>1, <1>2, <2>1, <2>2 DEF For
<1>4. PICK h : h = [k \in 0 .. n |-> Settled(id)]
  OBVIOUS
<1>5. /\ h[0] = Settled(id) /\ h[n] = Settled(id) /\ h = [k \in 0 .. n |-> h[k]]
      /\ \A k \in 0 .. n : h[k] = Settled(id) /\ h[k].ok
  <2>1. \A k \in 0 .. n : h[k] = Settled(id)
    BY <1>4
  <2>. QED  BY <1>4, <2>1 DEF Settled
<1>6. ASSUME NEW k \in 1 .. n PROVE h[k] = Show(h[k - 1], f[k])
  <2>1. k \in 0 .. n /\ k - 1 \in 0 .. n
    OBVIOUS
  <2>2. f[k].b \in Chars /\ f[k].b # Escape /\ f[k].on = id
    <3>1. f[k].b = s[k] /\ f[k].on = id /\ s[k] \in Chars
      <4>1. f[k] = [b |-> s[k], on |-> id] /\ s[k] \in Chars
        BY <1>1, <1>3, Zenon
      <4>. QED  BY <4>1
    <3>2. Escape \notin Chars
      BY RttBytesAssumption
    <3>. QED  BY <3>1, <3>2
  <2>3. Show(Settled(id), f[k]) = Settled(id)
    BY <2>2 DEF Show, Settled
  <2>. QED  BY <1>5, <2>1, <2>3
<1>7. Watches(Settled(id), f, h)
  BY <1>3, <1>5, <1>6, WatchFacts
<1>. QED  BY <1>2, <1>3, <1>5, <1>7 DEF Leads

\* What the host shows, and what it shows when it has seen an escape.
Seeing(term, esc, ok) == [term |-> term, esc |-> esc, ok |-> ok]
Escaped(h, esc) == [h EXCEPT !.esc = esc]

\* Only that.
LEMMA EscapedFacts == \A a, b, c, d : Escaped(Seeing(a, b, c), d) = Seeing(a, d, c)
BY DEF Seeing, Escaped

\* An escape is seen.
LEMMA EscapeShown ==
    ASSUME NEW h, NEW byte, ~h.esc, byte.b = Escape
    PROVE  Show(h, byte) = Escaped(h, TRUE)
BY DEF Show, Escaped

\* The two bytes of a switch.
LEMMA SwitchLeads ==
    ASSUME NEW i \in Terminals, NEW id \in Terminals
    PROVE  Leads(Settled(i), Switch(id), id)
<1>1. PICK f : f = Switch(id)
  OBVIOUS
<1>2. f \in Seq(Byte) /\ Len(f) = 2 /\ f[1].b = Escape /\ f[2].b = id
  BY <1>1, SwitchIsBytes DEF Switch, For
<1>3. PICK x : x = [term |-> i, esc |-> TRUE, ok |-> TRUE]
  OBVIOUS
<1>4. PICK h : h = [k \in 0 .. 2 |-> IF k = 0 THEN Settled(i) ELSE IF k = 1 THEN x ELSE Settled(id)]
  OBVIOUS
<1>5. h[0] = Settled(i) /\ h[1] = x /\ h[2] = Settled(id) /\ h = [k \in 0 .. 2 |-> h[k]]
  <2>1. h[0] = Settled(i) /\ h[1] = x /\ h[2] = Settled(id)
    BY <1>4
  <2>. QED  BY <1>4, <2>1
<1>6. Show(Settled(i), f[1]) = x
  <2>1. ~Settled(i).esc
    BY DEF Settled
  <2>2. Show(Settled(i), f[1]) = Escaped(Settled(i), TRUE)
    BY <1>2, <2>1, EscapeShown
  <2>3. Settled(i) = Seeing(i, FALSE, TRUE) /\ x = Seeing(i, TRUE, TRUE)
    BY <1>3 DEF Settled, Seeing
  <2>4. Escaped(Seeing(i, FALSE, TRUE), TRUE) = Seeing(i, TRUE, TRUE)
    BY EscapedFacts, Zenon
  <2>. QED  BY <2>2, <2>3, <2>4, Zenon
<1>7. Show(x, f[2]) = Settled(id)
  BY <1>2, <1>3 DEF Show, Settled
<1>8. \A k \in 1 .. 2 : h[k] = Show(h[k - 1], f[k])
  BY <1>5, <1>6, <1>7
<1>9. Watches(Settled(i), f, h)
  BY <1>2, <1>5, <1>8, WatchFacts
<1>10. \A k \in 0 .. 2 : h[k].ok
  BY <1>3, <1>5 DEF Settled
<1>. QED  BY <1>1, <1>2, <1>5, <1>9, <1>10 DEF Leads

\* The pieces of a write, of which there are three at most, as one text.
PieceOf(pieces, k) == IF k \in DOMAIN pieces THEN pieces[k] ELSE <<>>
Flat(pieces) == PieceOf(pieces, 1) \o (PieceOf(pieces, 2) \o PieceOf(pieces, 3))

\* Somebody writes to the terminal's buffer.
Writing(t) == job[t] # Idle /\ job[t].ring = Terminal

TermInv ==
    /\ (\A t \in Tasks : ~Writing(t)) => Leads(host, stream[Terminal], active)
    /\ \A t \in Tasks : Writing(t) =>
           /\ Len(job[t].pieces) <= 3
           /\ Leads(host, stream[Terminal] \o Flat(job[t].pieces), active)

\* One piece, two and three.
LEMMA FlatFacts ==
    /\ \A a \in Seq(Byte) : Flat(<<a>>) = a
    /\ \A a, b \in Seq(Byte) : Flat(<<a, b>>) = a \o b
    /\ \A a, b, c \in Seq(Byte) : Flat(<<a, b, c>>) = a \o (b \o c)
<1>1. ASSUME NEW a \in Seq(Byte) PROVE Flat(<<a>>) = a
  <2>1. PieceOf(<<a>>, 1) = a /\ PieceOf(<<a>>, 2) = <<>> /\ PieceOf(<<a>>, 3) = <<>>
    BY DEF PieceOf
  <2>. QED  BY <2>1 DEF Flat
<1>2. ASSUME NEW a \in Seq(Byte), NEW b \in Seq(Byte) PROVE Flat(<<a, b>>) = a \o b
  <2>1. PieceOf(<<a, b>>, 1) = a /\ PieceOf(<<a, b>>, 2) = b /\ PieceOf(<<a, b>>, 3) = <<>>
    BY DEF PieceOf
  <2>2. b \o <<>> = b
    OBVIOUS
  <2>. QED  BY <2>1, <2>2 DEF Flat
<1>3. ASSUME NEW a \in Seq(Byte), NEW b \in Seq(Byte), NEW c \in Seq(Byte)
      PROVE  Flat(<<a, b, c>>) = a \o (b \o c)
  <2>1. PieceOf(<<a, b, c>>, 1) = a /\ PieceOf(<<a, b, c>>, 2) = b /\ PieceOf(<<a, b, c>>, 3) = c
    BY DEF PieceOf
  <2>. QED  BY <2>1 DEF Flat
<1>. QED  BY <1>1, <1>2, <1>3

\* No piece.
LEMMA FlatNothing == Flat(<<>>) = <<>>
<1>1. PieceOf(<<>>, 1) = <<>> /\ PieceOf(<<>>, 2) = <<>> /\ PieceOf(<<>>, 3) = <<>>
  BY DEF PieceOf
<1>. QED  BY <1>1 DEF Flat

\* Three texts, one after the other.
LEMMA Associates == \A a, b, c \in Seq(Byte) : (a \o b) \o c = a \o (b \o c)
BY ConcatAssociative

\* What has been published of the first piece is the beginning of the text.
LEMMA FlatLess ==
    ASSUME NEW s \in Seq(Pieces), s # <<>>, Len(s) <= 3
    PROVE  /\ Flat(s) \in Seq(Byte) /\ Flat(s) = Head(s) \o Flat(Tail(s))
           /\ \A c \in Seq(Byte), d \in Pieces :
                  Head(s) = c \o d => Flat(s) = c \o Flat([s EXCEPT ![1] = d])
<1>1. Len(s) \in 1 .. 3 /\ DOMAIN s = 1 .. Len(s) /\ Head(s) = s[1]
      /\ \A k \in 1 .. Len(s) : s[k] \in Pieces
  <2>1. Len(s) \in Nat /\ Len(s) # 0 /\ DOMAIN s = 1 .. Len(s) /\ Head(s) = s[1]
    OBVIOUS
  <2>2. \A k \in 1 .. Len(s) : s[k] \in Pieces
    OBVIOUS
  <2>. QED  BY <2>1, <2>2
<1>2. \A k \in 1 .. 3 : PieceOf(s, k) \in Seq(Byte)
  BY <1>1 DEF PieceOf, Pieces
<1>3. PieceOf(s, 1) = Head(s) /\ PieceOf(s, 4) = <<>>
  BY <1>1 DEF PieceOf
<1>4. PICK a, b, c \in Seq(Byte) : a = PieceOf(s, 1) /\ b = PieceOf(s, 2) /\ c = PieceOf(s, 3)
  BY <1>2
<1>5. Flat(s) = a \o (b \o c)
  BY <1>4 DEF Flat
<1>6. Flat(Tail(s)) = b \o c
  <2>1. ASSUME NEW k \in 1 .. 3 PROVE PieceOf(Tail(s), k) = PieceOf(s, k + 1)
    <3>1. DOMAIN Tail(s) = 1 .. Len(s) - 1
      BY <1>1
    <3>2. CASE k \in 1 .. Len(s) - 1
      <4>1. Tail(s)[k] = s[k + 1] /\ k + 1 \in 1 .. Len(s)
        BY <1>1, <3>2
      <4>. QED  BY <1>1, <3>1, <3>2, <4>1 DEF PieceOf
    <3>3. CASE k \notin 1 .. Len(s) - 1
      BY <1>1, <3>1, <3>3 DEF PieceOf
    <3>. QED  BY <3>2, <3>3
  <2>2. /\ PieceOf(Tail(s), 1) = b /\ PieceOf(Tail(s), 2) = c /\ PieceOf(Tail(s), 3) = <<>>
    BY <1>3, <1>4, <2>1
  <2>3. c \o <<>> = c
    OBVIOUS
  <2>. QED  BY <2>2, <2>3 DEF Flat
<1>7. ASSUME NEW x \in Seq(Byte), NEW d \in Pieces, Head(s) = x \o d
      PROVE  Flat(s) = x \o Flat([s EXCEPT ![1] = d])
  <2>1. PICK v : v = [s EXCEPT ![1] = d]
    OBVIOUS
  <2>2. DOMAIN v = 1 .. Len(s) /\ v[1] = d /\ \A k \in 2 .. Len(s) : v[k] = s[k]
    BY <1>1, <2>1
  <2>3. /\ PieceOf(v, 1) = d /\ PieceOf(v, 2) = b /\ PieceOf(v, 3) = c
    BY <1>1, <1>4, <2>2 DEF PieceOf
  <2>4. a = x \o d /\ d \in Seq(Byte) /\ b \o c \in Seq(Byte)
    BY <1>3, <1>4, <1>7 DEF Pieces
  <2>5. (x \o d) \o (b \o c) = x \o (d \o (b \o c))
    <3>1. PICK e, g \in Seq(Byte) : e = b \o c /\ g = d
      BY <2>4
    <3>2. (x \o g) \o e = x \o (g \o e)
      BY Associates, Zenon
    <3>. QED  BY <3>1, <3>2, Zenon
  <2>6. Flat(v) = d \o (b \o c)
    BY <2>3 DEF Flat
  <2>. QED  BY <1>5, <2>1, <2>4, <2>5, <2>6
<1>8. Flat(s) \in Seq(Byte)
  <2>1. b \o c \in Seq(Byte)
    OBVIOUS
  <2>. QED  BY <1>5, <2>1
<1>. QED  BY <1>3, <1>4, <1>5, <1>6, <1>7, <1>8

\* TerminalOut's switch, text and switch back.
LEMMA OutLeads ==
    ASSUME active \in Terminals, NEW id \in Terminals, NEW x \in Seq(Chars)
    PROVE  /\ Out(id, x) \in Seq(Seq(Byte)) /\ Len(Out(id, x)) <= 3 /\ Out(id, x) # <<>>
           /\ Leads(Settled(active), Flat(Out(id, x)), active)
<1>1. PICK a, b, c \in Seq(Byte) : a = Switch(id) /\ b = For(id, x) /\ c = Switch(active)
  BY SwitchIsBytes, ForIsBytes DEF Bytes
<1>2. PICK i \in Terminals : i = active
  OBVIOUS
<1>3. /\ Leads(Settled(i), a, id) /\ Leads(Settled(id), b, id) /\ Leads(Settled(id), c, i)
  BY <1>1, <1>2, SwitchLeads, TextLeads
<1>4. CASE x = <<>>
  <2>1. PICK p : p = <<a, c>>
    OBVIOUS
  <2>2. Out(id, x) = p /\ p \in Seq(Seq(Byte)) /\ Len(p) = 2 /\ p # <<>>
    BY <1>1, <1>4, <2>1 DEF Out
  <2>3. Flat(p) = a \o c
    BY <2>1, FlatFacts
  <2>4. Leads(Settled(i), a \o c, i)
    BY <1>3, LeadsOn
  <2>. QED  BY <1>2, <2>2, <2>3, <2>4
<1>5. CASE x # <<>>
  <2>1. PICK p : p = <<a, b, c>>
    OBVIOUS
  <2>2. Out(id, x) = p /\ p \in Seq(Seq(Byte)) /\ Len(p) = 3 /\ p # <<>>
    BY <1>1, <1>5, <2>1 DEF Out
  <2>3. Flat(p) = a \o (b \o c)
    <3>1. Flat(<<a, b, c>>) = a \o (b \o c)
      BY FlatFacts, Zenon
    <3>. QED  BY <2>1, <3>1
  <2>4. PICK u \in Seq(Byte) : u = b \o c
    <3>1. b \o c \in Seq(Byte)
      OBVIOUS
    <3>. QED  BY <3>1
  <2>5. Leads(Settled(id), u, i)
    BY <1>3, <2>4, LeadsOn
  <2>6. Leads(Settled(i), a \o u, i)
    BY <1>3, <2>5, LeadsOn
  <2>. QED  BY <1>2, <2>2, <2>3, <2>4, <2>6
<1>. QED  BY <1>4, <1>5

\* A write begins: its pieces lead from the terminal that was active to the
\* one that is.
LEMMA BeginTerm ==
    ASSUME RttInv, TermInv, Unlocked, NEW t \in Tasks, NEW r, NEW pieces \in Seq(Seq(Byte)),
           NEW blocking, Begin(t, r, pieces, blocking), pieces # <<>>,
           r # Terminal => active' = active,
           r = Terminal => Len(pieces) <= 3 /\ Leads(Settled(active), Flat(pieces), active')
    PROVE  TermInv'
<1>1. PICK k : k = [Idle EXCEPT !.ring = r, !.pieces = pieces, !.blocking = blocking]
  OBVIOUS
<1>2. k.ring = r /\ k.pieces = pieces
  BY <1>1 DEF Idle
<1>3. k # Idle
  BY <1>2 DEF Idle
<1>4. job' = [job EXCEPT ![t] = k] /\ stream' = stream /\ host' = host
  BY <1>1 DEF Begin
<1>5. \A u \in Tasks : u # t => job'[u] = Idle
  BY <1>4 DEF Unlocked
<1>6. job'[t] = k
  BY <1>4 DEF RttInv
<1>7. Leads(host, stream[Terminal], active)
  BY DEF Unlocked, TermInv, Writing
<1>8. CASE r # Terminal
  <2>1. \A u \in Tasks : ~Writing(u)'
    BY <1>2, <1>5, <1>6, <1>8 DEF Writing
  <2>2. Leads(host', stream'[Terminal], active')
    BY <1>4, <1>7, <1>8
  <2>. QED  BY <2>1, <2>2 DEF TermInv
<1>9. CASE r = Terminal
  <2>1. Writing(t)' /\ \A u \in Tasks : Writing(u)' => u = t
    BY <1>2, <1>3, <1>5, <1>6, <1>9 DEF Writing
  <2>2. PICK st \in Seq(Byte) : st = stream[Terminal]
    BY BufferNames DEF RttInv, Sound, Buffers
  <2>3. Flat(pieces) \in Seq(Byte)
    <3>1. pieces \in Seq(Pieces)
      BY DEF Begin, Pieces
    <3>. QED  BY <1>9, <3>1, FlatLess
  <2>4. PICK p \in Seq(Byte) : p = Flat(pieces)
    BY <2>3
  <2>5. Leads(host, st \o p, active')
    BY <1>7, <1>9, <2>2, <2>4, LeadsOn
  <2>6. \A u \in Tasks :
            Writing(u)' => /\ Len(job'[u].pieces) <= 3
                           /\ Leads(host', stream'[Terminal] \o Flat(job'[u].pieces), active')
    BY <1>2, <1>4, <1>6, <1>9, <2>1, <2>2, <2>4, <2>5
  <2>. QED  BY <2>1, <2>6 DEF TermInv
<1>. QED  BY <1>8, <1>9

\* A call of one piece.
LEMMA BeginOneTerm ==
    ASSUME RttInv, TermInv, Unlocked, NEW t \in Tasks, NEW r, NEW s \in Seq(Byte),
           NEW blocking, Begin(t, r, <<s>>, blocking),
           r # Terminal => active' = active,
           r = Terminal => Leads(Settled(active), s, active')
    PROVE  TermInv'
<1>1. PICK p : p = <<s>>
  OBVIOUS
<1>2. p \in Seq(Seq(Byte)) /\ p # <<>> /\ Len(p) <= 3 /\ Flat(p) = s
  BY <1>1, FlatFacts
<1>. QED  BY <1>1, <1>2, BeginTerm

\* A text for the active terminal, or its beginning.
LEMMA ActiveTextLeads ==
    ASSUME RttInv, NEW s \in Seq(Chars)
    PROVE  /\ Leads(Settled(active), Text(Terminal, s), active)
           /\ \A n \in 0 .. Len(s) :
                  Leads(Settled(active), SubSeq(Text(Terminal, s), 1, n), active)
<1>1. PICK i \in Terminals : i = active
  BY DEF RttInv
<1>2. Text(Terminal, s) = For(i, s)
  BY <1>1 DEF Text
<1>3. ASSUME NEW n \in 0 .. Len(s) PROVE SubSeq(For(i, s), 1, n) = For(i, SubSeq(s, 1, n))
  <2>1. PICK u, f : u = SubSeq(s, 1, n) /\ f = For(i, s)
    OBVIOUS
  <2>2. u \in Seq(Chars) /\ Len(u) = n /\ DOMAIN u = 1 .. n /\ \A k \in 1 .. n : u[k] = s[k]
    BY <2>1
  <2>3. f \in Seq(Byte) /\ Len(f) = Len(s)
    BY <2>1, ForIsBytes DEF Bytes
  <2>4. \A k \in 1 .. n : f[k] = [b |-> s[k], on |-> i]
    <3>1. \A k \in 1 .. n : k \in DOMAIN s
      OBVIOUS
    <3>. QED  BY <2>1, <3>1 DEF For
  <2>5. SubSeq(f, 1, n) = [k \in 1 .. n |-> f[k]]
    BY <2>3
  <2>6. For(i, u) = [k \in 1 .. n |-> [b |-> s[k], on |-> i]]
    BY <2>2 DEF For
  <2>. QED  BY <2>1, <2>4, <2>5, <2>6
<1>4. ASSUME NEW n \in 0 .. Len(s) PROVE Leads(Settled(i), SubSeq(For(i, s), 1, n), i)
  <2>1. PICK u \in Seq(Chars) : u = SubSeq(s, 1, n)
    <3>1. SubSeq(s, 1, n) \in Seq(Chars)
      OBVIOUS
    <3>. QED  BY <3>1
  <2>. QED  BY <1>3, <2>1, TextLeads
<1>. QED  BY <1>1, <1>2, <1>4, TextLeads

\* SEGGER_RTT_Write, _WriteSkipNoLock, _PutChar and their callers.
LEMMA WritesTerm ==
    ASSUME RttInv, TermInv, NEW t \in Tasks, NEW r \in Ups, NEW text \in Seq(Chars),
           \/ Write(t, r, text) \/ WriteSkip(t, r, text)
           \/ \E c : text = <<c>> /\ PutChar(t, r, c)
    PROVE  TermInv'
<1>1. PICK s : s = Text(r, text)
  OBVIOUS
<1>2. s \in Seq(Byte) /\ Len(s) = Len(text) /\ Unlocked /\ Open(r) /\ active' = active
  BY <1>1, TextIsBytes DEF Write, WriteSkip, PutChar, Calls
<1>3. PICK avail \in Nat : avail = AvailWriteSpace(ring[r])
  BY <1>2, RoomIsNat DEF Buffers
<1>4. PICK n : n = Min({avail, Len(s)})
  OBVIOUS
<1>5. n \in 0 .. Len(text)
  BY <1>2, <1>3, <1>4, MinOfTwo
<1>6. PICK u \in Seq(Byte) : u = SubSeq(s, 1, n)
  <2>1. SubSeq(s, 1, n) \in Seq(Byte)
    BY <1>2, <1>5
  <2>. QED  BY <2>1
<1>7. r = Terminal => /\ Leads(Settled(active), s, active')
                      /\ Leads(Settled(active), u, active')
  BY <1>1, <1>2, <1>5, <1>6, ActiveTextLeads
<1>8. \E blocking : Begin(t, r, <<s>>, blocking) \/ Begin(t, r, <<u>>, blocking)
  <2>1. CASE Write(t, r, text)
    BY <1>1, <1>3, <1>4, <1>6, <2>1 DEF Write, WriteNoLock
  <2>2. CASE WriteSkip(t, r, text)
    BY <1>1, <2>2 DEF WriteSkip
  <2>3. CASE \E c : text = <<c>> /\ PutChar(t, r, c)
    BY <1>1, <2>3 DEF PutChar
  <2>. QED  BY <2>1, <2>2, <2>3
<1>. QED  BY <1>2, <1>7, <1>8, BeginOneTerm

\* SEGGER_RTT_SetTerminal
LEMMA SetTerminalTerm ==
    ASSUME RttInv, TermInv, NEW t \in Tasks, NEW id \in Terminals, SetTerminal(t, id)
    PROVE  TermInv'
<1>1. PICK s \in Seq(Byte), i \in Terminals : s = Switch(id) /\ i = active
  BY SwitchIsBytes DEF RttInv
<1>2. Leads(Settled(i), s, id)
  BY <1>1, SwitchLeads
<1>3. Unlocked /\ active' = id /\ \E blocking : Begin(t, Terminal, <<s>>, blocking)
  BY <1>1 DEF SetTerminal, Calls
<1>. QED  BY <1>1, <1>2, <1>3, BeginOneTerm

\* SEGGER_RTT_TerminalOut
LEMMA TerminalOutTerm ==
    ASSUME RttInv, TermInv, NEW t \in Tasks, NEW id \in Terminals, NEW text \in Seq(Chars),
           TerminalOut(t, id, text)
    PROVE  TermInv'
<1>1. Unlocked /\ Open(Terminal) /\ active \in Terminals /\ active' = active
  BY DEF TerminalOut, Calls, Initialised, Open, RttInv
<1>2. PICK avail \in Nat : avail = AvailWriteSpace(ring[Terminal])
  BY <1>1, RoomIsNat, BufferNames DEF Buffers
<1>3. ASSUME NEW x \in Seq(Chars), Begin(t, Terminal, Out(id, x), TRUE) PROVE TermInv'
  <2>1. PICK p \in Seq(Seq(Byte)) : p = Out(id, x)
    BY <1>1, OutLeads
  <2>2. Len(p) <= 3 /\ p # <<>> /\ Leads(Settled(active), Flat(p), active')
    BY <1>1, <2>1, OutLeads
  <2>3. \E blocking : Begin(t, Terminal, p, blocking)
    BY <1>3, <2>1
  <2>. QED  BY <1>1, <2>2, <2>3, BeginTerm
<1>4. CASE Begin(t, Terminal, Out(id, text), TRUE)
  BY <1>3, <1>4
<1>5. CASE avail >= 4 /\ Begin(t, Terminal, Out(id, Trimmed(text, avail)), TRUE)
  <2>1. PICK n : n = Min({Len(text), avail - 4})
    OBVIOUS
  <2>2. avail - 4 \in Nat /\ Len(text) \in Nat
    BY <1>5
  <2>3. n \in Nat /\ n <= Len(text)
    BY <2>1, <2>2, MinOfTwo
  <2>4. SubSeq(text, 1, n) \in Seq(Chars)
    BY <2>3
  <2>. QED  BY <1>3, <1>5, <2>1, <2>4 DEF Trimmed
<1>. QED  BY <1>2, <1>4, <1>5 DEF TerminalOut

\* The calls that begin a write.
LEMMA WriteCallsTerm ==
    ASSUME RttInv, TermInv, NEW t \in Tasks, WriteCalls(t)
    PROVE  TermInv'
<1>1. CASE \E r \in Ups, s \in Texts : Write(t, r, s) \/ WriteSkip(t, r, s)
  BY <1>1, TextFacts, WritesTerm
<1>2. CASE \E r \in Ups, c \in Keys : PutChar(t, r, c) \/ PutCharSkip(t, r, c)
  BY <1>2, TextFacts, WritesTerm DEF PutCharSkip
<1>. QED  BY <1>1, <1>2, TextFacts, SetTerminalTerm, TerminalOutTerm DEF WriteCalls

\* A step that the host does not see, and no writer to the terminal's buffer.
LEMMA OthersTerm ==
    ASSUME TermInv, UNCHANGED <<host, active, job>>, stream'[Terminal] = stream[Terminal]
    PROVE  TermInv'
BY DEF TermInv, Writing

\* A round copies: nothing is published.
LEMMA CopyTerm == ASSUME RttInv, TermInv, NEW t \in Tasks, Copy(t) PROVE TermInv'
<1>1. PICK j : j = job[t]
  OBVIOUS
<1>2. /\ job[t] # Idle /\ UNCHANGED <<active, host, stream>>
      /\ job' = [job EXCEPT ![t].chunk = ChunkOf(j), ![t].wr = From(j)]
  BY <1>1 DEF Copy
<1>3. PICK k : k = [j EXCEPT !.chunk = ChunkOf(j), !.wr = From(j)]
  OBVIOUS
<1>4. k.ring = j.ring /\ k.pieces = j.pieces /\ j.pieces # <<>>
  BY <1>1, <1>2, <1>3, WriterFacts DEF Busy
<1>5. \A u \in Tasks : job'[u] = IF u = t THEN k ELSE job[u]
  BY <1>1, <1>2, <1>3 DEF RttInv
<1>6. k # Idle
  BY <1>4 DEF Idle
<1>7. \A u \in Tasks : /\ Writing(u)' <=> Writing(u)
                       /\ job'[u].pieces = job[u].pieces
  BY <1>1, <1>2, <1>4, <1>5, <1>6 DEF Writing
<1>. QED  BY <1>2, <1>7 DEF TermInv

\* The bytes of a write that has been published in part.
LEMMA PublishedLeads ==
    ASSUME NEW h, NEW i, NEW st \in Seq(Byte), NEW c \in Seq(Byte), NEW u \in Seq(Byte),
           Leads(h, st \o (c \o u), i)
    PROVE  Leads(h, (st \o c) \o u, i)
BY Associates

\* The writer's job becomes k, and it has published c.
LEMMA WriterTerm ==
    ASSUME RttInv, TermInv, NEW t \in Tasks, job[t] # Idle, job[t].ring = Terminal,
           UNCHANGED <<active, host>>, NEW k, job' = [job EXCEPT ![t] = k],
           NEW st \in Seq(Byte), st = stream[Terminal],
           NEW c \in Seq(Byte), stream'[Terminal] = st \o c,
           NEW u \in Seq(Byte), Flat(job[t].pieces) = c \o u,
           \/ k = Idle /\ u = <<>>
           \/ k # Idle /\ k.ring = Terminal /\ Len(k.pieces) <= 3 /\ u = Flat(k.pieces)
    PROVE  TermInv'
<1>1. \A v \in Tasks : job'[v] = IF v = t THEN k ELSE Idle
  BY WriterFacts DEF RttInv
<1>2. Leads(host, st \o (c \o u), active)
  BY DEF TermInv, Writing
<1>3. Leads(host, (st \o c) \o u, active)
  BY <1>2, PublishedLeads
<1>4. CASE k = Idle /\ u = <<>>
  <2>1. PICK w \in Seq(Byte) : w = st \o c
    <3>1. st \o c \in Seq(Byte)
      OBVIOUS
    <3>. QED  BY <3>1
  <2>2. w \o <<>> = w
    OBVIOUS
  <2>3. Leads(host, w, active)
    BY <1>3, <1>4, <2>1, <2>2
  <2>. QED  BY <1>1, <1>4, <2>1, <2>3 DEF TermInv, Writing
<1>5. CASE k # Idle /\ k.ring = Terminal /\ Len(k.pieces) <= 3 /\ u = Flat(k.pieces)
  <2>1. \A v \in Tasks : Writing(v)' <=> v = t
    BY <1>1, <1>5 DEF Writing
  <2>2. job'[t] = k
    BY <1>1
  <2>. QED  BY <1>3, <1>5, <2>1, <2>2 DEF TermInv
<1>. QED  BY <1>4, <1>5

\* A text is its beginning and its rest.
LEMMA TwoParts ==
    ASSUME NEW s \in Seq(Byte), NEW m \in Nat, NEW n \in Nat, n = Len(s), m < n
    PROVE  s = SubSeq(s, 1, m) \o SubSeq(s, m + 1, n)
<1>1. PICK c, d : c = SubSeq(s, 1, m) /\ d = SubSeq(s, m + 1, n)
  OBVIOUS
<1>2. c \in Seq(Byte) /\ Len(c) = m /\ \A k \in 1 .. m : c[k] = s[k]
  BY <1>1
<1>3. d \in Seq(Byte) /\ Len(d) = n - m /\ \A k \in 1 .. n - m : d[k] = s[m + k]
  <2>1. m + 1 \in Int /\ n \in Int /\ \A i \in m + 1 .. n : s[i] \in Byte
    OBVIOUS
  <2>2. /\ d \in Seq(Byte) /\ Len(d) = IF m + 1 <= n THEN n - (m + 1) + 1 ELSE 0
        /\ \A k \in 1 .. n - (m + 1) + 1 : d[k] = s[m + 1 + k - 1]
    BY <1>1, <2>1, SubSeqProperties
  <2>. QED  BY <2>2
<1>4. PICK a : a = c \o d
  OBVIOUS
<1>5. a \in Seq(Byte) /\ Len(a) = n
  BY <1>2, <1>3, <1>4
<1>6. ASSUME NEW k \in 1 .. n PROVE a[k] = s[k]
  <2>1. CASE k <= m
    BY <1>2, <1>3, <1>4, <2>1
  <2>2. CASE k > m
    <3>1. k - m \in 1 .. n - m /\ m + (k - m) = k
      BY <2>2
    <3>2. a[k] = d[k - m]
      BY <1>2, <1>3, <1>4, <2>2, <3>1
    <3>. QED  BY <1>3, <3>1, <3>2
  <2>. QED  BY <2>1, <2>2
<1>7. a = s
  BY <1>5, <1>6, SeqEqual
<1>. QED  BY <1>1, <1>4, <1>7

\* A round publishes what it has copied.
LEMMA PublishTerm == ASSUME RttInv, TermInv, NEW t \in Tasks, Publish(t) PROVE TermInv'
<1>1. PICK j, s, c, st :
         /\ j = job[t] /\ s = Head(j.pieces) /\ c = SubSeq(s, 1, j.chunk)
         /\ st = stream[j.ring]
  OBVIOUS
<1>2. job[t] # Idle /\ j.chunk > 0 /\ UNCHANGED <<active, host>>
  BY <1>1 DEF Publish
<1>3. /\ j.ring \in Buffers /\ Busy(j, ring[j.ring]) /\ st \in Seq(Byte)
      /\ s \in Seq(Byte) /\ s # <<>> /\ j.pieces \in Seq(Pieces) /\ j.pieces # <<>>
  BY <1>1, <1>2, WriterFacts
<1>4. /\ j \in [ring: Ups, pieces: Seq(Pieces), blocking: BOOLEAN, wr: Nat \cup {None}, chunk: Nat]
      /\ j.chunk \in Nat /\ j.chunk <= Len(s)
  BY <1>1, <1>3 DEF Busy
<1>5. c \in Seq(Byte)
  BY <1>1, <1>3, <1>4
<1>6. \A r \in Buffers : stream'[r] = IF r = j.ring THEN st \o c ELSE stream[r]
  BY <1>1, <1>3 DEF Publish, RttInv
<1>7. PICK wr : wr = Wrapped(j.wr + j.chunk, ring[j.ring].size)
  OBVIOUS
<1>8. PICK left : left =
          IF j.chunk < Len(s)
          THEN [j EXCEPT !.pieces[1] = SubSeq(s, j.chunk + 1, Len(s)), !.wr = wr, !.chunk = 0]
          ELSE [j EXCEPT !.pieces = Tail(@), !.wr = None, !.chunk = 0]
  OBVIOUS
<1>9. PICK k : k = IF left.pieces = <<>> THEN Idle ELSE left
  OBVIOUS
<1>10. job' = [job EXCEPT ![t] = k]
  BY <1>1, <1>7, <1>8, <1>9 DEF Publish
<1>11. PICK q : q = left.pieces
  OBVIOUS
<1>12. left.ring = j.ring
  BY <1>4, <1>8
<1>13. CASE j.ring # Terminal
  <2>1. \A u \in Tasks : ~Writing(u) /\ ~Writing(u)'
    <3>1. k = Idle \/ k.ring # Terminal
      BY <1>9, <1>12, <1>13
    <3>2. \A u \in Tasks : u # t => job[u] = Idle /\ job'[u] = Idle
      BY <1>1, <1>2, <1>10, WriterFacts
    <3>3. job'[t] = k
      BY <1>10 DEF RttInv
    <3>. QED  BY <1>1, <1>13, <3>1, <3>2, <3>3 DEF Writing
  <2>2. stream'[Terminal] = stream[Terminal]
    BY <1>6, <1>13, BufferNames DEF Buffers
  <2>. QED  BY <1>2, <2>1, <2>2 DEF TermInv
<1>14. CASE j.ring = Terminal
  <2>1. Len(j.pieces) <= 3
    BY <1>1, <1>2, <1>14 DEF TermInv, Writing
  <2>2. q \in Seq(Pieces) /\ Len(q) <= 3 /\ Flat(q) \in Seq(Byte) /\ Flat(j.pieces) = c \o Flat(q)
    <3>1. CASE j.chunk < Len(s)
      <4>1. PICK d : d = SubSeq(s, j.chunk + 1, Len(s))
        OBVIOUS
      <4>2. d \in Pieces /\ s = c \o d
        <5>1. PICK m, n \in Nat : m = j.chunk /\ n = Len(s)
          BY <1>3, <1>4
        <5>2. m < n /\ SubSeq(s, m + 1, n) \in Seq(Byte) /\ Len(SubSeq(s, m + 1, n)) = n - m
          <6>1. m < n /\ m + 1 \in Int /\ n \in Int /\ \A i \in m + 1 .. n : s[i] \in Byte
            BY <1>3, <3>1, <5>1
          <6>. QED  BY <6>1, SubSeqProperties
        <5>3. d \in Seq(Byte) /\ Len(d) = n - m /\ n - m # 0
          BY <4>1, <5>1, <5>2
        <5>4. d # <<>>
          BY <5>3, EmptySeq
        <5>5. s = c \o d
          <6>1. c = SubSeq(s, 1, m) /\ d = SubSeq(s, m + 1, n)
            BY <1>1, <4>1, <5>1
          <6>2. s = SubSeq(s, 1, m) \o SubSeq(s, m + 1, n)
            BY <1>3, <5>1, <5>2, TwoParts
          <6>. QED  BY <6>1, <6>2
        <5>. QED  BY <5>3, <5>4, <5>5 DEF Pieces
      <4>3. q = [j.pieces EXCEPT ![1] = d]
        BY <1>4, <1>8, <1>11, <3>1, <4>1
      <4>4. q \in Seq(Pieces) /\ q # <<>> /\ Len(q) <= 3
        BY <1>3, <2>1, <4>2, <4>3
      <4>5. Flat(j.pieces) = c \o Flat(q)
        BY <1>1, <1>3, <1>5, <2>1, <4>2, <4>3, FlatLess
      <4>. QED  BY <4>4, <4>5, FlatLess
    <3>2. CASE ~(j.chunk < Len(s))
      <4>1. c = s
        <5>1. j.chunk = Len(s)
          BY <1>3, <1>4, <3>2
        <5>. QED  BY <1>1, <1>3, <5>1
      <4>2. q = Tail(j.pieces)
        BY <1>4, <1>8, <1>11, <3>2
      <4>3. q \in Seq(Pieces) /\ Len(q) <= 3
        BY <1>3, <2>1, <4>2
      <4>4. Flat(j.pieces) = c \o Flat(q)
        BY <1>1, <1>3, <2>1, <4>1, <4>2, FlatLess
      <4>5. Flat(q) \in Seq(Byte)
        BY <4>3, FlatLess, FlatNothing
      <4>. QED  BY <4>3, <4>4, <4>5
    <3>. QED  BY <3>1, <3>2
  <2>3. PICK u \in Seq(Byte) : u = Flat(q)
    BY <2>2
  <2>4. \/ k = Idle /\ u = <<>>
        \/ k # Idle /\ k.ring = Terminal /\ Len(k.pieces) <= 3 /\ u = Flat(k.pieces)
    <3>1. CASE q = <<>>
      BY <1>9, <1>11, <2>3, <3>1, FlatNothing
    <3>2. CASE q # <<>>
      <4>1. k = left /\ k.pieces = q
        BY <1>9, <1>11, <3>2
      <4>2. k # Idle
        BY <3>2, <4>1 DEF Idle
      <4>. QED  BY <1>12, <1>14, <2>2, <2>3, <4>1, <4>2
    <3>. QED  BY <3>1, <3>2
  <2>5. st = stream[Terminal] /\ stream'[Terminal] = st \o c
    BY <1>1, <1>3, <1>6, <1>14
  <2>6. Flat(job[t].pieces) = c \o u
    BY <1>1, <2>2, <2>3
  <2>. QED  BY <1>1, <1>2, <1>3, <1>5, <1>10, <1>14, <2>4, <2>5, <2>6, WriterTerm
<1>. QED  BY <1>13, <1>14

\* What the probe has read it shows well, and the rest leads on from there.
LEMMA LeadsShown ==
    ASSUME NEW s \in Seq(Byte), NEW i, Leads(host, s, i), NEW n \in 0 .. Len(s)
    PROVE  LET shown == Shown(SubSeq(s, 1, n))
           IN  /\ shown.ok /\ Leads(shown, SubSeq(s, n + 1, Len(s)), i)
               /\ n = Len(s) => shown = Settled(i)
<1>1. PICK m \in Nat : m = Len(s)
  OBVIOUS
<1>2. PICK h : Watches(host, s, h) /\ h[m] = Settled(i) /\ \A k \in 0 .. m : h[k].ok
  BY <1>1 DEF Leads
<1>3. PICK u \in Seq(Byte) : u = SubSeq(s, 1, n) /\ Len(u) = n
  <2>1. SubSeq(s, 1, n) \in Seq(Byte) /\ Len(SubSeq(s, 1, n)) = n
    OBVIOUS
  <2>. QED  BY <2>1
<1>4. PICK a \in Seq(Byte) : a = SubSeq(s, n + 1, m) /\ Len(a) = m - n
  <2>1. SubSeq(s, n + 1, m) \in Seq(Byte) /\ Len(SubSeq(s, n + 1, m)) = m - n
    BY <1>1
  <2>. QED  BY <2>1
<1>5. PICK f, g : f = [k \in 0 .. n |-> h[k]] /\ g = [k \in 0 .. m - n |-> h[n + k]]
  OBVIOUS
<1>6. Watches(host, u, f) /\ Watches(h[n], a, g)
  <2>1. /\ Watches(host, SubSeq(s, 1, n), [k \in 0 .. n |-> h[k]])
        /\ Watches(h[n], SubSeq(s, n + 1, Len(s)), [k \in 0 .. Len(s) - n |-> h[n + k]])
    BY <1>2, WatchedPart
  <2>. QED  BY <1>1, <1>3, <1>4, <1>5, <2>1
<1>7. Shown(u) = h[n]
  <2>1. Shown(u) = f[n]
    BY <1>3, <1>6, ShownFacts
  <2>2. n \in 0 .. n
    BY <1>1
  <2>. QED  BY <1>5, <2>1, <2>2
<1>8. Leads(h[n], a, i)
  <2>1. \A k \in 0 .. m - n : g[k] = h[n + k] /\ n + k \in 0 .. m
    BY <1>1, <1>5
  <2>2. m - n \in 0 .. m - n /\ n + (m - n) = m
    BY <1>1
  <2>3. g[Len(a)] = Settled(i) /\ \A k \in 0 .. Len(a) : g[k].ok
    BY <1>2, <1>4, <2>1, <2>2
  <2>. QED  BY <1>6, <2>3 DEF Leads
<1>. QED  BY <1>1, <1>2, <1>3, <1>4, <1>7, <1>8

\* One text and another, byte by byte.
LEMMA Chained ==
    \A a, b \in Seq(Byte) :
        /\ a \o b \in Seq(Byte) /\ Len(a \o b) = Len(a) + Len(b)
        /\ \A k \in 1 .. Len(a) : (a \o b)[k] = a[k]
        /\ \A k \in 1 .. Len(b) : (a \o b)[Len(a) + k] = b[k]
OBVIOUS

\* What is read are the oldest bytes, whatever comes behind them.
LEMMA OldestBytes ==
    ASSUME NEW st \in Seq(Byte), NEW p \in Seq(Byte), NEW n \in 0 .. Len(st)
    PROVE  /\ SubSeq(st \o p, 1, n) = SubSeq(st, 1, n)
           /\ SubSeq(st \o p, n + 1, Len(st \o p)) = SubSeq(st, n + 1, Len(st)) \o p
           /\ st \o p \in Seq(Byte) /\ n \in 0 .. Len(st \o p)
<1>1. PICK m \in Nat, l \in Nat : m = Len(st) /\ l = Len(p)
  OBVIOUS
<1>2. PICK s \in Seq(Byte) :
         /\ s = st \o p /\ Len(s) = m + l
         /\ \A k \in 1 .. m : s[k] = st[k]
         /\ \A k \in 1 .. l : s[m + k] = p[k]
  <2>1. st \o p \in Seq(Byte) /\ Len(st \o p) = m + l
    BY <1>1
  <2>2. \A k \in 1 .. m : (st \o p)[k] = st[k]
    BY <1>1
  <2>3. \A k \in 1 .. l : (st \o p)[m + k] = p[k]
    BY <1>1
  <2>. QED  BY <2>1, <2>2, <2>3
<1>3. SubSeq(s, 1, n) = SubSeq(st, 1, n)
  <2>1. PICK x, y : x = SubSeq(s, 1, n) /\ y = SubSeq(st, 1, n)
    OBVIOUS
  <2>2. x \in Seq(Byte) /\ Len(x) = n /\ \A k \in 1 .. n : x[k] = s[k]
    BY <1>1, <1>2, <2>1
  <2>3. y \in Seq(Byte) /\ Len(y) = n /\ \A k \in 1 .. n : y[k] = st[k]
    BY <1>1, <2>1
  <2>4. \A k \in 1 .. n : x[k] = y[k]
    BY <1>1, <1>2, <2>2, <2>3
  <2>5. x = y
    BY <2>2, <2>3, <2>4, SeqEqual
  <2>. QED  BY <2>1, <2>5
<1>4. SubSeq(s, n + 1, m + l) = SubSeq(st, n + 1, m) \o p
  <2>1. PICK x, y : x = SubSeq(s, n + 1, m + l) /\ y = SubSeq(st, n + 1, m)
    OBVIOUS
  <2>2. x \in Seq(Byte) /\ Len(x) = m + l - n /\ \A k \in 1 .. m + l - n : x[k] = s[n + k]
    <3>1. n + 1 \in Int /\ m + l \in Int /\ \A i \in n + 1 .. m + l : s[i] \in Byte
      BY <1>1, <1>2
    <3>2. /\ x \in Seq(Byte) /\ Len(x) = IF n + 1 <= m + l THEN m + l - (n + 1) + 1 ELSE 0
          /\ \A k \in 1 .. m + l - (n + 1) + 1 : x[k] = s[n + 1 + k - 1]
      BY <2>1, <3>1, SubSeqProperties
    <3>. QED  BY <1>1, <3>2
  <2>3. y \in Seq(Byte) /\ Len(y) = m - n /\ \A k \in 1 .. m - n : y[k] = st[n + k]
    <3>1. n + 1 \in Int /\ m \in Int /\ \A i \in n + 1 .. m : st[i] \in Byte
      BY <1>1
    <3>2. /\ y \in Seq(Byte) /\ Len(y) = IF n + 1 <= m THEN m - (n + 1) + 1 ELSE 0
          /\ \A k \in 1 .. m - (n + 1) + 1 : y[k] = st[n + 1 + k - 1]
      BY <2>1, <3>1, SubSeqProperties
    <3>. QED  BY <1>1, <3>2
  <2>4. PICK z : z = y \o p
    OBVIOUS
  <2>5. /\ z \in Seq(Byte) /\ Len(z) = m - n + l
        /\ \A k \in 1 .. m - n : z[k] = y[k]
        /\ \A k \in 1 .. l : z[m - n + k] = p[k]
    <3>1. PICK e \in Nat : e = m - n
      <4>1. m - n \in Nat
        BY <1>1
      <4>. QED  BY <4>1
    <3>2. Len(y) = e
      BY <2>3, <3>1
    <3>3. /\ z \in Seq(Byte) /\ Len(z) = e + l
          /\ \A k \in 1 .. e : z[k] = y[k]
          /\ \A k \in 1 .. l : z[e + k] = p[k]
      <4>1. y \in Seq(Byte) /\ l = Len(p)
        BY <1>1, <2>3
      <4>2. /\ y \o p \in Seq(Byte) /\ Len(y \o p) = e + l
            /\ \A k \in 1 .. e : (y \o p)[k] = y[k]
            /\ \A k \in 1 .. l : (y \o p)[e + k] = p[k]
        BY <3>2, <4>1, Chained, Zenon
      <4>. QED  BY <2>4, <4>2, Zenon
    <3>. QED  BY <3>1, <3>3
  <2>6. ASSUME NEW k \in 1 .. m + l - n PROVE x[k] = z[k]
    <3>1. CASE k <= m - n
      <4>1. k \in 1 .. m - n /\ n + k \in 1 .. m
        BY <1>1, <3>1
      <4>. QED  BY <1>2, <2>2, <2>3, <2>5, <4>1
    <3>2. CASE k > m - n
      <4>1. PICK v \in 1 .. l : k = m - n + v
        <5>1. k - (m - n) \in 1 .. l /\ k = m - n + (k - (m - n))
          BY <1>1, <3>2
        <5>. QED  BY <5>1
      <4>2. n + k = m + v
        BY <1>1, <4>1
      <4>. QED  BY <1>2, <2>2, <2>5, <4>1, <4>2
    <3>. QED  BY <1>1, <3>1, <3>2
  <2>7. Len(x) = Len(z) /\ \A k \in 1 .. Len(x) : x[k] = z[k]
    BY <1>1, <2>2, <2>5, <2>6
  <2>8. x \in Seq(Byte) /\ z \in Seq(Byte)
    BY <2>2, <2>5
  <2>9. x = z
    BY <2>7, <2>8, SeqEqual
  <2>. QED  BY <2>1, <2>4, <2>9
<1>5. n \in 0 .. m + l
  BY <1>1
<1>6. SubSeq(s, n + 1, Len(s)) = SubSeq(st, n + 1, Len(st)) \o p /\ n \in 0 .. Len(s)
  BY <1>1, <1>2, <1>4, <1>5
<1>. QED  BY <1>2, <1>3, <1>6, Zenon

\* The probe reads, and shows what it has read.
LEMMA HostReadsTerm ==
    ASSUME RttInv, TermInv, NEW r \in Ups, NEW n \in Nat, HostReads(r, n)
    PROVE  TermInv'
<1>1. /\ r \in Buffers /\ Open(r) /\ n <= Used(ring[r]) /\ UNCHANGED <<active, job>>
      /\ DOMAIN stream = Buffers /\ Terminal \in Buffers
  BY BufferNames DEF HostReads, RttInv, Buffers
<1>2. CASE r # Terminal
  <2>1. host' = host /\ stream'[Terminal] = stream[Terminal]
    BY <1>1, <1>2 DEF HostReads, DrainRing
  <2>. QED  BY <1>1, <2>1, OthersTerm
<1>3. CASE r = Terminal
  <2>1. PICK st \in Seq(Byte) : st = stream[Terminal]
    BY <1>1 DEF RttInv, Sound
  <2>2. n \in 0 .. Len(st)
    BY <1>1, <1>3, <2>1 DEF RttInv, Sound, Holds, Open
  <2>3. PICK d \in Seq(Byte) : d = SubSeq(st, n + 1, Len(st))
    <3>1. SubSeq(st, n + 1, Len(st)) \in Seq(Byte)
      BY <2>2
    <3>. QED  BY <3>1
  <2>4. host' = Shown(SubSeq(st, 1, n)) /\ stream'[Terminal] = d
    BY <1>1, <1>3, <2>1, <2>3 DEF HostReads, DrainRing
  <2>5. ASSUME NEW i, NEW p \in Seq(Byte), Leads(host, st \o p, i)
        PROVE  Leads(host', d \o p, i)
    <3>1. PICK s \in Seq(Byte) : /\ s = st \o p /\ n \in 0 .. Len(s)
                                 /\ SubSeq(s, 1, n) = SubSeq(st, 1, n)
                                 /\ SubSeq(s, n + 1, Len(s)) = d \o p
      BY <2>2, <2>3, OldestBytes
    <3>2. Leads(Shown(SubSeq(s, 1, n)), SubSeq(s, n + 1, Len(s)), i)
      BY <2>5, <3>1, LeadsShown
    <3>. QED  BY <2>4, <3>1, <3>2
  <2>6. ASSUME \A t \in Tasks : ~Writing(t) PROVE Leads(host', d, active)
    <3>1. Leads(host, st, active)
      BY <2>1, <2>6 DEF TermInv
    <3>2. Leads(Shown(SubSeq(st, 1, n)), SubSeq(st, n + 1, Len(st)), active)
      BY <2>2, <3>1, LeadsShown
    <3>. QED  BY <2>3, <2>4, <3>2
  <2>7. ASSUME NEW t \in Tasks, Writing(t)
        PROVE  Len(job[t].pieces) <= 3 /\ Leads(host', d \o Flat(job[t].pieces), active)
    <3>1. Len(job[t].pieces) <= 3 /\ Leads(host, st \o Flat(job[t].pieces), active)
      BY <2>1, <2>7 DEF TermInv
    <3>2. Flat(job[t].pieces) \in Seq(Byte)
      BY <2>7, <3>1, WriterFacts, FlatLess DEF Writing
    <3>. QED  BY <2>5, <3>1, <3>2
  <2>8. \A t \in Tasks : Writing(t)' <=> Writing(t)
    BY <1>1 DEF Writing
  <2>. QED  BY <1>1, <2>4, <2>6, <2>7, <2>8 DEF TermInv
<1>. QED  BY <1>2, <1>3

\* The probe, and whoever types.
LEMMA ProbeTerm == ASSUME RttInv, TermInv, Probe PROVE TermInv'
<1>1. CASE \E r \in Ups, n \in 1 .. Max({BufferSizeUp, ExtraSize}) - 1 : HostReads(r, n)
  <2>1. PICK r \in Ups, n \in 1 .. Max({BufferSizeUp, ExtraSize}) - 1 : HostReads(r, n)
    BY <1>1
  <2>2. n \in Nat
    BY RttSizesAssumption, MaxOfTwo
  <2>. QED  BY <2>1, <2>2, HostReadsTerm
<1>2. CASE \E r \in Downs, c \in Keys : HostTypes(r, c)
  <2>1. PICK r \in Downs, c \in Keys : HostTypes(r, c)
    BY <1>2
  <2>2. r # Terminal /\ DOMAIN stream = Buffers /\ Terminal \in Buffers
    BY BufferNames DEF RttInv, Buffers
  <2>3. UNCHANGED <<host, active, job>> /\ stream'[Terminal] = stream[Terminal]
    BY <2>1, <2>2 DEF HostTypes
  <2>. QED  BY <2>3, OthersTerm
<1>. QED  BY <1>1, <1>2 DEF Probe

\* Calls that are one step, or configure buffers, have nothing to do with
\* what is on its way to a terminal.
LEMMA SmallCallsTerm ==
    ASSUME RttInv, TermInv, DoInit \/ AtomicCalls \/ ConfigCalls
    PROVE  TermInv'
<1>1. /\ DOMAIN stream = Buffers /\ Terminal \in Buffers /\ Terminal \notin Downs
      /\ Terminal \notin Local /\ <<"down", 0>> \in Downs /\ Terminal[2] = 0
  BY BufferNames, RttLocalAssumption DEF RttInv, Buffers, Terminal
<1>2. CASE DoInit
  BY <1>2, OthersTerm DEF DoInit
<1>3. CASE AtomicCalls
  <2>1. ASSUME NEW r, NEW n, r # Terminal, ReadNoLock(r, n) PROVE TermInv'
    <3>1. UNCHANGED <<host, active, job>> /\ stream'[Terminal] = stream[Terminal]
      BY <1>1, <2>1 DEF ReadNoLock, DrainRing
    <3>. QED  BY <3>1, OthersTerm
  <2>2. CASE \E r \in Ups, s \in Texts : WriteWithOverwrite(r, s)
    <3>1. UNCHANGED <<host, active, job>> /\ stream'[Terminal] = stream[Terminal]
      BY <1>1, <2>2 DEF WriteWithOverwrite
    <3>. QED  BY <3>1, OthersTerm
  <2>3. CASE \E r \in Ups, n \in 1 .. ExtraSize : ReadUp(r, n)
    BY <1>1, <2>1, <2>3 DEF ReadUp
  <2>4. CASE \E r \in Downs, n \in 1 .. Max({BufferSizeDown, ExtraSize}) : ReadNoLock(r, n)
    BY <1>1, <2>1, <2>4
  <2>5. CASE GetKey
    BY <1>1, <2>1, <2>5 DEF GetKey
  <2>. QED  BY <1>3, <2>2, <2>3, <2>4, <2>5 DEF AtomicCalls
<1>4. CASE ConfigCalls
  <2>1. ASSUME NEW r, NEW m, SetFlags(r, m) PROVE TermInv'
    BY <2>1, OthersTerm DEF SetFlags
  <2>2. ASSUME NEW r, NEW m, r # Terminal, Reset(r, ExtraSize, m) PROVE TermInv'
    <3>1. UNCHANGED <<host, active, job>> /\ stream'[Terminal] = stream[Terminal]
      BY <1>1, <2>2 DEF Reset
    <3>. QED  BY <3>1, OthersTerm
  <2>3. ASSUME NEW dir, NEW m, Alloc(dir, m) PROVE TermInv'
    <3>1. PICK i \in Indices :
             Calls(<<dir, i>>) /\ ~Open(<<dir, i>>) /\ Reset(<<dir, i>>, ExtraSize, m)
      BY <2>3 DEF Alloc
    <3>2. <<dir, i>> # Terminal
      BY <3>1 DEF Calls, Initialised, Open
    <3>. QED  BY <2>2, <3>1, <3>2
  <2>4. ASSUME NEW r, NEW m, Config(r, m) PROVE TermInv'
    <3>1. CASE r[2] > 0
      <4>1. r # Terminal
        BY <1>1, <3>1
      <4>. QED  BY <2>2, <2>4, <3>1, <4>1 DEF Config
    <3>2. CASE ~(r[2] > 0)
      BY <2>1, <2>4, <3>2 DEF Config
    <3>. QED  BY <3>1, <3>2
  <2>. QED  BY <1>4, <2>1, <2>3, <2>4
            DEF ConfigCalls, AllocUp, AllocDown, ConfigUp, ConfigDown, SetFlagsUp, SetFlagsDown
<1>. QED  BY <1>2, <1>3, <1>4

\* Nothing has been written yet, and terminal 0 is shown.
LEMMA InitTerm == Init => TermInv
<1>. SUFFICES ASSUME Init PROVE TermInv
  OBVIOUS
<1>1. stream[Terminal] = <<>> /\ active = "0" /\ host = Settled("0")
  BY BufferNames DEF Init, Settled
<1>2. \A t \in Tasks : ~Writing(t)
  BY DEF Init, Writing
<1>3. Leads(host, stream[Terminal], active)
  BY <1>1, LeadsNowhere
<1>. QED  BY <1>2, <1>3 DEF TermInv

\* What the host will have shown when it has read everything.
LEMMA TermShows == RttInv /\ TermInv => OnItsTerminal
<1>. SUFFICES ASSUME RttInv, TermInv PROVE OnItsTerminal
  OBVIOUS
<1>1. PICK st \in Seq(Byte) : st = stream[Terminal]
  BY BufferNames DEF RttInv, Sound, Buffers
<1>2. PICK n \in Nat : n = Len(st)
  OBVIOUS
<1>3. SubSeq(st, 1, n) = st /\ n \in 0 .. n
  BY <1>2
<1>4. CASE \A t \in Tasks : ~Writing(t)
  <2>1. Leads(host, st, active)
    BY <1>1, <1>4 DEF TermInv
  <2>2. Shown(st) = Settled(active)
    BY <1>2, <1>3, <2>1, LeadsShown
  <2>. QED  BY <1>1, <2>2 DEF OnItsTerminal, Settled
<1>5. ASSUME NEW t \in Tasks, Writing(t) PROVE OnItsTerminal
  <2>1. Len(job[t].pieces) <= 3 /\ Leads(host, st \o Flat(job[t].pieces), active)
    BY <1>1, <1>5 DEF TermInv
  <2>2. PICK p \in Seq(Byte) : p = Flat(job[t].pieces)
    BY <1>5, <2>1, WriterFacts, FlatLess DEF Writing
  <2>3. PICK s \in Seq(Byte) : s = st \o p /\ n \in 0 .. Len(s) /\ SubSeq(s, 1, n) = st
    <3>1. PICK s \in Seq(Byte) : s = st \o p
      BY Chained
    <3>2. n \in 0 .. Len(st) /\ SubSeq(st, 1, n) = st
      BY <1>2, <1>3
    <3>3. SubSeq(st \o p, 1, n) = SubSeq(st, 1, n) /\ n \in 0 .. Len(st \o p)
      BY <3>2, OldestBytes
    <3>. QED  BY <3>1, <3>2, <3>3, Zenon
  <2>4. Leads(host, s, active)
    BY <2>1, <2>2, <2>3
  <2>5. Shown(st).ok
    BY <2>3, <2>4, LeadsShown
  <2>6. ~Unlocked
    BY <1>5 DEF Unlocked, Writing
  <2>. QED  BY <1>1, <2>5, <2>6 DEF OnItsTerminal
<1>. QED  BY <1>4, <1>5

-----------------------------------------------------------------------------
(***************************************************************************)
(* The theorems.                                                           *)
(***************************************************************************)

\* The inductive invariants hold in every state.
LEMMA InvHolds == Spec => [](RttInv /\ RoomInv /\ TermInv)
<1>1. RttInv /\ RoomInv /\ TermInv /\ [Next]_vars => RttInv' /\ RoomInv' /\ TermInv'
  <2>. SUFFICES ASSUME RttInv, RoomInv, TermInv, [Next]_vars
                PROVE  RttInv' /\ RoomInv' /\ TermInv'
    OBVIOUS
  <2>1. CASE \E t \in Tasks : WriteCalls(t) \/ Copy(t) \/ Publish(t)
    BY <2>1, WriteCallsKept, CopyKept, PublishKept, WriteCallsFit, CopyFits, PublishFits,
       WriteCallsTerm, CopyTerm, PublishTerm
  <2>2. CASE UNCHANGED vars
    <3>1. ring' = ring /\ stream' = stream /\ job' = job /\ active' = active
      BY <2>2 DEF vars
    <3>2. RttInv'
      BY <3>1 DEF RttInv, OneWriter, Initialised
    <3>3. RoomInv'
      BY <3>1 DEF RoomInv
    <3>4. TermInv'
      BY <2>2, <3>1, OthersTerm DEF vars
    <3>. QED  BY <3>2, <3>3, <3>4
  <2>3. CASE DoInit \/ AtomicCalls \/ ConfigCalls
    BY <2>3, DoInitKept, AtomicCallsKept, ConfigCallsKept, OthersFit, SmallCallsTerm
  <2>4. CASE Probe
    BY <2>4, ProbeKept, ProbeFits, ProbeTerm
  <2>. QED  BY <2>1, <2>2, <2>3, <2>4 DEF Next
<1>2. Init => RttInv /\ RoomInv /\ TermInv
  <2>1. Init => RoomInv
    BY DEF Init, RoomInv
  <2>. QED  BY <2>1, InitInv, InitTerm
<1>. QED  BY <1>1, <1>2, PTL DEF Spec

\* Whatever tasks write and read, whoever is interrupted by the probe, and
\* whatever is configured: the bytes between RdOff and WrOff of every buffer
\* are the bytes written and not read, in order.
THEOREM RingsStayIntact == Spec => []RingsIntact
BY InvHolds, InvIsIntact, PTL

\* In the modes SKIP and TRIM no writer ever waits for the probe, although
\* SEGGER_RTT_TerminalOut writes with _WriteBlocking in all modes: the room
\* it has found beforehand is enough for its two switches and its text.
THEOREM NonBlockingModesDoNotBlock == Spec => []NoBlockNeverWaits
<1>1. RttInv /\ RoomInv => NoBlockNeverWaits
  <2>. SUFFICES ASSUME RttInv, RoomInv, NEW t \in Tasks, job[t] # Idle,
                       ring[job[t].ring].flags # "BLOCK"
                PROVE  /\ Len(job[t].pieces) <= 3
                       /\ Needs(job[t].pieces)
                              <= AvailWriteSpace([ring[job[t].ring] EXCEPT !.wr = From(job[t])])
    BY DEF NoBlockNeverWaits
  <2>1. PICK x : x = ring[job[t].ring]
    OBVIOUS
  <2>2. From(job[t]) = x.wr /\ IsRing(x)
    BY <2>1, WriterFacts
  <2>3. [x EXCEPT !.wr = x.wr] = x
    BY <2>2 DEF IsRing
  <2>4. Fits(job[t], x)
    BY <2>1 DEF RoomInv
  <2>. QED  BY <2>1, <2>2, <2>3, <2>4 DEF Fits
<1>. QED  BY <1>1, InvHolds, PTL

\* However the probe's reads fall between the rounds of a write, and whatever
\* is trimmed or skipped: each character appears on the terminal that was
\* active when it was written, or that SEGGER_RTT_TerminalOut named, and
\* between calls the host ends at the target's active terminal.
THEOREM OutputOnItsTerminal == Spec => []OnItsTerminal
BY InvHolds, TermShows, PTL

=============================================================================
