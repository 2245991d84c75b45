-------------------------------- MODULE Rtt --------------------------------
(***************************************************************************)
(* SEGGER RTT (segger/SEGGER_RTT.c), through which the firmware reaches a  *)
(* debug probe: ring buffers in the target's memory, written by tasks and  *)
(* read by the probe while the target runs.  The target moves WrOff and    *)
(* the probe RdOff (the other way round for input); neither waits for the  *)
(* other except in blocking mode.                                          *)
(*                                                                         *)
(* A write is a sequence of rounds: the target looks at the offsets and    *)
(* copies (Copy), then moves WrOff (Publish); the probe comes in between.  *)
(* SEGGER_RTT_LOCK of the M4 keeps other tasks out; the M0 has no lock.    *)
(***************************************************************************)
EXTENDS Naturals, SequencesExt

CONSTANTS
    Tasks,             \* whoever calls RTT
    None,
    Chars, Terminals,  \* bytes: characters, and the names of terminals
    Texts,             \* what one call writes
    MaxNumBuffers,     \* SEGGER_RTT_MAX_NUM_UP_BUFFERS and _DOWN_BUFFERS
    BufferSizeUp, BufferSizeDown, ExtraSize,  \* ExtraSize: buffers added later
    TerminalModes, OtherModes,  \* SEGGER_RTT_MODE_... the application sets
    Local,             \* up-buffers read by the target and not by the probe
    Uses               \* bound: the sets of buffers one application uses

Escape == "0xFF"
Blank == "blank"   \* a byte that has been read, or not yet written

ASSUME RttTextsAssumption == Texts \subseteq Seq(Chars) \ {<<>>}
ASSUME RttBytesAssumption ==
    /\ "0" \in Terminals /\ Chars \cap Terminals = {}
    /\ {Escape, Blank} \cap (Chars \cup Terminals) = {}
ASSUME RttSizesAssumption ==
    /\ MaxNumBuffers \in Nat \ {0}
    /\ {BufferSizeUp, BufferSizeDown, ExtraSize} \subseteq Nat \ {0, 1}
ASSUME RttModesAssumption == TerminalModes \cup OtherModes \subseteq {"SKIP", "TRIM", "BLOCK"}

Indices == 0 .. MaxNumBuffers - 1
Ups == {"up"} \X Indices
Downs == {"down"} \X Indices
Terminal == <<"up", 0>>

ASSUME RttLocalAssumption == Local \subseteq Ups \ {Terminal} /\ Uses \subseteq SUBSET (Ups \cup Downs)

VARIABLES
    uses,      \* the buffers this application uses
    ring,      \* _SEGGER_RTT: every up- and down-buffer
    active,    \* _ActiveTerminal
    job,       \* job[t]: the write t is inside of
    host,      \* the terminal the probe shows, and whether it saw an escape
    stream     \* what has been written to a buffer and not been read, each
               \* byte with the terminal it is meant for

vars == <<uses, ring, active, job, host, stream>>

(***************************************************************************)
(* Ring buffers.                                                           *)
(***************************************************************************)

\* SEGGER_RTT_BUFFER_UP and _DOWN; size 0 stands for pBuffer == NULL.
Fresh(size, mode) ==
    [buf |-> [k \in 0 .. size - 1 |-> Blank], size |-> size, rd |-> 0, wr |-> 0, flags |-> mode]

Used(r) == (r.wr + r.size - r.rd) % r.size
Content(r) == [k \in 1 .. Used(r) |-> r.buf[(r.rd + k - 1) % r.size]]

\* Mutant of AvailWriteSpace: no byte is kept free.
AvailToTheBrim(r) == IF r.rd <= r.wr THEN r.size - r.wr + r.rd ELSE r.rd - r.wr - 1

\* _GetAvailWriteSpace, and the same sum in the other writers.
AvailWriteSpace(r) == IF r.rd <= r.wr THEN r.size - 1 - r.wr + r.rd ELSE r.rd - r.wr - 1

\* memcpy of s to offset at, the rest of it to the start of the buffer.
Placed(r, at, s) ==
    [r EXCEPT !.buf = [k \in DOMAIN r.buf |->
        LET d == (k + r.size - at) % r.size
        IN  IF d < Len(s) THEN s[d + 1].b ELSE r.buf[k]]]

\* The reader takes n bytes.
Drained(r, n) ==
    [r EXCEPT !.rd = (@ + n) % r.size,
              !.buf = [k \in DOMAIN r.buf |->
                  IF (k + r.size - r.rd) % r.size < n THEN Blank ELSE r.buf[k]]]

DrainRing(r, n) ==
    /\ ring' = [ring EXCEPT ![r] = Drained(@, n)]
    /\ stream' = [stream EXCEPT ![r] = SubSeq(@, n + 1, Len(@))]

(***************************************************************************)
(* Bytes on their way to a terminal.                                       *)
(***************************************************************************)
For(id, s) == [k \in DOMAIN s |-> [b |-> s[k], on |-> id]]

\* What a call writes: only the terminal's buffer has terminals.
Text(r, s) == For(IF r = Terminal THEN active ELSE "0", s)

\* The two bytes that make the host show another terminal.
Switch(id) == For(id, <<Escape, id>>)

\* What the host does with a byte; ok while it shows characters where they
\* belong.
Show(h, byte) ==
    IF h.esc
    THEN [h EXCEPT !.esc = FALSE, !.term = byte.b, !.ok = @ /\ byte.b \in Terminals]
    ELSE IF byte.b = Escape THEN [h EXCEPT !.esc = TRUE]
    ELSE [h EXCEPT !.ok = @ /\ byte.on = h.term]

\* What it makes of the bytes s, one after the other.
Shown(s) ==
    LET after[k \in 0 .. Len(s)] == IF k = 0 THEN host ELSE Show(after[k - 1], s[k])
    IN  after[Len(s)]

(***************************************************************************)
(* Writers.                                                                *)
(***************************************************************************)
Idle == [ring |-> None, pieces |-> <<>>, blocking |-> FALSE, wr |-> None, chunk |-> 0]

\* Mutant of Unlocked: the M0, where SEGGER_RTT_LOCK is empty.
NoLock == TRUE

\* SEGGER_RTT_LOCK: no other call on the target is in progress.
Unlocked == \A t \in Tasks : job[t] = Idle

Initialised == ring[Terminal].size # 0
Calls(r) == Unlocked /\ Initialised /\ r \in uses
Open(r) == ring[r].size # 0

\* t writes pieces one after the other, waiting for room if it must.
Begin(t, r, pieces, blocking) ==
    /\ \A k \in DOMAIN pieces : pieces[k] # <<>>
    /\ job' = [job EXCEPT ![t] =
           [Idle EXCEPT !.ring = r, !.pieces = pieces, !.blocking = blocking]]
    /\ UNCHANGED <<uses, ring, host, stream>>

\* SEGGER_RTT_WriteNoLock
WriteNoLock(t, r, s) ==
    LET avail == AvailWriteSpace(ring[r])
    IN  \/ ring[r].flags = "SKIP" /\ Len(s) <= avail /\ Begin(t, r, <<s>>, FALSE)
        \/ ring[r].flags = "TRIM" /\ Begin(t, r, <<SubSeq(s, 1, Min({avail, Len(s)}))>>, FALSE)
        \/ ring[r].flags = "BLOCK" /\ r \notin Local /\ Begin(t, r, <<s>>, TRUE)

\* SEGGER_RTT_Write and _WriteString.  A task that blocks on a buffer only
\* the target reads would lock the reader out.
Write(t, r, s) ==
    Calls(r) /\ Open(r) /\ WriteNoLock(t, r, Text(r, s)) /\ UNCHANGED active

\* SEGGER_RTT_PutChar is a write of one byte, in all three modes.
PutChar(t, r, c) ==
    /\ Calls(r) /\ Open(r)
    /\ r \in Local => ring[r].flags # "BLOCK"
    /\ ring[r].flags = "BLOCK" \/ AvailWriteSpace(ring[r]) > 0
    /\ Begin(t, r, <<Text(r, <<c>>)>>, ring[r].flags = "BLOCK")
    /\ UNCHANGED active

\* SEGGER_RTT_WriteSkipNoLock, whose caller has the lock: all or nothing.
WriteSkip(t, r, s) ==
    /\ Calls(r) /\ Open(r)
    /\ Len(s) <= AvailWriteSpace(ring[r])
    /\ Begin(t, r, <<Text(r, s)>>, FALSE)
    /\ UNCHANGED active

\* SEGGER_RTT_PutCharSkip and _PutCharSkipNoLock, the same for one byte.
PutCharSkip(t, r, c) == WriteSkip(t, r, <<c>>)

\* SEGGER_RTT_SetTerminal: later output is for terminal id.
SetTerminal(t, id) ==
    /\ Calls(Terminal)
    /\ ring[Terminal].flags = "BLOCK" \/ AvailWriteSpace(ring[Terminal]) >= 2
    /\ active' = id
    /\ Begin(t, Terminal, <<Switch(id)>>, ring[Terminal].flags = "BLOCK")

\* Mutant of Trimmed: room for one of the two switches.
TrimmedLate(s, avail) == SubSeq(s, 1, Min({Len(s), avail - 2}))

\* What fits beside the two switches of two bytes.
Trimmed(s, avail) == SubSeq(s, 1, Min({Len(s), avail - 4}))

\* _PostTerminalSwitch, the text, and _PostTerminalSwitch back; writing no
\* bytes of a text does nothing.
Out(id, s) ==
    IF s = <<>> THEN <<Switch(id), Switch(active)>>
    ELSE <<Switch(id), For(id, s), Switch(active)>>

\* SEGGER_RTT_TerminalOut: output for terminal id, once.  It writes with
\* _WriteBlocking in every mode, after it has looked for room.
TerminalOut(t, id, s) ==
    LET avail == AvailWriteSpace(ring[Terminal])
    IN  /\ Calls(Terminal)
        /\ \/ /\ ring[Terminal].flags = "SKIP" /\ avail >= Len(s) + 4
              /\ Begin(t, Terminal, Out(id, s), TRUE)
           \/ /\ ring[Terminal].flags = "TRIM" /\ avail >= 4
              /\ Begin(t, Terminal, Out(id, Trimmed(s, avail)), TRUE)
           \/ /\ ring[Terminal].flags = "BLOCK"
              /\ Begin(t, Terminal, Out(id, s), TRUE)
        /\ UNCHANGED active

\* The offset a writer goes on from: read when it begins a piece and its
\* own variable from then on.
From(j) == IF j.wr = None THEN ring[j.ring].wr ELSE j.wr

\* Mutant of ChunkOf: the last byte before the end counts as no room.
ChunkOfShort(j) ==
    LET r == [ring[j.ring] EXCEPT !.wr = From(j)]
        rest == Len(Head(j.pieces))
    IN  IF j.blocking THEN Min({AvailWriteSpace(r), r.size - 1 - r.wr, rest}) ELSE rest

\* _WriteBlocking copies what fits, up to the end of the buffer, and
\* _WriteNoCheck everything.
ChunkOf(j) ==
    LET r == [ring[j.ring] EXCEPT !.wr = From(j)]
        rest == Len(Head(j.pieces))
    IN  IF j.blocking THEN Min({AvailWriteSpace(r), r.size - r.wr, rest}) ELSE rest

\* One round of a writer: the bytes (without room, the loop goes round).
Copy(t) ==
    LET j == job[t]
        n == ChunkOf(j)
    IN  /\ j # Idle /\ j.chunk = 0 /\ n > 0
        /\ ring' = [ring EXCEPT ![j.ring] =
               Placed(@, From(j), SubSeq(Head(j.pieces), 1, n))]
        /\ job' = [job EXCEPT ![t].chunk = n, ![t].wr = From(j)]
        /\ UNCHANGED <<uses, active, host, stream>>

Wrapped(off, size) == IF off >= size THEN off - size ELSE off

\* The rest of the round: WrOff is published, and the call returns if that
\* was all.
Publish(t) ==
    LET j == job[t]
        s == Head(j.pieces)
        wr == Wrapped(j.wr + j.chunk, ring[j.ring].size)
        left == IF j.chunk < Len(s)
                THEN [j EXCEPT !.pieces[1] = SubSeq(s, j.chunk + 1, Len(s)), !.wr = wr, !.chunk = 0]
                ELSE [j EXCEPT !.pieces = Tail(@), !.wr = None, !.chunk = 0]
    IN  /\ j # Idle /\ j.chunk > 0
        /\ ring' = [ring EXCEPT ![j.ring].wr = wr]
        /\ stream' = [stream EXCEPT ![j.ring] = @ \o SubSeq(s, 1, j.chunk)]
        /\ job' = [job EXCEPT ![t] = IF left.pieces = <<>> THEN Idle ELSE left]
        /\ UNCHANGED <<uses, active, host>>

\* How many of the oldest bytes must go.
Overwritten(r, s) == IF Len(s) > AvailWriteSpace(r) THEN Len(s) - AvailWriteSpace(r) ELSE 0

\* SEGGER_RTT_WriteWithOverwriteNoLock, for buffers the probe does not
\* read.  A text longer than the buffer loses its place: each further lap
\* of the loop counts SizeOfBuffer - 1.
WriteWithOverwrite(r, s) ==
    LET lost == Overwritten(ring[r], s)
        old == ring[r]
    IN  /\ Calls(r) /\ r \in Local /\ Open(r)
        /\ Len(s) < old.size
        /\ ring' = [ring EXCEPT ![r] = [Placed(Drained(old, lost), old.wr, Text(r, s))
                       EXCEPT !.wr = Wrapped(old.wr + Len(s), old.size)]]
        /\ stream' = [stream EXCEPT ![r] =
               SubSeq(@ \o Text(r, s), lost + 1, Len(@) + Len(s))]
        /\ UNCHANGED <<uses, active, job, host>>

(***************************************************************************)
(* Readers on the target.                                                  *)
(***************************************************************************)

\* SEGGER_RTT_ReadNoLock: up to BufferSize bytes of input, in two steps
\* when they wrap; the offset moves once.
ReadNoLock(r, size) ==
    /\ Calls(r) /\ Open(r) /\ Used(ring[r]) > 0
    /\ DrainRing(r, Min({size, Used(ring[r])}))
    /\ UNCHANGED <<uses, active, job, host>>

\* SEGGER_RTT_ReadUpNoLock, where there is no probe to read the buffer.
ReadUp(r, size) == r \in Local /\ ReadNoLock(r, size)

\* SEGGER_RTT_GetKey, and _WaitKey, which calls it until there is a key.
GetKey == ReadNoLock(<<"down", 0>>, 1)

(***************************************************************************)
(* Configuration.                                                          *)
(***************************************************************************)
Reset(r, size, mode) ==
    /\ ring' = [ring EXCEPT ![r] = Fresh(size, mode)]
    /\ stream' = [stream EXCEPT ![r] = <<>>]
    /\ UNCHANGED <<uses, active, job, host>>

SetFlags(r, mode) ==
    /\ ring' = [ring EXCEPT ![r].flags = mode]
    /\ UNCHANGED <<uses, active, job, host, stream>>

\* INIT() of the first call, or SEGGER_RTT_Init.
DoInit ==
    /\ ~Initialised
    /\ ring' = [r \in Ups \cup Downs |->
           CASE r = Terminal -> Fresh(BufferSizeUp, "SKIP")
             [] r = <<"down", 0>> -> Fresh(BufferSizeDown, "SKIP")
             [] OTHER -> Fresh(0, "SKIP")]
    /\ UNCHANGED <<uses, active, job, host, stream>>

\* SEGGER_RTT_AllocUpBuffer and _AllocDownBuffer: the first free buffer.
Alloc(dir, mode) ==
    \E i \in Indices :
        /\ Calls(<<dir, i>>)
        /\ ~Open(<<dir, i>>) /\ \A k \in 0 .. i - 1 : Open(<<dir, k>>)
        /\ Reset(<<dir, i>>, ExtraSize, mode)
AllocUp(mode) == Alloc("up", mode)
AllocDown(mode) == Alloc("down", mode)

\* SEGGER_RTT_ConfigUpBuffer and _ConfigDownBuffer: buffer 0 keeps its
\* memory and gets new flags only.
Config(r, mode) ==
    Calls(r) /\ IF r[2] > 0 THEN Reset(r, ExtraSize, mode) ELSE SetFlags(r, mode)
ConfigUp(i, mode) == Config(<<"up", i>>, mode)
ConfigDown(i, mode) == Config(<<"down", i>>, mode)

\* SEGGER_RTT_SetFlagsUpBuffer and _SetFlagsDownBuffer
SetFlagsUp(i, mode) == Calls(<<"up", i>>) /\ SetFlags(<<"up", i>>, mode)
SetFlagsDown(i, mode) == Calls(<<"down", i>>) /\ SetFlags(<<"down", i>>, mode)

(***************************************************************************)
(* The host.                                                               *)
(***************************************************************************)

\* The probe reads n bytes and shows them.
HostReads(r, n) ==
    /\ r \notin Local /\ Open(r) /\ n <= Used(ring[r])
    /\ host' = IF r = Terminal THEN Shown(SubSeq(stream[r], 1, n)) ELSE host
    /\ DrainRing(r, n)
    /\ UNCHANGED <<uses, active, job>>

\* Someone types.
HostTypes(r, c) ==
    /\ r \in uses /\ Open(r) /\ AvailWriteSpace(ring[r]) > 0
    /\ LET s == For("0", <<c>>)
       IN  /\ ring' = [ring EXCEPT ![r] =
                  [Placed(ring[r], ring[r].wr, s) EXCEPT !.wr = (@ + 1) % ring[r].size]]
           /\ stream' = [stream EXCEPT ![r] = @ \o s]
    /\ UNCHANGED <<uses, active, job, host>>

(***************************************************************************)
(* The specification.                                                      *)
(***************************************************************************)
Init ==
    /\ uses \in Uses
    /\ ring = [r \in Ups \cup Downs |-> Fresh(0, "SKIP")]
    /\ active = "0"
    /\ job = [t \in Tasks |-> Idle]
    /\ host = [term |-> "0", esc |-> FALSE, ok |-> TRUE]
    /\ stream = [r \in Ups \cup Downs |-> <<>>]

\* Single characters, for input too: those texts begin with.
Keys == {Head(s) : s \in Texts}

WriteCalls(t) ==
    \/ \E r \in Ups, s \in Texts :
           Write(t, r, s) \/ WriteSkip(t, r, s)
    \/ \E r \in Ups, c \in Keys : PutChar(t, r, c) \/ PutCharSkip(t, r, c)
    \/ \E id \in Terminals : SetTerminal(t, id)
    \/ \E id \in Terminals, s \in Texts : TerminalOut(t, id, s)

AtomicCalls ==
    \/ \E r \in Ups, s \in Texts : WriteWithOverwrite(r, s)
    \/ \E r \in Ups, n \in 1 .. ExtraSize : ReadUp(r, n)
    \/ \E r \in Downs, n \in 1 .. Max({BufferSizeDown, ExtraSize}) : ReadNoLock(r, n)
    \/ GetKey

ConfigCalls ==
    \/ \E m \in TerminalModes : ConfigUp(0, m) \/ SetFlagsUp(0, m)
    \/ \E m \in OtherModes :
        \/ AllocUp(m) \/ AllocDown(m) \/ ConfigDown(0, m) \/ SetFlagsDown(0, m)
        \/ \E i \in Indices \ {0} :
               ConfigUp(i, m) \/ ConfigDown(i, m) \/ SetFlagsUp(i, m) \/ SetFlagsDown(i, m)

Probe ==
    \/ \E r \in Ups, n \in 1 .. Max({BufferSizeUp, ExtraSize}) - 1 : HostReads(r, n)
    \/ \E r \in Downs, c \in Keys : HostTypes(r, c)

Next ==
    \/ DoInit
    \/ \E t \in Tasks :
           WriteCalls(t) \/ Copy(t) \/ Publish(t)
    \/ AtomicCalls
    \/ ConfigCalls
    \/ Probe

Spec == Init /\ [][Next]_vars

\* The processor goes on with a write it has begun, and a probe that is
\* attached reads on, a byte or more at a time.
FairSpec ==
    /\ Spec
    /\ \A t \in Tasks : WF_vars(Copy(t) \/ Publish(t))
    /\ \A r \in Ups \ Local : WF_vars(\E n \in 1 .. ring[r].size : HostReads(r, n))

(***************************************************************************)
(* Properties.                                                             *)
(***************************************************************************)
\* An offset is inside its buffer whenever the other side may read it, and
\* what the offsets enclose is what was written and not read, in order: a
\* full buffer is not taken for an empty one, nobody writes into bytes the
\* reader may look at, and WrOff never gets ahead of the copying.
RingsIntact ==
    \A r \in Ups \cup Downs :
        Open(r) => /\ {ring[r].rd, ring[r].wr} \subseteq DOMAIN ring[r].buf
                   /\ Content(ring[r]) = [k \in DOMAIN stream[r] |-> stream[r][k].b]

\* Whatever the probe has read so far, it will show each character on the
\* terminal that was active when it was written, or that TerminalOut named,
\* and it ends at the active terminal: a switch is never torn from its text,
\* trimmed, or skipped alone.
OnItsTerminal ==
    LET end == Shown(stream[Terminal])
    IN  end.ok /\ (Unlocked => ~end.esc /\ end.term = active)

\* The bytes of a write that has three pieces at most.
LengthOf(pieces, k) == IF k \in DOMAIN pieces THEN Len(pieces[k]) ELSE 0
Needs(pieces) == LengthOf(pieces, 1) + LengthOf(pieces, 2) + LengthOf(pieces, 3)

\* SKIP and TRIM promise not to block.  TerminalOut uses _WriteBlocking in
\* these modes too, and the room it has looked for lasts to its end: for both
\* switches and the text between them.
NoBlockNeverWaits ==
    \A t \in Tasks :
        job[t] # Idle /\ ring[job[t].ring].flags # "BLOCK" =>
            /\ Len(job[t].pieces) <= 3
            /\ Needs(job[t].pieces)
                   <= AvailWriteSpace([ring[job[t].ring] EXCEPT !.wr = From(job[t])])

\* A writer gets through, also one in blocking mode whose text is longer
\* than the buffer, if the probe reads on.
WritersFinish == \A t \in Tasks : job[t] # Idle ~> job[t] = Idle

=============================================================================
