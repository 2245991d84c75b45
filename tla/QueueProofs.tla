----------------------------- MODULE QueueProofs -----------------------------
(***************************************************************************)
(* The queues of a disciplined application, for any number of tasks and    *)
(* queues of any size, and interrupts at any moment: nothing halts, every  *)
(* list holds waiters of one kind, and Queue implements Channel.           *)
(***************************************************************************)
EXTENDS Queue, HandlersProofs

(***************************************************************************)
(* What is assumed of the application.  Its queues keep their senders and  *)
(* their receivers apart (QueueOnlySend shows what the flag QUEUE_ONLY     *)
(* does to that); no task suspends itself; it restarts no waiting task;    *)
(* its delays are not 0; and only the idle task has priority 0.            *)
(***************************************************************************)
Disciplined ==
    /\ QueueOnly = {}
    /\ "suspend_self" \notin Calls /\ "start_waiting" \notin Calls
    /\ 0 \notin Delays /\ 0 \notin StartPriorities

-----------------------------------------------------------------------------
(***************************************************************************)
(* The ring.  q is the structure of a queue.                               *)
(***************************************************************************)
QueueType ==
    [first: 0 .. Size - 1, last: 0 .. Size - 1, number: 0 .. Size,
     status: {"FINE", "BLOCKED_SEND", "BLOCKED_RECEIVE"},
     messages: [0 .. Size - 1 -> Messages \cup {None}]]

\* The next message goes behind the last one that is in the ring.
IsRing(q) == q \in QueueType /\ q.first = (q.last + q.number) % Size

\* An index that has passed the end of the ring at most once.
Around(i) == IF i < Size THEN i ELSE i - Size

\* Such an index comes back to the beginning of the ring.
LEMMA AroundIsMod ==
    ASSUME NEW i \in 0 .. 2 * Size - 1
    PROVE  i % Size = Around(i) /\ Around(i) \in 0 .. Size - 1
BY SizeAssumption DEF Around

\* The messages in the ring, by the indices they are at.
LEMMA ContentsFacts ==
    ASSUME NEW q, IsRing(q)
    PROVE  /\ Contents(q) \in Seq(Messages \cup {None}) /\ Len(Contents(q)) = q.number
           /\ \A i \in 1 .. q.number : /\ Around(q.last + i - 1) \in 0 .. Size - 1
                                       /\ Contents(q)[i] = q.messages[Around(q.last + i - 1)]
<1>1. q.number \in 0 .. Size /\ q.last \in 0 .. Size - 1 /\ Size \in Nat
      /\ q.messages \in [0 .. Size - 1 -> Messages \cup {None}]
  BY SizeAssumption DEF IsRing, QueueType
<1>2. \A i \in 1 .. q.number : /\ (q.last + i - 1) % Size = Around(q.last + i - 1)
                               /\ Around(q.last + i - 1) \in 0 .. Size - 1
  <2>. SUFFICES ASSUME NEW i \in 1 .. q.number
                PROVE  /\ (q.last + i - 1) % Size = Around(q.last + i - 1)
                       /\ Around(q.last + i - 1) \in 0 .. Size - 1
    OBVIOUS
  <2>1. q.last + i - 1 \in 0 .. 2 * Size - 1
    BY <1>1
  <2>. QED  BY <2>1, AroundIsMod
<1>3. \A i \in 1 .. q.number : q.messages[(q.last + i - 1) % Size] \in Messages \cup {None}
  BY <1>1, <1>2
<1>4. Contents(q) \in [1 .. q.number -> Messages \cup {None}]
  BY <1>3 DEF Contents
<1>5. Contents(q) \in Seq(Messages \cup {None}) /\ Len(Contents(q)) = q.number
  BY <1>1, <1>4
<1>. QED  BY <1>2, <1>5 DEF Contents

\* A message is put behind the others.
LEMMA PutFacts ==
    ASSUME NEW q, IsRing(q), q.number < Size, NEW m \in Messages \cup {None},
           NEW p, p = Put(q, m)
    PROVE  /\ IsRing(p) /\ p.number = q.number + 1 /\ p.status = q.status
           /\ Contents(p) = Append(Contents(q), m)
<1>1. /\ q \in QueueType /\ q.number \in 0 .. Size - 1 /\ q.last \in 0 .. Size - 1
      /\ q.first \in 0 .. Size - 1 /\ Size \in Nat \ {0}
      /\ q.messages \in [0 .. Size - 1 -> Messages \cup {None}]
  BY SizeAssumption DEF IsRing, QueueType
<1>2. q.first = Around(q.last + q.number) /\ Following(q.first) = Around(q.first + 1)
  <2>1. q.last + q.number \in 0 .. 2 * Size - 1 /\ q.first + 1 \in 0 .. 2 * Size - 1
    BY <1>1
  <2>. QED  BY <2>1, AroundIsMod DEF IsRing, Following
<1>3. /\ p.first = Around(q.first + 1) /\ p.last = q.last /\ p.number = q.number + 1
      /\ p.status = q.status /\ p.messages = [q.messages EXCEPT ![q.first] = m]
  BY <1>1, <1>2 DEF Put, QueueType
<1>4. Around(q.first + 1) \in 0 .. Size - 1 /\ q.number + 1 \in 0 .. Size
  BY <1>1 DEF Around
<1>5. p \in QueueType
  <2>1. p = [first |-> p.first, last |-> p.last, number |-> p.number, status |-> p.status,
             messages |-> p.messages]
    BY <1>1 DEF Put, QueueType
  <2>2. /\ p.first \in 0 .. Size - 1 /\ p.last \in 0 .. Size - 1 /\ p.number \in 0 .. Size
        /\ p.status \in {"FINE", "BLOCKED_SEND", "BLOCKED_RECEIVE"}
        /\ p.messages \in [0 .. Size - 1 -> Messages \cup {None}]
    BY <1>1, <1>3, <1>4 DEF QueueType
  <2>. QED  BY <2>1, <2>2 DEF QueueType
<1>6. IsRing(p)
  <2>1. p.last + p.number \in 0 .. 2 * Size - 1
    BY <1>1, <1>3
  <2>2. (p.last + p.number) % Size = Around(p.last + p.number)
    BY <2>1, AroundIsMod
  <2>3. p.first = Around(p.last + p.number)
    BY <1>1, <1>2, <1>3, SMTT(30) DEF Around
  <2>. QED  BY <1>5, <2>2, <2>3 DEF IsRing
<1>7. /\ Contents(q) \in Seq(Messages \cup {None}) /\ Len(Contents(q)) = q.number
      /\ \A i \in 1 .. q.number : Contents(q)[i] = q.messages[Around(q.last + i - 1)]
      /\ Contents(p) \in Seq(Messages \cup {None}) /\ Len(Contents(p)) = p.number
      /\ \A i \in 1 .. p.number : Contents(p)[i] = p.messages[Around(p.last + i - 1)]
  BY <1>6, ContentsFacts
<1>8. Contents(p) = Append(Contents(q), m)
  <2>1. ASSUME NEW i \in 1 .. q.number PROVE Contents(p)[i] = Contents(q)[i]
    <3>1. i \in 1 .. p.number /\ p.last = q.last
      BY <1>1, <1>3
    <3>2. /\ Around(q.last + i - 1) \in 0 .. Size - 1
          /\ Around(q.last + i - 1) # q.first
      BY <1>1, <1>2, SMTT(30) DEF Around
    <3>3. p.messages[Around(q.last + i - 1)] = q.messages[Around(q.last + i - 1)]
      BY <1>1, <1>3, <3>2
    <3>. QED  BY <1>7, <3>1, <3>3
  <2>2. Contents(p)[q.number + 1] = m
    <3>1. q.last + (q.number + 1) - 1 = q.last + q.number /\ q.number + 1 \in 1 .. p.number
      BY <1>1, <1>3
    <3>2. Contents(p)[q.number + 1] = p.messages[q.first]
      BY <1>2, <1>3, <1>7, <3>1
    <3>. QED  BY <1>1, <1>3, <3>2
  <2>3. Len(Append(Contents(q), m)) = q.number + 1
    BY <1>7
  <2>4. \A i \in 1 .. q.number + 1 : Contents(p)[i] = Append(Contents(q), m)[i]
    BY <1>1, <1>7, <2>1, <2>2, SMTT(30)
  <2>5. Append(Contents(q), m) \in Seq(Messages \cup {None})
    BY <1>7
  <2>. QED  BY <1>3, <1>7, <2>3, <2>4, <2>5, SeqEqual
<1>. QED  BY <1>3, <1>6, <1>8

\* The oldest message is taken.
LEMMA TakeFacts ==
    ASSUME NEW q, IsRing(q), q.number > 0, NEW p, p = Take(q)
    PROVE  /\ IsRing(p) /\ p.number = q.number - 1 /\ p.status = q.status
           /\ Contents(q) # <<>> /\ Contents(p) = Tail(Contents(q))
           /\ q.messages[q.last] = Head(Contents(q))
<1>1. /\ q \in QueueType /\ q.number \in 1 .. Size /\ q.last \in 0 .. Size - 1
      /\ q.first \in 0 .. Size - 1 /\ Size \in Nat \ {0}
  BY SizeAssumption DEF IsRing, QueueType
<1>2. q.first = Around(q.last + q.number) /\ Following(q.last) = Around(q.last + 1)
  <2>1. q.last + q.number \in 0 .. 2 * Size - 1 /\ q.last + 1 \in 0 .. 2 * Size - 1
    BY <1>1
  <2>. QED  BY <2>1, AroundIsMod DEF IsRing, Following
<1>3. /\ p.first = q.first /\ p.last = Around(q.last + 1) /\ p.number = q.number - 1
      /\ p.status = q.status /\ p.messages = q.messages
  BY <1>1, <1>2 DEF Take, QueueType
<1>4. Around(q.last + 1) \in 0 .. Size - 1 /\ q.number - 1 \in 0 .. Size
  BY <1>1 DEF Around
<1>5. p \in QueueType
  <2>1. p = [first |-> p.first, last |-> p.last, number |-> p.number, status |-> p.status,
             messages |-> p.messages]
    BY <1>1 DEF Take, QueueType
  <2>. QED  BY <1>1, <1>3, <1>4, <2>1 DEF QueueType
<1>6. IsRing(p)
  <2>1. p.last + p.number \in 0 .. 2 * Size - 1
    BY <1>1, <1>3, <1>4
  <2>2. (p.last + p.number) % Size = Around(p.last + p.number)
    BY <2>1, AroundIsMod
  <2>3. p.first = Around(p.last + p.number)
    BY <1>1, <1>2, <1>3 DEF Around
  <2>. QED  BY <1>5, <2>2, <2>3 DEF IsRing
<1>7. /\ Contents(q) \in Seq(Messages \cup {None}) /\ Len(Contents(q)) = q.number
      /\ Contents(p) \in Seq(Messages \cup {None}) /\ Len(Contents(p)) = q.number - 1
      /\ \A i \in 1 .. q.number : Contents(q)[i] = q.messages[Around(q.last + i - 1)]
      /\ \A i \in 1 .. q.number - 1 : Contents(p)[i] = q.messages[Around(p.last + i - 1)]
  BY <1>3, <1>6, ContentsFacts
<1>8. Contents(p) = Tail(Contents(q))
  <2>1. \A i \in 1 .. q.number - 1 : Around(p.last + i - 1) = Around(q.last + (i + 1) - 1)
    BY <1>1, <1>3 DEF Around
  <2>2. ASSUME NEW i \in 1 .. q.number - 1 PROVE Contents(p)[i] = Contents(q)[i + 1]
    <3>1. i + 1 \in 1 .. q.number
      BY <1>1
    <3>2. Contents(q)[i + 1] = q.messages[Around(q.last + (i + 1) - 1)]
      BY <1>7, <3>1
    <3>. QED  BY <1>7, <2>1, <3>2
  <2>3. Len(Tail(Contents(q))) = q.number - 1 /\ Tail(Contents(q)) \in Seq(Messages \cup {None})
        /\ \A i \in 1 .. q.number - 1 : Tail(Contents(q))[i] = Contents(q)[i + 1]
    BY <1>1, <1>7, HeadTailProperties
  <2>. QED  BY <1>7, <2>2, <2>3, SeqEqual
<1>9. q.messages[q.last] = Head(Contents(q)) /\ Contents(q) # <<>>
  <2>1. Around(q.last + 1 - 1) = q.last
    BY <1>1 DEF Around
  <2>2. Contents(q)[1] = q.messages[q.last]
    BY <1>1, <1>7, <2>1
  <2>. QED  BY <1>1, <1>7, <2>2
<1>. QED  BY <1>3, <1>6, <1>8, <1>9

-----------------------------------------------------------------------------
(***************************************************************************)
(* The channel a queue is.  s is the list of its blocked tasks, whose      *)
(* messages are in m.                                                      *)
(***************************************************************************)

\* The senders of s with their messages.
Posted(s, m) == [i \in 1 .. Len(s) |-> [task |-> s[i], message |-> m[s[i]]]]

\* s, if the queue q is blocked for that.
Waiters(s, q, status) == IF q.status = status THEN s ELSE <<>>

\* What the calls on o will return.
Outcomes(g, c, o) ==
    [t \in Tasks |-> IF c[t] # None /\ c[t].queue = o THEN g.ret[t] ELSE None]

Chan(b, s, r, f) == [buffer |-> b, senders |-> s, receivers |-> r, outcome |-> f]

View(g, q, m, c, o) ==
    Chan(Contents(q[o]), Posted(Waiters(g.blocked[o], q[o], "BLOCKED_SEND"), m),
         Waiters(g.blocked[o], q[o], "BLOCKED_RECEIVE"), Outcomes(g, c, o))

\* A list of which at most one task is gone.
MayLeave(s) == {s} \cup {RemoveAt(s, i) : i \in 1 .. Len(s)}

\* Queue and Channel have the same lists and results.
LEMMA SameOperators ==
    /\ \A s : C!AtMostOneLeaves(s) = MayLeave(s)
    /\ \A s : C!ToSet(s) = ToSet(s)
    /\ \A x : C!Received(x) = Received(x)
    /\ C!Sent = Returning("SUCCESS") /\ C!TimedOut = Returning("TO")
    /\ C!Refused = Returning("MEM")
<1>1. \A s, i : C!RemoveAt(s, i) = RemoveAt(s, i)
  BY DEF RemoveAt, C!RemoveAt
<1>2. \A s : C!AtMostOneLeaves(s) = MayLeave(s)
  BY <1>1 DEF C!AtMostOneLeaves, MayLeave
<1>3. \A s : C!ToSet(s) = ToSet(s)
  BY DEF C!ToSet, ToSet
<1>. QED  BY <1>2, <1>3 DEF C!Received, Received, C!Sent, C!TimedOut, C!Refused, Returning

\* Another buffer and other outcomes.
Rebuffer(c, x, y) == [c EXCEPT !.buffer = x, !.outcome = y]

\* That is all it changes.
LEMMA Rebuffered ==
    ASSUME NEW b, NEW s, NEW r, NEW f, NEW c, c = Chan(b, s, r, f), NEW x, NEW y
    PROVE  Rebuffer(c, x, y) = Chan(x, s, r, y)
<1>1. [c EXCEPT !.buffer = x, !.outcome = y] = [[c EXCEPT !.buffer = x] EXCEPT !.outcome = y]
  OBVIOUS
<1>2. [c EXCEPT !.buffer = x] = Chan(x, s, r, f)
  BY DEF Chan
<1>3. [Chan(x, s, r, f) EXCEPT !.outcome = y] = Chan(x, s, r, y)
  BY DEF Chan
<1>. QED  BY <1>1, <1>2, <1>3, Zenon DEF Rebuffer

\* Other waiters and outcomes.
Rewait(c, x, y, z) == [c EXCEPT !.senders = x, !.receivers = y, !.outcome = z]

\* That is all it changes.
LEMMA Rewaited ==
    ASSUME NEW b, NEW s, NEW r, NEW f, NEW c, c = Chan(b, s, r, f), NEW x, NEW y, NEW z
    PROVE  Rewait(c, x, y, z) = Chan(b, x, y, z)
<1>1. [c EXCEPT !.senders = x, !.receivers = y, !.outcome = z]
          = [[[c EXCEPT !.senders = x] EXCEPT !.receivers = y] EXCEPT !.outcome = z]
  OBVIOUS
<1>2. [c EXCEPT !.senders = x] = Chan(b, x, r, f)
  BY DEF Chan
<1>3. [Chan(b, x, r, f) EXCEPT !.receivers = y] = Chan(b, x, y, f)
  BY DEF Chan
<1>4. [Chan(b, x, y, f) EXCEPT !.outcome = z] = Chan(b, x, y, z)
  BY DEF Chan
<1>. QED  BY <1>1, <1>2, <1>3, <1>4, Zenon DEF Rewait

\* A channel of which one waiter at most is gone.
LEMMA WaitingFacts ==
    ASSUME NEW b, NEW s, NEW r, NEW f, NEW c, c = Chan(b, s, r, f),
           NEW ss, NEW rr, NEW ff, NEW s2, NEW r2,
           (s2 \in MayLeave(ss) /\ r2 = rr) \/ (s2 = ss /\ r2 \in MayLeave(rr))
    PROVE  Chan(b, s2, r2, ff) \in C!Waiting(c, ss, rr, ff)
<1>1. Rewait(c, s2, r2, ff) = Chan(b, s2, r2, ff)
  BY Rewaited
<1>2. C!AtMostOneLeaves(ss) = MayLeave(ss) /\ C!AtMostOneLeaves(rr) = MayLeave(rr)
  BY SameOperators, Zenon
<1>3. CASE s2 \in MayLeave(ss) /\ r2 = rr
  <2>1. Rewait(c, s2, rr, ff) \in C!Waiting(c, ss, rr, ff)
    BY <1>2, <1>3, Zenon DEF C!Waiting, Rewait
  <2>. QED  BY <1>1, <1>3, <2>1
<1>4. CASE s2 = ss /\ r2 \in MayLeave(rr)
  <2>1. Rewait(c, ss, r2, ff) \in C!Waiting(c, ss, rr, ff)
    BY <1>2, <1>4, Zenon DEF C!Waiting, Rewait
  <2>. QED  BY <1>1, <1>4, <2>1
<1>. QED  BY <1>3, <1>4

\* Nobody leaves the empty list.
LEMMA NothingLeaves == MayLeave(<<>>) = {<<>>}
BY DEF MayLeave

\* What is left of a list, with the messages.
LEMMA PostedLeave ==
    ASSUME NEW s \in Seq(Tasks), NEW r \in MayLeave(s), NEW m
    PROVE  Posted(r, m) \in MayLeave(Posted(s, m))
<1>1. CASE r = s
  BY <1>1 DEF MayLeave
<1>2. CASE r # s
  <2>1. PICK i \in 1 .. Len(s) : r = RemoveAt(s, i)
    BY <1>2 DEF MayLeave
  <2>. DEFINE S == {[task |-> t, message |-> m[t]] : t \in Tasks}
              p == Posted(s, m)
  <2>2. /\ r \in Seq(Tasks) /\ Len(r) = Len(s) - 1
        /\ \A k \in 1 .. Len(s) - 1 : r[k] = IF k < i THEN s[k] ELSE s[k + 1]
    BY <2>1, RemoveAtFacts
  <2>3. p \in Seq(S) /\ Len(p) = Len(s) /\ \A k \in 1 .. Len(s) : p[k] = [task |-> s[k], message |-> m[s[k]]]
    <3>1. \A k \in 1 .. Len(s) : s[k] \in Tasks
      OBVIOUS
    <3>2. p \in [1 .. Len(s) -> S] /\ Len(s) \in Nat
      BY <3>1 DEF Posted
    <3>. QED  BY <3>2 DEF Posted
  <2>4. /\ RemoveAt(p, i) \in Seq(S) /\ Len(RemoveAt(p, i)) = Len(s) - 1
        /\ \A k \in 1 .. Len(s) - 1 : RemoveAt(p, i)[k] = IF k < i THEN p[k] ELSE p[k + 1]
    <3>. HIDE DEF p, S
    <3>. QED  BY <2>3, RemoveAtFacts
  <2>5. Posted(r, m) \in Seq(S) /\ Len(Posted(r, m)) = Len(s) - 1
          /\ \A k \in 1 .. Len(s) - 1 : Posted(r, m)[k] = [task |-> r[k], message |-> m[r[k]]]
    <3>1. \A k \in 1 .. Len(r) : r[k] \in Tasks
      BY <2>2
    <3>2. Posted(r, m) \in [1 .. Len(r) -> S] /\ Len(r) \in Nat
      BY <2>2, <3>1 DEF Posted
    <3>. QED  BY <2>2, <3>2 DEF Posted
  <2>. HIDE DEF p, S
  <2>6. ASSUME NEW k \in 1 .. Len(s) - 1 PROVE Posted(r, m)[k] = RemoveAt(p, i)[k]
    <3>1. k \in 1 .. Len(s) /\ k + 1 \in 1 .. Len(s)
      OBVIOUS
    <3>2. /\ Posted(r, m)[k] = [task |-> r[k], message |-> m[r[k]]]
          /\ RemoveAt(p, i)[k] = IF k < i THEN p[k] ELSE p[k + 1]
          /\ r[k] = IF k < i THEN s[k] ELSE s[k + 1]
      BY <2>2, <2>4, <2>5
    <3>3. /\ p[k] = [task |-> s[k], message |-> m[s[k]]]
          /\ p[k + 1] = [task |-> s[k + 1], message |-> m[s[k + 1]]]
      BY <2>3, <3>1
    <3>. QED  BY <3>2, <3>3
  <2>7. Posted(r, m) = RemoveAt(p, i)
    BY <2>4, <2>5, <2>6, SeqEqual
  <2>. QED  BY <2>3, <2>7 DEF MayLeave, p
<1>. QED  BY <1>1, <1>2

\* One more sender.
LEMMA PostedAppend ==
    ASSUME NEW s \in Seq(Tasks), NEW t \in Tasks, NEW m, NEW x, NEW n, n[t] = x,
           \A u \in Tasks : Contains(s, u) => n[u] = m[u]
    PROVE  Posted(Append(s, t), n) = Append(Posted(s, m), [task |-> t, message |-> x])
<1>. DEFINE S == {[task |-> u, message |-> m[u]] : u \in Tasks}
                    \cup {[task |-> u, message |-> n[u]] : u \in Tasks}
            e == [task |-> t, message |-> x]
<1>1. \A k \in 1 .. Len(s) : s[k] \in Tasks /\ n[s[k]] = m[s[k]]
  BY DEF Contains
<1>2. Posted(s, m) \in [1 .. Len(s) -> S] /\ Len(s) \in Nat
  BY <1>1 DEF Posted
<1>3. /\ Posted(s, m) \in Seq(S) /\ Len(Posted(s, m)) = Len(s)
      /\ \A k \in 1 .. Len(s) : Posted(s, m)[k] = [task |-> s[k], message |-> m[s[k]]]
  BY <1>2 DEF Posted
<1>4. Append(s, t) \in Seq(Tasks) /\ Len(Append(s, t)) = Len(s) + 1
  OBVIOUS
<1>5. Posted(Append(s, t), n) \in [1 .. Len(s) + 1 -> S]
  <2>1. \A k \in 1 .. Len(s) + 1 : Append(s, t)[k] \in Tasks
    BY <1>4
  <2>. QED  BY <1>4, <2>1 DEF Posted
<1>6. /\ Posted(Append(s, t), n) \in Seq(S) /\ Len(Posted(Append(s, t), n)) = Len(s) + 1
      /\ \A k \in 1 .. Len(s) + 1 : Posted(Append(s, t), n)[k] =
             [task |-> Append(s, t)[k], message |-> n[Append(s, t)[k]]]
  BY <1>4, <1>5 DEF Posted
<1>7. e \in S
  OBVIOUS
<1>. HIDE DEF S, e
<1>8. /\ Append(Posted(s, m), e) \in Seq(S) /\ Len(Append(Posted(s, m), e)) = Len(s) + 1
      /\ \A k \in 1 .. Len(s) + 1 : Append(Posted(s, m), e)[k] =
             IF k = Len(s) + 1 THEN e ELSE Posted(s, m)[k]
  BY <1>3, <1>7
<1>9. ASSUME NEW k \in 1 .. Len(s) + 1
      PROVE  Posted(Append(s, t), n)[k] = Append(Posted(s, m), e)[k]
  <2>1. CASE k = Len(s) + 1
    <3>1. Append(s, t)[k] = t
      BY <2>1
    <3>. QED  BY <1>6, <1>8, <2>1, <3>1 DEF e
  <2>2. CASE k # Len(s) + 1
    <3>1. Append(s, t)[k] = s[k] /\ k \in 1 .. Len(s)
      BY <2>2
    <3>. QED  BY <1>1, <1>3, <1>6, <1>8, <2>2, <3>1
  <2>. QED  BY <2>1, <2>2
<1>. QED  BY <1>6, <1>8, <1>9, SeqEqual DEF e

\* The first sender is gone.
LEMMA PostedTail ==
    ASSUME NEW s \in Seq(Tasks), s # <<>>, NEW m, NEW n,
           \A u \in Tasks : Contains(Tail(s), u) => n[u] = m[u]
    PROVE  /\ Posted(s, m) # <<>> /\ Posted(Tail(s), n) = Tail(Posted(s, m))
           /\ Head(Posted(s, m)) = [task |-> Head(s), message |-> m[Head(s)]]
<1>. DEFINE S == {[task |-> u, message |-> m[u]] : u \in Tasks}
                    \cup {[task |-> u, message |-> n[u]] : u \in Tasks}
<1>1. Posted(s, m) \in [1 .. Len(s) -> S] /\ Len(s) \in Nat /\ Len(s) > 0
  <2>1. \A k \in 1 .. Len(s) : s[k] \in Tasks
    OBVIOUS
  <2>. QED  BY <2>1 DEF Posted
<1>2. /\ Posted(s, m) \in Seq(S) /\ Len(Posted(s, m)) = Len(s)
      /\ \A k \in 1 .. Len(s) : Posted(s, m)[k] = [task |-> s[k], message |-> m[s[k]]]
  BY <1>1 DEF Posted
<1>3. /\ Tail(s) \in Seq(Tasks) /\ Len(Tail(s)) = Len(s) - 1
      /\ \A k \in 1 .. Len(s) - 1 : Tail(s)[k] = s[k + 1] /\ n[s[k + 1]] = m[s[k + 1]]
  <2>1. Tail(s) \in Seq(Tasks) /\ Len(Tail(s)) = Len(s) - 1
    OBVIOUS
  <2>2. ASSUME NEW k \in 1 .. Len(s) - 1
        PROVE  Tail(s)[k] = s[k + 1] /\ Contains(Tail(s), s[k + 1]) /\ s[k + 1] \in Tasks
    <3>1. Tail(s)[k] = s[k + 1] /\ s[k + 1] \in Tasks
      OBVIOUS
    <3>. QED  BY <2>1, <3>1 DEF Contains
  <2>. QED  BY <2>1, <2>2
<1>4. /\ Posted(Tail(s), n) \in Seq(S) /\ Len(Posted(Tail(s), n)) = Len(s) - 1
      /\ \A k \in 1 .. Len(s) - 1 : Posted(Tail(s), n)[k] =
             [task |-> s[k + 1], message |-> m[s[k + 1]]]
  <2>1. \A k \in 1 .. Len(s) - 1 : s[k + 1] \in Tasks
    OBVIOUS
  <2>2. Posted(Tail(s), n) \in [1 .. Len(s) - 1 -> S] /\ Len(s) - 1 \in Nat
    BY <1>1, <1>3, <2>1 DEF Posted
  <2>. QED  BY <1>3, <2>2 DEF Posted
<1>. HIDE DEF S
<1>5. /\ Tail(Posted(s, m)) \in Seq(S) /\ Len(Tail(Posted(s, m))) = Len(s) - 1
      /\ \A k \in 1 .. Len(s) - 1 : Tail(Posted(s, m))[k] = Posted(s, m)[k + 1]
      /\ Posted(s, m) # <<>> /\ Head(Posted(s, m)) = Posted(s, m)[1]
  BY <1>1, <1>2
<1>6. ASSUME NEW k \in 1 .. Len(s) - 1
      PROVE  Posted(Tail(s), n)[k] = Tail(Posted(s, m))[k]
  <2>1. k + 1 \in 1 .. Len(s)
    BY <1>1
  <2>. QED  BY <1>2, <1>4, <1>5, <2>1
<1>7. Posted(Tail(s), n) = Tail(Posted(s, m))
  BY <1>4, <1>5, <1>6, SeqEqual
<1>8. Head(s) = s[1] /\ 1 \in 1 .. Len(s)
  BY <1>1
<1>. QED  BY <1>2, <1>5, <1>7, <1>8

\* Only the messages of the tasks in the list matter.
LEMMA PostedAlike ==
    ASSUME NEW s \in Seq(Tasks), NEW m, NEW n, \A u \in Tasks : Contains(s, u) => n[u] = m[u]
    PROVE  Posted(s, n) = Posted(s, m)
<1>1. \A k \in 1 .. Len(s) : n[s[k]] = m[s[k]]
  <2>1. \A k \in 1 .. Len(s) : s[k] \in Tasks /\ Contains(s, s[k])
    BY DEF Contains
  <2>. QED  BY <2>1
<1>. QED  BY <1>1 DEF Posted

-----------------------------------------------------------------------------
(***************************************************************************)
(* The steps of a channel, part by part.  f is what the calls will return, *)
(* and t the task that makes a call.                                       *)
(***************************************************************************)
\* What a channel consists of.
LEMMA Parts ==
    ASSUME NEW b, NEW s, NEW r, NEW f
    PROVE  LET c == Chan(b, s, r, f)
           IN  c.buffer = b /\ c.senders = s /\ c.receivers = r /\ c.outcome = f
BY DEF Chan

\* A waiter's time is out.
LEMMA GiveUpChanges ==
    ASSUME NEW b, NEW s, NEW r, NEW f, NEW s2, NEW r2,
           (s2 \in MayLeave(s) /\ r2 = r) \/ (s2 = s /\ r2 \in MayLeave(r))
    PROVE  C!Changes(Chan(b, s, r, f), Chan(b, s2, r2, f))
<1>. DEFINE c == Chan(b, s, r, f)
<1>1. Chan(b, s2, r2, f) \in C!Waiting(c, s, r, f)
  BY WaitingFacts
<1>2. c.senders = s /\ c.receivers = r /\ c.outcome = f
  BY Parts
<1>. HIDE DEF c
<1>3. C!GiveUp(c, Chan(b, s2, r2, f))
  BY <1>1, <1>2 DEF C!GiveUp
<1>. QED  BY <1>3 DEF C!Changes, c

\* m is given to the first receiver; told is what the other calls return.
LEMMA AcceptGives ==
    ASSUME NEW b, NEW s, NEW r, NEW f, NEW m, NEW told, r # <<>>, NEW r2 \in MayLeave(Tail(r))
    PROVE  C!Accept(Chan(b, s, r, f), Chan(b, s, r2, [told EXCEPT ![Head(r)] = Received(m)]),
                    m, told)
<1>. DEFINE c == Chan(b, s, r, f)
            g == [told EXCEPT ![Head(r)] = Received(m)]
<1>1. Chan(b, s, r2, g) \in C!Waiting(c, s, Tail(r), g)
  BY WaitingFacts
<1>2. c.senders = s /\ c.receivers = r
  BY Parts
<1>3. C!Received(m) = Received(m)
  BY SameOperators
<1>. HIDE DEF c
<1>4. C!Accept(c, Chan(b, s, r2, g), m, told)
  BY <1>1, <1>2, <1>3 DEF C!Accept
<1>. QED  BY <1>4 DEF c

\* m goes into the buffer.
LEMMA AcceptPuts ==
    ASSUME NEW b, NEW s, NEW r, NEW f, NEW m, NEW told, r = <<>>, Len(b) < Size
    PROVE  C!Accept(Chan(b, s, r, f), Chan(Append(b, m), s, r, told), m, told)
<1>. DEFINE c == Chan(b, s, r, f)
<1>1. c.buffer = b /\ c.receivers = r
  BY Parts
<1>2. Rebuffer(c, Append(b, m), told) = Chan(Append(b, m), s, r, told)
  BY Rebuffered
<1>. HIDE DEF c
<1>3. [c EXCEPT !.buffer = Append(@, m), !.outcome = told] = Chan(Append(b, m), s, r, told)
  BY <1>1, <1>2, Zenon DEF Rebuffer
<1>4. C!Accept(c, Chan(Append(b, m), s, r, told), m, told)
  BY <1>1, <1>3 DEF C!Accept
<1>. QED  BY <1>4 DEF c

\* Whatever is accepted has been sent by a task or by an interrupt.
LEMMA SendChanges ==
    ASSUME NEW b, NEW s, NEW r, NEW f, NEW d, NEW m \in Messages,
           \/ C!Accept(Chan(b, s, r, f), d, m, f)
           \/ \E t \in Tasks : /\ f[t] = None
                               /\ C!Accept(Chan(b, s, r, f), d, m,
                                           [f EXCEPT ![t] = Returning("SUCCESS")])
    PROVE  C!Changes(Chan(b, s, r, f), d)
<1>1. Chan(b, s, r, f).outcome = f
  BY Parts
<1>2. CASE C!Accept(Chan(b, s, r, f), d, m, f)
  BY <1>1, <1>2 DEF C!Changes, C!SendFromInterrupt
<1>3. CASE \E t \in Tasks : /\ f[t] = None
                            /\ C!Accept(Chan(b, s, r, f), d, m,
                                        [f EXCEPT ![t] = Returning("SUCCESS")])
  <2>1. PICK t \in Tasks : /\ f[t] = None
                           /\ C!Accept(Chan(b, s, r, f), d, m,
                                       [f EXCEPT ![t] = Returning("SUCCESS")])
    BY <1>3
  <2>2. C!Sent = Returning("SUCCESS")
    BY SameOperators
  <2>3. C!Send(Chan(b, s, r, f), d, t, m)
    BY <1>1, <2>1, <2>2 DEF C!Send
  <2>. QED  BY <2>3 DEF C!Changes
<1>. QED  BY <1>2, <1>3

\* A message has to wait for room.
LEMMA SendLaterChanges ==
    ASSUME NEW b, NEW s, NEW r, NEW f, NEW t \in Tasks, NEW m \in Messages, f[t] = None,
           Len(b) = Size, NEW s2 \in MayLeave(Append(s, [task |-> t, message |-> m]))
    PROVE  C!Changes(Chan(b, s, r, f), Chan(b, s2, r, [f EXCEPT ![t] = Returning("TO")]))
<1>. DEFINE c == Chan(b, s, r, f)
            g == [f EXCEPT ![t] = Returning("TO")]
<1>1. Chan(b, s2, r, g) \in C!Waiting(c, Append(s, [task |-> t, message |-> m]), r, g)
  BY WaitingFacts
<1>2. /\ c.buffer = b /\ c.senders = s /\ c.receivers = r /\ c.outcome = f
      /\ C!TimedOut = Returning("TO")
  BY Parts, SameOperators
<1>. HIDE DEF c
<1>3. C!SendLater(c, Chan(b, s2, r, g), t, m)
  BY <1>1, <1>2 DEF C!SendLater
<1>. QED  BY <1>3 DEF C!Changes, c

\* The oldest message is received, and nobody waits for its room.
LEMMA ReceiveChanges ==
    ASSUME NEW b, NEW s, NEW r, NEW f, NEW t \in Tasks, f[t] = None, b # <<>>, s = <<>>
    PROVE  C!Changes(Chan(b, s, r, f),
                     Chan(Tail(b), s, r, [f EXCEPT ![t] = Received(Head(b))]))
<1>. DEFINE c == Chan(b, s, r, f)
            g == [f EXCEPT ![t] = Received(Head(b))]
<1>1. Rebuffer(c, Tail(b), g) = Chan(Tail(b), s, r, g)
  BY Rebuffered
<1>2. /\ c.buffer = b /\ c.senders = s /\ c.outcome = f
      /\ C!Received(Head(b)) = Received(Head(b))
  BY Parts, SameOperators
<1>. HIDE DEF c
<1>3. C!Receive(c, Chan(Tail(b), s, r, g), t)
  BY <1>1, <1>2 DEF C!Receive, Rebuffer
<1>. QED  BY <1>3 DEF C!Changes, c

\* And the first sender takes the room.
LEMMA RefillChanges ==
    ASSUME NEW b, NEW s, NEW r, NEW f, NEW t \in Tasks, f[t] = None, b # <<>>, s # <<>>,
           NEW u, NEW m, Head(s) = [task |-> u, message |-> m], NEW s2 \in MayLeave(Tail(s))
    PROVE  C!Changes(Chan(b, s, r, f),
                     Chan(Append(Tail(b), m), s2, r,
                          [[f EXCEPT ![t] = Received(Head(b))] EXCEPT ![u] = Returning("SUCCESS")]))
<1>. DEFINE c == Chan(b, s, r, f)
            e == Append(Tail(b), m)
            g == [[f EXCEPT ![t] = Received(Head(b))] EXCEPT ![u] = Returning("SUCCESS")]
<1>1. [c EXCEPT !.buffer = e] = Chan(e, s, r, f)
  BY DEF Chan
<1>2. Chan(e, s2, r, g) \in C!Waiting(Chan(e, s, r, f), Tail(s), r, g)
  BY WaitingFacts
<1>3. /\ c.buffer = b /\ c.senders = s /\ c.receivers = r /\ c.outcome = f
      /\ C!Received(Head(b)) = Received(Head(b)) /\ C!Sent = Returning("SUCCESS")
      /\ Head(s).task = u /\ Head(s).message = m
  BY Parts, SameOperators
<1>. HIDE DEF c
<1>4. C!Receive(c, Chan(e, s2, r, g), t)
  BY <1>1, <1>2, <1>3 DEF C!Receive
<1>. QED  BY <1>4 DEF C!Changes, c

\* A receiver has to wait for a message.
LEMMA ReceiveLaterChanges ==
    ASSUME NEW b, NEW s, NEW r, NEW f, NEW t \in Tasks, f[t] = None, b = <<>>,
           NEW r2 \in MayLeave(Append(r, t))
    PROVE  C!Changes(Chan(b, s, r, f), Chan(b, s, r2, [f EXCEPT ![t] = Returning("TO")]))
<1>. DEFINE c == Chan(b, s, r, f)
            g == [f EXCEPT ![t] = Returning("TO")]
<1>1. Chan(b, s, r2, g) \in C!Waiting(c, s, Append(r, t), g)
  BY WaitingFacts
<1>2. /\ c.buffer = b /\ c.senders = s /\ c.receivers = r /\ c.outcome = f
      /\ C!TimedOut = Returning("TO")
  BY Parts, SameOperators
<1>. HIDE DEF c
<1>3. C!ReceiveLater(c, Chan(b, s, r2, g), t)
  BY <1>1, <1>2 DEF C!ReceiveLater
<1>. QED  BY <1>3 DEF C!Changes, c

\* A call that does not wait is refused.
LEMMA RefuseChanges ==
    ASSUME NEW b, NEW s, NEW r, NEW f, NEW t \in Tasks, f[t] = None, Len(b) \in {0, Size}
    PROVE  C!Changes(Chan(b, s, r, f), Chan(b, s, r, [f EXCEPT ![t] = Returning("MEM")]))
<1>. DEFINE c == Chan(b, s, r, f)
            g == [f EXCEPT ![t] = Returning("MEM")]
<1>1. [c EXCEPT !.outcome = g] = Chan(b, s, r, g)
  BY DEF Chan
<1>2. c.buffer = b /\ c.outcome = f /\ C!Refused = Returning("MEM")
  BY Parts, SameOperators
<1>. HIDE DEF c
<1>3. [c EXCEPT !.outcome[t] = Returning("MEM")] = Chan(b, s, r, g)
  BY <1>1, <1>2
<1>4. C!Refuse(c, Chan(b, s, r, g), t)
  BY <1>2, <1>3 DEF C!Refuse
<1>. QED  BY <1>4 DEF C!Changes, c

\* A call returns to t.
LEMMA ReturnChanges ==
    ASSUME NEW b, NEW s, NEW r, NEW f, NEW t \in Tasks, f[t] # None,
           t \notin ToSet(r) \cup {x.task : x \in ToSet(s)}
    PROVE  C!Changes(Chan(b, s, r, f), Chan(b, s, r, [f EXCEPT ![t] = None]))
<1>. DEFINE c == Chan(b, s, r, f)
            g == [f EXCEPT ![t] = None]
<1>1. [c EXCEPT !.outcome = g] = Chan(b, s, r, g)
  BY DEF Chan
<1>2. c.senders = s /\ c.receivers = r /\ c.outcome = f /\ C!ToSet(s) = ToSet(s)
        /\ C!ToSet(r) = ToSet(r)
  BY Parts, SameOperators
<1>. HIDE DEF c
<1>3. [c EXCEPT !.outcome[t] = None] = Chan(b, s, r, g)
  BY <1>1, <1>2
<1>4. C!Return(c, Chan(b, s, r, g), t)
  BY <1>2, <1>3 DEF C!Return
<1>. QED  BY <1>4 DEF C!Changes, c

-----------------------------------------------------------------------------
(***************************************************************************)
(* The inductive invariant, of a kernel record g, the queues q, what tasks *)
(* are sending m, and the calls c that they are inside of.                 *)
(***************************************************************************)

\* The queue whose call each task is inside of.
Queues(c) == [t \in Tasks |-> IF c[t] = None THEN None ELSE c[t].queue]

\* The list s of the queue q, which is o's, holds waiters of one kind.
OneKindIn(s, q, c, o) ==
    s # <<>> =>
        \/ /\ q.status = "BLOCKED_SEND" /\ q.number = Size
           /\ \A t \in Tasks : Contains(s, t) => c[t] = [op |-> "enqueue", queue |-> o]
        \/ /\ q.status = "BLOCKED_RECEIVE" /\ q.number = 0
           /\ \A t \in Tasks : Contains(s, t) => c[t] = [op |-> "dequeue", queue |-> o]

\* Whoever is in a list will be told that its time is out, unless it is
\* told something else when it is woken.
Told(g) == \A o \in Objects, t \in Tasks : Contains(g.blocked[o], t) => g.ret[t] = Returning("TO")

Typed(m, c) == m \in [Tasks -> Messages \cup {None}] /\ c \in [Tasks -> Call \cup {None}]

Sound(g, q, m, c) ==
    /\ Typed(m, c) /\ Healthy(g, Queues(c)) /\ Told(g)
    /\ DOMAIN q = Objects /\ q \in [Objects -> QueueType]
    /\ \A o \in Objects : IsRing(q[o]) /\ OneKindIn(g.blocked[o], q[o], c, o)

SafeInvariant == Invariant /\ Sound(osg, queue, message, calling)

\* What a step does to each channel.
ChannelsChange(g, q, m, c, gn, qn, mn, cn) ==
    \A o \in Objects : C!Changes(View(g, q, m, c, o), View(gn, qn, mn, cn, o))

\* t's time has come, or somebody gives it what it waits for.
WokenInTime(t) ==
    /\ calling[t] # None /\ osg.delay[t] > 1
    /\ osg.status[t] = "WAIT" /\ osg'.status[t] # "WAIT"
    => /\ osg'.ret[t].status = "SUCCESS"
       /\ calling[t].op = "dequeue" <=> osg'.ret[t].value \in Messages

\* What each step must show.
StepSound ==
    /\ SafeInvariant'
    /\ ChannelsChange(osg, queue, message, calling, osg', queue', message', calling')
    /\ \A t \in Tasks : WokenInTime(t)

-----------------------------------------------------------------------------

\* All objects are queues, so whatever tasks call is one.
LEMMA QueuesPlain ==
    /\ Plain = Objects /\ Callers = [Tasks -> Objects \cup {None}]
    /\ \A o \in Objects : Kind[o] = "queue" /\ o # None /\ Interruptible
BY AllQueues, NoneAssumption DEF Plain, Callers, Interruptible

\* A task is inside a call exactly if it is inside a call on a queue.
LEMMA QueuesFacts ==
    ASSUME NEW c \in [Tasks -> Call \cup {None}]
    PROVE  /\ Queues(c) \in Callers
           /\ \A t \in Tasks : /\ Queues(c)[t] = None <=> c[t] = None
                               /\ c[t] # None => /\ c[t] \in Call /\ c[t].queue \in Objects
                                                 /\ Queues(c)[t] = c[t].queue
<1>1. \A t \in Tasks : c[t] # None => c[t] \in Call /\ c[t].queue \in Objects
  BY DEF Call
<1>. QED  BY <1>1, QueuesPlain DEF Queues

\* What a step may rely on.
LEMMA SoundFacts ==
    ASSUME SafeInvariant
    PROVE  /\ Invariant /\ Healthy(osg, Queues(calling)) /\ Queues(calling) \in Callers
           /\ Sound(osg, queue, message, calling) /\ Typed(message, calling) /\ Told(osg)
           /\ osg.blocked \in [Objects -> Seq(Tasks)] /\ osg.ret \in [Tasks -> Return]
           /\ \A o \in Objects : NoDuplicates(osg.blocked[o])
BY QueuesFacts DEF SafeInvariant, Sound, Typed, Invariant, KernelInv, Kernel,
                   Healthy, Blocking, Listing

\* The initial state.
LEMMA InitSound == Init => SafeInvariant /\ \A o \in Objects :
                              View(osg, queue, message, calling, o) = C!Empty
<1>. SUFFICES ASSUME Init
              PROVE  SafeInvariant /\ \A o \in Objects :
                         View(osg, queue, message, calling, o) = C!Empty
  OBVIOUS
<1>1. /\ queue = [o \in Objects |-> Created] /\ message = [t \in Tasks |-> None]
      /\ calling = [t \in Tasks |-> None] /\ osg.blocked = [o \in Objects |-> <<>>]
  BY DEF Init, Zeroed, ZeroKernel
<1>2. Invariant /\ Healthy(osg, Queues(calling))
  <2>1. Queues(calling) = [t \in Tasks |-> None]
    BY <1>1 DEF Queues
  <2>. QED  BY <2>1, InitInvariant, InitHealthy DEF Init
<1>3. Typed(message, calling)
  BY <1>1 DEF Typed
<1>4. Told(osg) /\ \A o \in Objects : OneKindIn(osg.blocked[o], queue[o], calling, o)
  BY <1>1 DEF Told, Contains, OneKindIn
<1>5. /\ IsRing(Created) /\ Created \in QueueType /\ Created.number = 0
      /\ Created.status = "FINE"
  <2>1. 0 % Size = 0 /\ 0 \in 0 .. Size - 1 /\ 0 \in 0 .. Size
    BY SizeAssumption
  <2>2. 0 + 0 = 0 /\ "FINE" \in {"FINE", "BLOCKED_SEND", "BLOCKED_RECEIVE"}
    OBVIOUS
  <2>. QED  BY <2>1, <2>2 DEF IsRing, Created, QueueType
<1>6. SafeInvariant
  BY <1>1, <1>2, <1>3, <1>4, <1>5 DEF SafeInvariant, Sound
<1>7. Contents(Created) = <<>>
  BY <1>5, ContentsFacts
<1>8. ASSUME NEW o \in Objects PROVE View(osg, queue, message, calling, o) = C!Empty
  <2>1. /\ Waiters(osg.blocked[o], queue[o], "BLOCKED_SEND") = <<>>
        /\ Waiters(osg.blocked[o], queue[o], "BLOCKED_RECEIVE") = <<>>
    BY <1>1 DEF Waiters
  <2>2. Posted(<<>>, message) = <<>> /\ Outcomes(osg, calling, o) = [t \in Tasks |-> None]
    BY <1>1 DEF Posted, Outcomes
  <2>3. Contents(queue[o]) = <<>>
    BY <1>1, <1>7
  <2>. QED  BY <2>1, <2>2, <2>3, Zenon DEF View, Chan, C!Empty
<1>. QED  BY <1>6, <1>8

\* The calls on o will return what they would have.
LEMMA OutcomesAlike ==
    ASSUME NEW g, NEW c, NEW gn, NEW cn, NEW o,
           \A t \in Tasks : (c[t] # None /\ c[t].queue = o) <=> (cn[t] # None /\ cn[t].queue = o),
           \A t \in Tasks : c[t] # None /\ c[t].queue = o => gn.ret[t] = g.ret[t]
    PROVE  Outcomes(gn, cn, o) = Outcomes(g, c, o)
BY DEF Outcomes

\* The step leaves the queue o alone: at most, a waiter's time has come.
LeavesAlone(g, q, m, c, gn, qn, mn, cn, o) ==
    /\ qn[o] = q[o] /\ g.blocked[o] \in Seq(Tasks) /\ gn.blocked[o] \in MayLeave(g.blocked[o])
    /\ \A t \in Tasks : Contains(g.blocked[o], t) => mn[t] = m[t]
    /\ Outcomes(gn, cn, o) = Outcomes(g, c, o)

\* Nobody waits with a message in the empty list.
LEMMA NobodyPosted == \A m : Posted(<<>>, m) = <<>>
BY DEF Posted

\* Such a step is at most a waiter's giving up.
LEMMA LeftAlone ==
    ASSUME NEW g, NEW q, NEW m, NEW c, NEW gn, NEW qn, NEW mn, NEW cn, NEW o,
           LeavesAlone(g, q, m, c, gn, qn, mn, cn, o)
    PROVE  C!Changes(View(g, q, m, c, o), View(gn, qn, mn, cn, o))
<1>. DEFINE s == g.blocked[o]
            r == gn.blocked[o]
            f == Outcomes(g, c, o)
<1>1. s \in Seq(Tasks) /\ r \in MayLeave(s) /\ qn[o] = q[o] /\ Outcomes(gn, cn, o) = f
  BY DEF LeavesAlone
<1>2. r \in Seq(Tasks) /\ \A t \in Tasks : Contains(r, t) => mn[t] = m[t]
  <2>1. r \in Seq(Tasks)
    BY <1>1, RemoveAtFacts DEF MayLeave
  <2>2. \A t \in Tasks : Contains(r, t) => Contains(s, t)
    BY <1>1, LeavingFacts DEF MayLeave
  <2>. QED  BY <2>1, <2>2 DEF LeavesAlone
<1>3. Posted(r, mn) \in MayLeave(Posted(s, m))
  <2>1. Posted(r, mn) = Posted(r, m)
    BY <1>2, PostedAlike
  <2>2. Posted(r, m) \in MayLeave(Posted(s, m))
    BY <1>1, PostedLeave
  <2>. QED  BY <2>1, <2>2
<1>4. <<>> \in MayLeave(<<>>)
  BY NothingLeaves
<1>. HIDE DEF s, r, f
<1>5. View(g, q, m, c, o) = Chan(Contents(q[o]), Posted(Waiters(s, q[o], "BLOCKED_SEND"), m),
                                 Waiters(s, q[o], "BLOCKED_RECEIVE"), f)
  BY DEF View, s, f
<1>6. View(gn, qn, mn, cn, o) = Chan(Contents(q[o]), Posted(Waiters(r, q[o], "BLOCKED_SEND"), mn),
                                     Waiters(r, q[o], "BLOCKED_RECEIVE"), f)
  BY <1>1 DEF View, r
<1>7. \/ /\ Posted(Waiters(r, q[o], "BLOCKED_SEND"), mn)
                \in MayLeave(Posted(Waiters(s, q[o], "BLOCKED_SEND"), m))
         /\ Waiters(r, q[o], "BLOCKED_RECEIVE") = Waiters(s, q[o], "BLOCKED_RECEIVE")
      \/ /\ Posted(Waiters(r, q[o], "BLOCKED_SEND"), mn)
                = Posted(Waiters(s, q[o], "BLOCKED_SEND"), m)
         /\ Waiters(r, q[o], "BLOCKED_RECEIVE") \in MayLeave(Waiters(s, q[o], "BLOCKED_RECEIVE"))
  <2>1. CASE q[o].status = "BLOCKED_SEND"
    BY <1>3, <2>1 DEF Waiters
  <2>2. CASE q[o].status # "BLOCKED_SEND"
    <3>1. /\ Posted(Waiters(r, q[o], "BLOCKED_SEND"), mn) = <<>>
          /\ Posted(Waiters(s, q[o], "BLOCKED_SEND"), m) = <<>>
      BY <2>2, NobodyPosted DEF Waiters
    <3>2. Waiters(r, q[o], "BLOCKED_RECEIVE") \in MayLeave(Waiters(s, q[o], "BLOCKED_RECEIVE"))
      BY <1>1, <1>4 DEF Waiters
    <3>. QED  BY <3>1, <3>2
  <2>. QED  BY <2>1, <2>2
<1>. QED  BY <1>5, <1>6, <1>7, GiveUpChanges

\* From a list of waiters of one kind whoever leaves leaves the others, and
\* those will be told what they would have been.
LEMMA OneKindLeaves ==
    ASSUME NEW s \in Seq(Tasks), NEW r \in MayLeave(s), NEW q, NEW c, NEW o, OneKindIn(s, q, c, o)
    PROVE  r \in Seq(Tasks) /\ OneKindIn(r, q, c, o) /\ \A t \in Tasks : Contains(r, t) => Contains(s, t)
<1>1. r \in Seq(Tasks)
  BY RemoveAtFacts DEF MayLeave
<1>2. \A t \in Tasks : Contains(r, t) => Contains(s, t)
  BY LeavingFacts DEF MayLeave
<1>3. r # <<>> => s # <<>>
  BY NothingLeaves
<1>. QED  BY <1>1, <1>2, <1>3 DEF OneKindIn

-----------------------------------------------------------------------------
(***************************************************************************)
(* The steps, each seen from the queues one by one.                        *)
(***************************************************************************)

\* What a step must show of the queue o.
KeepsChannel(o) ==
    /\ IsRing(queue'[o]) /\ OneKindIn(osg'.blocked[o], queue'[o], calling', o)
    /\ \A t \in Tasks : Contains(osg'.blocked[o], t) => osg'.ret[t] = Returning("TO")
    /\ C!Changes(View(osg, queue, message, calling, o),
                 View(osg', queue', message', calling', o))

\* A step is sound if each queue is what it must be after it.
LEMMA StepIsSound ==
    ASSUME SafeInvariant, Invariant', Healthy(osg', Queues(calling')), Typed(message', calling'),
           queue' \in [Objects -> QueueType], \A o \in Objects : KeepsChannel(o),
           \A t \in Tasks : WokenInTime(t)
    PROVE  StepSound
<1>1. Told(osg') /\ ChannelsChange(osg, queue, message, calling, osg', queue', message', calling')
  BY DEF Told, ChannelsChange, KeepsChannel
<1>2. Sound(osg', queue', message', calling')
  BY <1>1 DEF Sound, KeepsChannel
<1>. QED  BY <1>1, <1>2 DEF StepSound, SafeInvariant

\* A step in which nobody enters or leaves a call on o, or is given anything
\* by it.
StaysAlone(o) ==
    /\ queue'[o] = queue[o] /\ osg'.blocked[o] \in MayLeave(osg.blocked[o])
    /\ \A t \in Tasks :
           /\ Queues(calling)[t] = o <=> Queues(calling')[t] = o
           /\ Queues(calling)[t] = o => /\ calling'[t] = calling[t] /\ message'[t] = message[t]
                                        /\ osg'.ret[t] = osg.ret[t]

\* Such a queue is what it must be.
LEMMA AloneKeeps ==
    ASSUME SafeInvariant, Typed(message', calling'), NEW o \in Objects, StaysAlone(o)
    PROVE  KeepsChannel(o)
<1>1. /\ queue'[o] = queue[o] /\ osg.blocked[o] \in Seq(Tasks)
      /\ osg'.blocked[o] \in MayLeave(osg.blocked[o])
      /\ IsRing(queue[o]) /\ OneKindIn(osg.blocked[o], queue[o], calling, o)
      /\ \A t \in Tasks : Contains(osg.blocked[o], t) => osg.ret[t] = Returning("TO")
  BY SoundFacts DEF StaysAlone, Sound, Told
<1>2. \A t \in Tasks : Contains(osg.blocked[o], t) =>
          calling'[t] = calling[t] /\ message'[t] = message[t] /\ osg'.ret[t] = osg.ret[t]
  BY SoundFacts DEF StaysAlone, Healthy, Blocking, Listing
<1>3. /\ OneKindIn(osg'.blocked[o], queue[o], calling, o)
      /\ \A t \in Tasks : Contains(osg'.blocked[o], t) => Contains(osg.blocked[o], t)
  BY <1>1, OneKindLeaves
<1>4. OneKindIn(osg'.blocked[o], queue[o], calling', o)
  BY <1>2, <1>3 DEF OneKindIn
<1>5. Outcomes(osg', calling', o) = Outcomes(osg, calling, o)
  <2>1. \A t \in Tasks : /\ Queues(calling)[t] = o <=> calling[t] # None /\ calling[t].queue = o
                         /\ Queues(calling')[t] = o <=> calling'[t] # None /\ calling'[t].queue = o
    BY QueuesPlain DEF Queues
  <2>. QED  BY <2>1, OutcomesAlike DEF StaysAlone
<1>6. C!Changes(View(osg, queue, message, calling, o), View(osg', queue', message', calling', o))
  <2>1. LeavesAlone(osg, queue, message, calling, osg', queue', message', calling', o)
    BY <1>1, <1>2, <1>5 DEF LeavesAlone
  <2>. QED  BY <2>1, LeftAlone
<1>. QED  BY <1>1, <1>2, <1>3, <1>4, <1>6 DEF KeepsChannel

\* A step of the scheduler, or a call that does not concern a queue.
LEMMA UnconcernedStep ==
    ASSUME SafeInvariant, Invariant', Healthy(osg', Queues(calling)),
           Undisturbed(osg, osg', Queues(calling)), SleepOn(osg, osg', Tasks),
           calling' = calling, queue' = queue, Typed(message', calling),
           \A t \in Tasks : calling[t] # None => message'[t] = message[t]
    PROVE  StepSound
<1>1. \A t \in Tasks : WokenInTime(t)
  BY DEF WokenInTime, SleepOn
<1>2. ASSUME NEW o \in Objects PROVE KeepsChannel(o)
  <2>1. \A t \in Tasks : Queues(calling)[t] = o =>
            message'[t] = message[t] /\ osg'.ret[t] = osg.ret[t]
    BY SoundFacts, QueuesFacts, QueuesPlain DEF Undisturbed, Typed
  <2>2. osg'.blocked[o] \in MayLeave(osg.blocked[o])
    BY DEF Undisturbed, OneLeaves, MayLeave
  <2>3. StaysAlone(o)
    BY <2>1, <2>2 DEF StaysAlone
  <2>. QED  BY <2>3, AloneKeeps
<1>3. queue' \in [Objects -> QueueType]
  BY SoundFacts DEF Sound
<1>. QED  BY <1>1, <1>2, <1>3, StepIsSound

\* A step of the scheduler.
LEMMA BackgroundStep ==
    ASSUME Disciplined, SafeInvariant, Background
    PROVE  StepSound
<1>1. Boot \/ SysTick \/ PendSV
  BY DEF Background
<1>2. 0 \notin StartPriorities
  BY DEF Disciplined
<1>3. Invariant'
  BY <1>1, SoundFacts, BootStep, ExceptionStep
<1>4. PICK c \in Callers : c = Queues(calling) /\ Healthy(osg, c)
  BY SoundFacts
<1>5. Healthy(osg', c) /\ Undisturbed(osg, osg', c) /\ SleepOn(osg, osg', Tasks)
  BY <1>1, <1>2, <1>4, SoundFacts, BootHealthy, TickHealthy, PendHealthy
<1>. QED  BY <1>3, <1>4, <1>5, SoundFacts, UnconcernedStep DEF Background

\* os_delay, a panic or abort, and the end of a handler, of a task inside no
\* call.
LEMMA OtherCallStep ==
    ASSUME Disciplined, SafeInvariant, OtherCall
    PROVE  StepSound
<1>1. calling[osg.running] = None /\ 0 \notin Delays /\ InThread
        /\ ((\E ms \in Delays : Delay(ms)) \/ Panic \/ Abort \/ Finish)
  BY DEF Disciplined, OtherCall, AtACall
<1>2. Invariant'
  BY <1>1, SoundFacts, ServiceStep
<1>3. PICK c \in Callers : c = Queues(calling) /\ Healthy(osg, c)
  BY SoundFacts
<1>4. c[osg.running] = None
  BY <1>1, <1>3, SoundFacts, InThreadFacts, QueuesFacts DEF Typed
<1>5. Healthy(osg', c) /\ Undisturbed(osg, osg', c) /\ SleepOn(osg, osg', Tasks)
  BY <1>1, <1>3, <1>4, SoundFacts, ServiceHealthy
<1>. QED  BY <1>2, <1>3, <1>5, SoundFacts, UnconcernedStep DEF OtherCall

\* os_task_suspend and os_task_resume, of tasks inside no call.
LEMMA SuspendOrResumeStep ==
    ASSUME Disciplined, SafeInvariant, NEW t \in Tasks, SuspendOrResume(t)
    PROVE  StepSound
<1>1. calling[t] = None /\ (Suspend(t) \/ Resume(t)) /\ "suspend_self" \notin Calls
  BY DEF Disciplined, SuspendOrResume
<1>2. Invariant'
  BY <1>1, SoundFacts, TaskStep
<1>3. PICK c \in Callers : c = Queues(calling) /\ Healthy(osg, c)
  BY SoundFacts
<1>4. c[t] = None
  BY <1>1, <1>3, SoundFacts, QueuesFacts DEF Typed
<1>5. Healthy(osg', c) /\ Undisturbed(osg, osg', c) /\ SleepOn(osg, osg', Tasks)
  BY <1>1, <1>3, <1>4, SoundFacts, SuspendHealthy
<1>. QED  BY <1>2, <1>3, <1>5, SoundFacts, UnconcernedStep DEF SuspendOrResume

\* os_task_start forgets what the task was sending: nothing, because it was
\* inside no call.
LEMMA RestartStep ==
    ASSUME Disciplined, SafeInvariant, NEW t \in Tasks, NEW p \in StartPriorities, Restart(t, p)
    PROVE  StepSound
<1>1. /\ TaskStart(t, p) /\ calling' = [calling EXCEPT ![t] = None] /\ queue' = queue
      /\ message' = [message EXCEPT ![t] = None]
  BY DEF Restart
<1>2. p # 0 /\ osg.status[t] \notin RunningStatus \cup {"WAIT"}
  BY <1>1 DEF Disciplined, TaskStart
<1>3. PICK c \in Callers : c = Queues(calling) /\ Healthy(osg, c)
  BY SoundFacts
<1>4. c[t] = None /\ calling[t] = None
  BY <1>2, <1>3, SoundFacts, QueuesFacts DEF Healthy, Blocking, Inside, Typed
<1>5. calling' = calling
  BY <1>1, <1>4, SoundFacts DEF Typed
<1>6. Invariant'
  BY <1>1, SoundFacts, TaskStep
<1>7. Healthy(osg', c) /\ Undisturbed(osg, osg', c) /\ SleepOn(osg, osg', Tasks)
  BY <1>1, <1>2, <1>3, <1>4, SoundFacts, StartHealthy
<1>8. Typed(message', calling) /\ \A u \in Tasks : calling[u] # None => message'[u] = message[u]
  BY <1>1, <1>4, SoundFacts DEF Typed
<1>. QED  BY <1>1, <1>3, <1>5, <1>6, <1>7, <1>8, UnconcernedStep

-----------------------------------------------------------------------------
(***************************************************************************)
(* The calls.  n is what tasks are inside of when t is inside of k.        *)
(***************************************************************************)

\* The queue of a call, or of none.
QueueOf(k) == IF k = None THEN None ELSE k.queue

\* t enters or leaves a call, or is told what its call returns.
Sets(f, h, t, k) == h = [f EXCEPT ![t] = k]

\* The running task of a sound system, and the call it enters or returns from.
LEMMA CallerFacts ==
    ASSUME SafeInvariant, InTask, NEW t \in Tasks, t = osg.running, NEW k \in Call \cup {None},
           NEW n, Sets(calling, n, t, k)
    PROVE  /\ Scheduling(osg) /\ Awake(osg) /\ osg.scheduled = None /\ osg.halted = {}
           /\ osg.status[t] = "ACTIVE" /\ IdleKept(osg) /\ osg.state = "STARTED"
           /\ n \in [Tasks -> Call \cup {None}] /\ \A u \in Tasks : n[u] = IF u = t THEN k ELSE calling[u]
           /\ Queues(n) \in Callers /\ Queues(n) = [Queues(calling) EXCEPT ![t] = QueueOf(k)]
           /\ Healthy(osg, Queues(n)) /\ Blocking(osg, Queues(n))
           /\ \A p \in Objects : ~Contains(osg.blocked[p], t)
           /\ NotBlocked(osg) = osg
<1>1. /\ Scheduling(osg) /\ Awake(osg) /\ osg.scheduled = None /\ osg.halted = {}
      /\ osg.status[t] = "ACTIVE" /\ t \in osg.tasks \ {osg.idle}
      /\ osg.tasks \subseteq Tasks /\ osg.state = "STARTED"
  <2>1. PICK c \in Callers : c = Queues(calling) /\ Healthy(osg, c) /\ Invariant
    BY SoundFacts
  <2>. QED  BY <2>1, HealthyThread DEF InTask, InThread, LeftStatus, Kernel
<1>2. IdleKept(osg) /\ Blocking(osg, Queues(calling)) /\ Queues(calling) \in Callers
  BY SoundFacts DEF Healthy
<1>3. n \in [Tasks -> Call \cup {None}] /\ \A u \in Tasks : n[u] = IF u = t THEN k ELSE calling[u]
  BY SoundFacts DEF Typed, Sets
<1>4. QueueOf(k) \in Plain \cup {None}
  BY QueuesPlain DEF QueueOf, Call
<1>5. Queues(n) = [Queues(calling) EXCEPT ![t] = QueueOf(k)]
  BY <1>3 DEF Queues, QueueOf
<1>6. /\ Queues(n) \in Callers /\ Blocking(osg, Queues(n))
      /\ \A p \in Objects : ~Contains(osg.blocked[p], t)
  <2>1. PICK c \in Callers : c = Queues(calling) /\ Blocking(osg, c)
    BY <1>2
  <2>2. PICK o \in Plain \cup {None} : o = QueueOf(k)
    BY <1>4
  <2>3. /\ [c EXCEPT ![t] = o] \in Callers /\ Blocking(osg, [c EXCEPT ![t] = o])
        /\ \A p \in Objects : ~Contains(osg.blocked[p], t)
    BY <1>1, <2>1, CallerKept
  <2>. QED  BY <1>5, <2>1, <2>2, <2>3
<1>7. NotBlocked(osg) = osg
  BY <1>6 DEF NotBlocked, OsAssert
<1>. QED  BY <1>1, <1>2, <1>3, <1>5, <1>6, <1>7 DEF Healthy

\* A service call that only returns to its caller.
LEMMA ReturnsFacts ==
    ASSUME SafeInvariant, InTask, NEW t \in Tasks, t = osg.running, NEW k \in Call \cup {None},
           NEW n, Sets(calling, n, t, k),
           NEW result \in Return, osg' = SvcReturn(osg, t, result)
    PROVE  /\ Healthy(osg', Queues(n)) /\ Invariant' /\ osg'.blocked = osg.blocked
           /\ osg'.ret = [osg.ret EXCEPT ![t] = result] /\ SleepOn(osg, osg', Tasks)
<1>1. /\ Scheduling(osg) /\ Awake(osg) /\ osg.scheduled = None /\ osg.halted = {}
      /\ osg.status[osg.running] \in LeftStatus \cup {"ACTIVE"}
      /\ IdleKept(osg) /\ Blocking(osg, Queues(n))
  BY CallerFacts
<1>2. /\ Healthy(osg', Queues(n)) /\ Scheduling(osg') /\ Awake(osg')
      /\ osg'.blocked = osg.blocked /\ osg'.status = osg.status /\ osg'.delay = osg.delay
      /\ osg'.ret = [osg.ret EXCEPT ![t] = result]
  BY <1>1, ReturnHealthy
<1>3. Invariant'
  BY <1>2 DEF Invariant, Scheduling
<1>. QED  BY <1>2, <1>3 DEF SleepOn

\* What one call does the other queues do not notice.
LEMMA OthersAlone ==
    ASSUME NEW o \in Objects,
           \A p \in Objects \ {o} :
               queue'[p] = queue[p] /\ osg'.blocked[p] \in MayLeave(osg.blocked[p]),
           \A t \in Tasks :
               \/ calling'[t] = calling[t] /\ message'[t] = message[t] /\ osg'.ret[t] = osg.ret[t]
               \/ Queues(calling)[t] \in {o, None} /\ Queues(calling')[t] \in {o, None},
           NEW p \in Objects, p # o
    PROVE  StaysAlone(p)
<1>1. \A t \in Tasks : calling'[t] = calling[t] => Queues(calling')[t] = Queues(calling)[t]
  BY DEF Queues
<1>2. p # None
  BY QueuesPlain
<1>. QED  BY <1>1, <1>2 DEF StaysAlone

\* The outcomes f, but t's call, if it is inside of one, returns result.
Tells(f, t, k, result) == [f EXCEPT ![t] = IF k = None THEN None ELSE result]

\* The function h is f but for its value at t.
OnlyAt(f, h, t, x) == \A u \in Tasks : h[u] = IF u = t THEN x ELSE f[u]

\* What the calls on o return when t has entered or left one.
LEMMA OutcomesOfCaller ==
    ASSUME NEW g, NEW c, NEW gn, NEW cn, NEW o, NEW t \in Tasks, NEW k, k = None \/ k.queue = o,
           NEW result, OnlyAt(g.ret, gn.ret, t, result), OnlyAt(c, cn, t, k)
    PROVE  Outcomes(gn, cn, o) = Tells(Outcomes(g, c, o), t, k, result)
<1>1. Tells(Outcomes(g, c, o), t, k, result)
          = [u \in Tasks |-> IF u = t THEN IF k = None THEN None ELSE result
                             ELSE IF c[u] # None /\ c[u].queue = o THEN g.ret[u] ELSE None]
  BY DEF Outcomes, Tells
<1>. QED  BY <1>1 DEF Outcomes, OnlyAt

\* What a queue z with the list s of blocked tasks, whose messages are in m,
\* and the outcomes f show of their channel.
Shows(z, s, m, f) ==
    Chan(Contents(z), Posted(Waiters(s, z, "BLOCKED_SEND"), m), Waiters(s, z, "BLOCKED_RECEIVE"), f)

\* Calls that return at once: to the task that has made them, or what is
\* left of them, to the task they have kept waiting.
LEMMA AtOnceStep ==
    ASSUME SafeInvariant, InTask, NEW t \in Tasks, t = osg.running, NEW k \in Call \cup {None},
           calling' = [calling EXCEPT ![t] = k], NEW o \in Objects,
           calling[t] = None \/ calling[t].queue = o, k = None \/ k.queue = o,
           NEW result \in Return, osg' = SvcReturn(osg, t, result), message' = message,
           NEW z, queue' = [queue EXCEPT ![o] = z], IsRing(z),
           OneKindIn(osg.blocked[o], z, calling, o),
           C!Changes(View(osg, queue, message, calling, o),
                     Shows(z, osg.blocked[o], message,
                           Tells(Outcomes(osg, calling, o), t, k, result)))
    PROVE  StepSound
<1>0. PICK n : n = calling'
  OBVIOUS
<1>1. Sets(calling, n, t, k)
  BY <1>0 DEF Sets
<1>2. /\ n \in [Tasks -> Call \cup {None}] /\ \A u \in Tasks : n[u] = IF u = t THEN k ELSE calling[u]
      /\ \A p \in Objects : ~Contains(osg.blocked[p], t)
  BY <1>1, CallerFacts
<1>3. /\ Healthy(osg', Queues(n)) /\ Invariant' /\ osg'.blocked = osg.blocked
      /\ osg'.ret = [osg.ret EXCEPT ![t] = result] /\ SleepOn(osg, osg', Tasks)
  BY <1>1, ReturnsFacts
<1>4. /\ queue \in [Objects -> QueueType] /\ osg.ret \in [Tasks -> Return]
      /\ Typed(message, calling) /\ Told(osg)
  BY SoundFacts DEF Sound
<1>5. \A u \in Tasks : WokenInTime(u)
  BY <1>3 DEF WokenInTime, SleepOn
<1>6. queue' \in [Objects -> QueueType] /\ queue'[o] = z /\ Typed(message', n)
  BY <1>2, <1>4 DEF IsRing, Typed
<1>7. ASSUME NEW p \in Objects, p # o PROVE KeepsChannel(p)
  <2>1. \A u \in Tasks \ {t} : /\ calling'[u] = calling[u] /\ message'[u] = message[u]
                               /\ osg'.ret[u] = osg.ret[u]
    BY <1>0, <1>2, <1>3, <1>4
  <2>2. Queues(calling)[t] \in {o, None} /\ Queues(calling')[t] \in {o, None}
    BY <1>0, <1>2 DEF Queues, QueueOf
  <2>3. \A r \in Objects \ {o} : queue'[r] = queue[r] /\ osg'.blocked[r] \in MayLeave(osg.blocked[r])
    BY <1>3, <1>4 DEF MayLeave
  <2>4. StaysAlone(p)
    BY <1>7, <2>1, <2>2, <2>3, OthersAlone
  <2>. QED  BY <1>0, <1>6, <2>4, AloneKeeps
<1>8. KeepsChannel(o)
  <2>1. OneKindIn(osg'.blocked[o], queue'[o], calling', o)
    BY <1>0, <1>2, <1>3, <1>6 DEF OneKindIn
  <2>2. \A u \in Tasks : Contains(osg'.blocked[o], u) => osg'.ret[u] = Returning("TO")
    BY <1>2, <1>3, <1>4 DEF Told
  <2>3. OnlyAt(osg.ret, osg'.ret, t, result) /\ OnlyAt(calling, calling', t, k)
    BY <1>0, <1>2, <1>3, <1>4 DEF OnlyAt
  <2>4. Outcomes(osg', calling', o)
            = Tells(Outcomes(osg, calling, o), t, k, result)
    BY <2>3, OutcomesOfCaller
  <2>5. View(osg', queue', message', calling', o)
            = Shows(z, osg.blocked[o], message,
                    Tells(Outcomes(osg, calling, o), t, k, result))
    BY <1>3, <1>6, <2>4 DEF View, Shows
  <2>. QED  BY <1>6, <2>1, <2>2, <2>5 DEF KeepsChannel
<1>. QED  BY <1>0, <1>3, <1>5, <1>6, <1>7, <1>8, StepIsSound

\* What each kind of list shows.
LEMMA ShowsFacts ==
    ASSUME NEW z, NEW s, NEW m, NEW f
    PROVE  /\ s = <<>> => Shows(z, s, m, f) = Chan(Contents(z), <<>>, <<>>, f)
           /\ z.status = "BLOCKED_SEND" =>
                  Shows(z, s, m, f) = Chan(Contents(z), Posted(s, m), <<>>, f)
           /\ z.status = "BLOCKED_RECEIVE" => Shows(z, s, m, f) = Chan(Contents(z), <<>>, s, f)
BY NobodyPosted DEF Shows, Waiters

\* A list of senders shows them with their messages.
LEMMA ShowsSenders ==
    ASSUME NEW z, NEW s, NEW m, NEW f, z.status = "BLOCKED_SEND"
    PROVE  Shows(z, s, m, f) = Chan(Contents(z), Posted(s, m), <<>>, f)
BY NobodyPosted DEF Shows, Waiters

\* The view of a queue is what its list and its outcomes show.
LEMMA ViewShows ==
    ASSUME NEW g, NEW q, NEW m, NEW c, NEW o
    PROVE  View(g, q, m, c, o) = Shows(q[o], g.blocked[o], m, Outcomes(g, c, o))
BY DEF View, Shows

\* Only the tasks inside a call on o have an outcome.
LEMMA OutcomeFacts ==
    ASSUME SafeInvariant, NEW t \in Tasks, NEW o
    PROVE  /\ calling[t] = None => Outcomes(osg, calling, o)[t] = None
           /\ calling[t] # None /\ calling[t].queue = o => Outcomes(osg, calling, o)[t] # None
           /\ DOMAIN Outcomes(osg, calling, o) = Tasks
<1>1. osg.ret[t] \in Return /\ None \notin Return
  BY SoundFacts, NoCallAssumption
<1>. QED  BY <1>1 DEF Outcomes

\* The names of calls.
Naming(op, o) == [op |-> op, queue |-> o]

\* They are calls on the queue they name.
LEMMA NamingFacts ==
    ASSUME NEW op \in {"enqueue", "dequeue"}, NEW o \in Objects
    PROVE  /\ Naming(op, o) \in Call /\ Naming(op, o) # None
           /\ Naming(op, o).queue = o /\ Naming(op, o).op = op
           /\ QueueOf(Naming(op, o)) = o
           /\ \A f, t, result : Tells(f, t, Naming(op, o), result) = [f EXCEPT ![t] = result]
<1>1. Naming(op, o) \in Call
  BY DEF Naming, Call
<1>2. Naming(op, o) # None
  BY <1>1, NoCallAssumption
<1>3. Naming(op, o).queue = o /\ Naming(op, o).op = op
  BY DEF Naming
<1>. QED  BY <1>1, <1>2, <1>3 DEF QueueOf, Tells

\* Every error code makes a result.
LEMMA ReturningFacts ==
    \A code \in Codes : /\ Returning(code) \in Return
                        /\ Returning(code).status = code /\ Returning(code).value = None
BY DEF Returning, Return

\* Back in the task.
LEMMA ReturnsStep ==
    ASSUME Disciplined, SafeInvariant, Returns
    PROVE  StepSound
<1>1. PICK t \in Tasks : t = osg.running
  BY SoundFacts, InThreadFacts DEF Returns, InTask
<1>2. /\ InTask /\ calling[t] # None /\ calling' = [calling EXCEPT ![t] = None]
      /\ osg' = [osg EXCEPT !.ret[t] = Returning("SUCCESS")] /\ queue' = queue /\ message' = message
  BY <1>1 DEF Returns
<1>3. PICK o \in Objects : o = calling[t].queue
  BY <1>2, SoundFacts, QueuesFacts DEF Typed
<1>4. Returning("SUCCESS") \in Return
  BY ReturningFacts DEF Codes
<1>5. osg' = SvcReturn(osg, t, Returning("SUCCESS"))
  <2>1. osg.scheduled = None /\ osg \in Kernel
    BY <1>2, SoundFacts DEF InTask, InThread, Invariant, KernelInv
  <2>2. [osg EXCEPT !.ret[t] = Returning("SUCCESS")].scheduled = None
    BY <2>1 DEF Kernel
  <2>. QED  BY <1>2, <2>2 DEF SvcReturn, Switch
<1>6. /\ queue \in [Objects -> QueueType] /\ IsRing(queue[o])
      /\ OneKindIn(osg.blocked[o], queue[o], calling, o) /\ osg.blocked[o] \in Seq(Tasks)
  BY SoundFacts DEF Sound
<1>7. queue' = [queue EXCEPT ![o] = queue[o]]
  BY <1>2, <1>6
<1>8. ~Contains(osg.blocked[o], t)
  <2>1. PICK n : Sets(calling, n, t, None)
    BY DEF Sets
  <2>. QED  BY <1>1, <1>2, <2>1, CallerFacts
<1>9. C!Changes(View(osg, queue, message, calling, o),
                Shows(queue[o], osg.blocked[o], message,
                      Tells(Outcomes(osg, calling, o), t, None, Returning("SUCCESS"))))
  <2>. DEFINE f == Outcomes(osg, calling, o)
              r == Waiters(osg.blocked[o], queue[o], "BLOCKED_RECEIVE")
              w == Waiters(osg.blocked[o], queue[o], "BLOCKED_SEND")
              s == Posted(w, message)
  <2>1. f[t] # None
    BY <1>2, <1>3, OutcomeFacts
  <2>2. r \in Seq(Tasks) /\ w \in Seq(Tasks) /\ ~Contains(r, t) /\ ~Contains(w, t)
    BY <1>6, <1>8 DEF Waiters, Contains
  <2>3. t \notin ToSet(r) \cup {x.task : x \in ToSet(s)}
    BY <2>2 DEF ToSet, Contains, Posted
  <2>. HIDE DEF f, r, s
  <2>4. C!Changes(Chan(Contents(queue[o]), s, r, f),
                  Chan(Contents(queue[o]), s, r, [f EXCEPT ![t] = None]))
    BY <2>1, <2>3, ReturnChanges
  <2>5. Tells(f, t, None, Returning("SUCCESS")) = [f EXCEPT ![t] = None]
    BY DEF Tells
  <2>. QED  BY <2>4, <2>5, ViewShows DEF Shows, f, r, s
<1>. QED  BY <1>1, <1>2, <1>3, <1>4, <1>5, <1>6, <1>7, <1>9, AtOnceStep

\* A list whose tasks neither wait to send nor to receive is empty.
LEMMA NobodyWaits ==
    ASSUME NEW s, NEW z, NEW c, NEW o, OneKindIn(s, z, c, o),
           z.status = "BLOCKED_SEND" => z.number # Size,
           z.status = "BLOCKED_RECEIVE" => z.number # 0
    PROVE  s = <<>>
BY DEF OneKindIn

\* Without OS_QUEUE_FLAGS_QUEUE_ONLY waiting receivers are served first.
LEMMA ReceiverFacts ==
    ASSUME Disciplined, NEW o \in Objects
    PROVE  /\ Receiver(o) <=> osg.blocked[o] # <<>> /\ queue[o].status = "BLOCKED_RECEIVE"
           /\ \A status : Blocked(o, status) <=> osg.blocked[o] # <<>> /\ queue[o].status = status
BY DEF Disciplined, Receiver, Blocked

\* A message is put into a ring nobody waits for.
LEMMA PutSends ==
    ASSUME Disciplined, SafeInvariant, NEW o \in Objects, ~Receiver(o), queue[o].number # Size,
           NEW m \in Messages, NEW z, z = [Put(queue[o], m) EXCEPT !.status = "FINE"],
           NEW told, told = Outcomes(osg, calling, o) \/
                     \E t \in Tasks : /\ calling[t] = None
                                      /\ told = [Outcomes(osg, calling, o) EXCEPT
                                                    ![t] = Returning("SUCCESS")]
    PROVE  /\ osg.blocked[o] = <<>> /\ IsRing(z) /\ OneKindIn(<<>>, z, calling, o)
           /\ C!Changes(View(osg, queue, message, calling, o),
                        Shows(z, osg.blocked[o], message, told))
<1>1. /\ IsRing(queue[o]) /\ OneKindIn(osg.blocked[o], queue[o], calling, o)
      /\ queue[o].number < Size
  <2>1. IsRing(queue[o]) /\ OneKindIn(osg.blocked[o], queue[o], calling, o)
    BY SoundFacts DEF Sound
  <2>. QED  BY <2>1, SizeAssumption DEF IsRing, QueueType
<1>2. osg.blocked[o] = <<>>
  BY <1>1, ReceiverFacts, NobodyWaits
<1>3. PICK p : p = Put(queue[o], m)
  OBVIOUS
<1>4. IsRing(p) /\ Contents(p) = Append(Contents(queue[o]), m)
  BY <1>1, <1>3, PutFacts
<1>5. IsRing(z) /\ Contents(z) = Contents(p)
  BY <1>3, <1>4 DEF IsRing, QueueType, Contents
<1>6. OneKindIn(<<>>, z, calling, o)
  BY DEF OneKindIn
<1>7. Len(Contents(queue[o])) < Size
  BY <1>1, ContentsFacts
<1>8. PICK f : f = Outcomes(osg, calling, o)
  OBVIOUS
<1>9. View(osg, queue, message, calling, o) = Chan(Contents(queue[o]), <<>>, <<>>, f)
  <2>1. View(osg, queue, message, calling, o) = Shows(queue[o], osg.blocked[o], message, f)
    BY <1>8, ViewShows
  <2>. QED  BY <1>2, <2>1, ShowsFacts
<1>10. Shows(z, osg.blocked[o], message, told) = Chan(Append(Contents(queue[o]), m), <<>>, <<>>, told)
  <2>1. Shows(z, osg.blocked[o], message, told) = Chan(Contents(z), <<>>, <<>>, told)
    BY <1>2, ShowsFacts
  <2>. QED  BY <1>4, <1>5, <2>1
<1>11. C!Changes(Chan(Contents(queue[o]), <<>>, <<>>, f),
                 Chan(Append(Contents(queue[o]), m), <<>>, <<>>, told))
  <2>. DEFINE b == Contents(queue[o])
              d == Chan(Append(b, m), <<>>, <<>>, told)
  <2>1. C!Accept(Chan(b, <<>>, <<>>, f), d, m, told)
    BY <1>7, AcceptPuts
  <2>2. told = f \/ \E t \in Tasks : f[t] = None /\ told = [f EXCEPT ![t] = Returning("SUCCESS")]
    BY <1>8, OutcomeFacts
  <2>. HIDE DEF b, d
  <2>3. \/ C!Accept(Chan(b, <<>>, <<>>, f), d, m, f)
        \/ \E t \in Tasks : /\ f[t] = None
                            /\ C!Accept(Chan(b, <<>>, <<>>, f), d, m,
                                        [f EXCEPT ![t] = Returning("SUCCESS")])
    BY <2>1, <2>2
  <2>4. C!Changes(Chan(b, <<>>, <<>>, f), d)
    BY <2>3, SendChanges
  <2>. QED  BY <2>4 DEF b, d
<1>. QED  BY <1>2, <1>5, <1>6, <1>9, <1>10, <1>11

\* A message is taken from a ring nobody waits to send to.
LEMMA TakeReceives ==
    ASSUME Disciplined, SafeInvariant, NEW o \in Objects, ~Blocked(o, "BLOCKED_SEND"),
           queue[o].number > 0, NEW z, z = Take(queue[o]), NEW t \in Tasks, calling[t] = None,
           NEW result, result = Received(queue[o].messages[queue[o].last])
    PROVE  /\ osg.blocked[o] = <<>> /\ IsRing(z) /\ OneKindIn(<<>>, z, calling, o)
           /\ result \in Return
           /\ C!Changes(View(osg, queue, message, calling, o),
                        Shows(z, osg.blocked[o], message,
                              [Outcomes(osg, calling, o) EXCEPT ![t] = result]))
<1>1. IsRing(queue[o]) /\ OneKindIn(osg.blocked[o], queue[o], calling, o)
  BY SoundFacts DEF Sound
<1>2. osg.blocked[o] = <<>>
  <2>1. queue[o].number # 0
    BY <1>1 DEF IsRing, QueueType
  <2>. QED  BY <1>1, <2>1, ReceiverFacts, NobodyWaits
<1>3. PICK b : b = Contents(queue[o])
  OBVIOUS
<1>4. /\ IsRing(z) /\ b # <<>> /\ Contents(z) = Tail(b) /\ result = Received(Head(b))
      /\ b \in Seq(Messages \cup {None})
  <2>1. IsRing(z) /\ b # <<>> /\ Contents(z) = Tail(b) /\ queue[o].messages[queue[o].last] = Head(b)
    BY <1>1, <1>3, TakeFacts
  <2>2. b \in Seq(Messages \cup {None})
    BY <1>1, <1>3, ContentsFacts
  <2>. QED  BY <2>1, <2>2
<1>5. result \in Return
  <2>1. Head(b) \in Messages \cup {None}
    BY <1>4
  <2>. QED  BY <1>4, <2>1 DEF Received, Return, Codes
<1>6. PICK f : f = Outcomes(osg, calling, o)
  OBVIOUS
<1>7. PICK told : told = [f EXCEPT ![t] = result]
  OBVIOUS
<1>8. View(osg, queue, message, calling, o) = Chan(b, <<>>, <<>>, f)
  <2>1. View(osg, queue, message, calling, o) = Shows(queue[o], osg.blocked[o], message, f)
    BY <1>6, ViewShows
  <2>. QED  BY <1>2, <1>3, <2>1, ShowsFacts
<1>9. Shows(z, osg.blocked[o], message, told) = Chan(Tail(b), <<>>, <<>>, told)
  BY <1>2, <1>4, ShowsFacts
<1>10. C!Changes(Chan(b, <<>>, <<>>, f), Chan(Tail(b), <<>>, <<>>, [f EXCEPT ![t] = Received(Head(b))]))
  <2>1. f[t] = None
    BY <1>6, OutcomeFacts
  <2>. QED  BY <1>4, <2>1, ReceiveChanges
<1>11. C!Changes(Chan(b, <<>>, <<>>, f), Chan(Tail(b), <<>>, <<>>, told))
  BY <1>4, <1>7, <1>10
<1>12. OneKindIn(<<>>, z, calling, o)
  BY DEF OneKindIn
<1>. QED  BY <1>2, <1>4, <1>5, <1>6, <1>7, <1>8, <1>9, <1>11, <1>12

\* A call that does not wait finds the ring full, or empty.
LEMMA RefusalRefuses ==
    ASSUME SafeInvariant, NEW o \in Objects, queue[o].number \in {0, Size},
           NEW t \in Tasks, calling[t] = None
    PROVE  C!Changes(View(osg, queue, message, calling, o),
                     Shows(queue[o], osg.blocked[o], message,
                           [Outcomes(osg, calling, o) EXCEPT ![t] = Returning("MEM")]))
<1>1. IsRing(queue[o])
  BY SoundFacts DEF Sound
<1>2. PICK f : f = Outcomes(osg, calling, o)
  OBVIOUS
<1>3. f[t] = None
  BY <1>2, OutcomeFacts
<1>. DEFINE b == Contents(queue[o])
            s == Posted(Waiters(osg.blocked[o], queue[o], "BLOCKED_SEND"), message)
            r == Waiters(osg.blocked[o], queue[o], "BLOCKED_RECEIVE")
<1>4. Len(b) \in {0, Size}
  BY <1>1, ContentsFacts
<1>. HIDE DEF b, s, r
<1>5. C!Changes(Chan(b, s, r, f), Chan(b, s, r, [f EXCEPT ![t] = Returning("MEM")]))
  BY <1>3, <1>4, RefuseChanges
<1>. QED  BY <1>2, <1>5, ViewShows DEF Shows, b, s, r

\* What osi_queue_enqueue or osi_queue_dequeue does when it does not wait and
\* wakes nobody.
LEMMA AtOnceCall ==
    ASSUME SafeInvariant, InTask, AtACall, NEW op \in {"enqueue", "dequeue"}, NEW o \in Objects,
           calling' = [calling EXCEPT ![osg.running] = Naming(op, o)],
           NEW result \in Return, osg' = ReturnNow(NotBlocked(osg), result), message' = message,
           NEW z, queue' = [queue EXCEPT ![o] = z], IsRing(z),
           OneKindIn(osg.blocked[o], z, calling, o),
           \A t \in Tasks : calling[t] = None =>
               C!Changes(View(osg, queue, message, calling, o),
                         Shows(z, osg.blocked[o], message,
                               [Outcomes(osg, calling, o) EXCEPT ![t] = result]))
    PROVE  StepSound
<1>1. PICK t \in Tasks : t = osg.running
  BY SoundFacts, InThreadFacts DEF InTask
<1>2. PICK k \in Call : k = Naming(op, o)
  BY NamingFacts
<1>3. k # None /\ k.queue = o /\ calling[t] = None /\ calling' = [calling EXCEPT ![t] = k]
  BY <1>1, <1>2, NamingFacts DEF AtACall
<1>4. osg' = SvcReturn(osg, t, result)
  <2>1. PICK n : Sets(calling, n, t, None)
    BY DEF Sets
  <2>2. NotBlocked(osg) = osg
    BY <1>1, <2>1, CallerFacts
  <2>. QED  BY <1>1, <2>2 DEF ReturnNow
<1>5. C!Changes(View(osg, queue, message, calling, o),
                Shows(z, osg.blocked[o], message, Tells(Outcomes(osg, calling, o), t, k, result)))
  <2>1. Tells(Outcomes(osg, calling, o), t, k, result)
            = [Outcomes(osg, calling, o) EXCEPT ![t] = result]
    BY <1>2, NamingFacts
  <2>. QED  BY <1>3, <2>1
<1>. QED  BY <1>1, <1>3, <1>4, <1>5, AtOnceStep

-----------------------------------------------------------------------------
(***************************************************************************)
(* Calls that wait.                                                        *)
(***************************************************************************)

\* t enters a call on o and blocks in it.
Waits(t, op, o, to) ==
    /\ InTask /\ AtACall /\ t = osg.running
    /\ calling' = [calling EXCEPT ![t] = Naming(op, o)]
    /\ osg' = Block(o, to)

\* What that leaves.
Waited(t, o) ==
    /\ Healthy(osg', Queues(calling')) /\ Invariant' /\ SleepOn(osg, osg', Tasks)
    /\ OnlyAt(osg.ret, osg'.ret, t, Returning("TO"))
    /\ osg'.blocked[o] \in MayLeave(Append(osg.blocked[o], t))
    /\ \A p \in Objects : p # o => osg'.blocked[p] \in MayLeave(osg.blocked[p])

\* The caller sleeps at the end of the list, with the result of a time-out in
\* its frame; one waiter's time may be over in the meantime.
LEMMA WaitsFacts ==
    ASSUME SafeInvariant, NEW t \in Tasks, NEW op \in {"enqueue", "dequeue"}, NEW o \in Objects,
           NEW to \in Timeouts, to # 0, Waits(t, op, o, to)
    PROVE  Waited(t, o)
<1>1. /\ InTask /\ t = osg.running /\ calling[t] = None /\ osg' = Block(o, to)
      /\ calling' = [calling EXCEPT ![t] = Naming(op, o)]
  BY DEF Waits, AtACall
<1>2. PICK k \in Call : k = Naming(op, o)
  BY NamingFacts
<1>3. PICK n : n = calling'
  OBVIOUS
<1>4. Sets(calling, n, t, k)
  BY <1>1, <1>2, <1>3 DEF Sets
<1>5. NotBlocked(osg) = osg /\ Queues(n) = [Queues(calling) EXCEPT ![t] = o]
  BY <1>1, <1>2, <1>4, CallerFacts, NamingFacts
<1>6. /\ o \in Plain /\ Kind[o] = "queue" /\ to \in 0 .. Forever /\ Returning("TO") \in Return
      /\ osg.ret \in [Tasks -> Return]
  BY QueuesPlain, TimeoutsAssumption, ReturningFacts, SoundFacts DEF Codes
<1>7. BlocksOn(t, o, to, Returning("TO"))
  BY <1>1, <1>5, <1>6 DEF Block, BlocksOn
<1>8. PICK c \in Callers : c = Queues(calling) /\ Healthy(osg, c) /\ Invariant
  BY SoundFacts
<1>9. c[t] = None
  BY <1>1, <1>8 DEF Queues
<1>10. /\ Healthy(osg', [c EXCEPT ![t] = o]) /\ Scheduling(osg') /\ Awake(osg')
       /\ osg'.ret = [osg.ret EXCEPT ![t] = Returning("TO")]
       /\ JoinsAndOneLeaves(osg, osg', o, t) /\ SleepOn(osg, osg', Tasks)
  BY <1>1, <1>6, <1>7, <1>8, <1>9, BlockHealthy
<1>11. Invariant'
  BY <1>10 DEF Invariant, Scheduling
<1>12. OnlyAt(osg.ret, osg'.ret, t, Returning("TO"))
  BY <1>6, <1>10 DEF OnlyAt
<1>13. osg'.blocked[o] \in MayLeave(Append(osg.blocked[o], t))
  BY <1>10, Zenon DEF JoinsAndOneLeaves, MayLeave
<1>14. \A p \in Objects : p # o => osg'.blocked[p] \in MayLeave(osg.blocked[p])
  BY <1>10, Zenon DEF JoinsAndOneLeaves, MayLeave
<1>. QED  BY <1>3, <1>5, <1>8, <1>10, <1>11, <1>12, <1>13, <1>14 DEF Waited

\* The queue o gets the state z, and t's message is the only one that may
\* change.
LEMMA WaitsStep ==
    ASSUME SafeInvariant, NEW t \in Tasks, NEW op \in {"enqueue", "dequeue"}, NEW o \in Objects,
           NEW to \in Timeouts, to # 0, Waits(t, op, o, to),
           NEW z, queue' = [queue EXCEPT ![o] = z], IsRing(z),
           message' \in [Tasks -> Messages \cup {None}],
           \A u \in Tasks : u # t => message'[u] = message[u],
           OneKindIn(osg'.blocked[o], z, calling', o),
           C!Changes(View(osg, queue, message, calling, o),
                     Shows(z, osg'.blocked[o], message',
                           [Outcomes(osg, calling, o) EXCEPT ![t] = Returning("TO")]))
    PROVE  StepSound
<1>1. /\ Healthy(osg', Queues(calling')) /\ Invariant' /\ SleepOn(osg, osg', Tasks)
      /\ OnlyAt(osg.ret, osg'.ret, t, Returning("TO"))
      /\ osg'.blocked[o] \in MayLeave(Append(osg.blocked[o], t))
      /\ \A p \in Objects : p # o => osg'.blocked[p] \in MayLeave(osg.blocked[p])
  BY WaitsFacts DEF Waited
<1>2. PICK k \in Call : k = Naming(op, o)
  BY NamingFacts
<1>3. k # None /\ k.queue = o
  BY <1>2, NamingFacts
<1>4. /\ InTask /\ t = osg.running /\ calling[t] = None
      /\ calling' = [calling EXCEPT ![t] = k]
  BY <1>2 DEF Waits, AtACall
<1>5. PICK n : n = calling'
  OBVIOUS
<1>6. Sets(calling, n, t, k)
  BY <1>4, <1>5 DEF Sets
<1>7. /\ n \in [Tasks -> Call \cup {None}] /\ \A u \in Tasks : n[u] = IF u = t THEN k ELSE calling[u]
      /\ \A p \in Objects : ~Contains(osg.blocked[p], t)
  BY <1>4, <1>6, CallerFacts
<1>8. /\ queue \in [Objects -> QueueType] /\ Told(osg)
      /\ osg.blocked[o] \in Seq(Tasks) /\ NoDuplicates(osg.blocked[o])
  BY SoundFacts DEF Sound
<1>9. queue' \in [Objects -> QueueType] /\ queue'[o] = z
      /\ \A p \in Objects : p # o => queue'[p] = queue[p]
  BY <1>8 DEF IsRing
<1>10. Typed(message', calling')
  BY <1>5, <1>7 DEF Typed
<1>11. \A u \in Tasks : WokenInTime(u)
  BY <1>1 DEF WokenInTime, SleepOn
<1>12. ASSUME NEW p \in Objects, p # o PROVE KeepsChannel(p)
  <2>1. \A u \in Tasks \ {t} : /\ calling'[u] = calling[u] /\ message'[u] = message[u]
                               /\ osg'.ret[u] = osg.ret[u]
    BY <1>1, <1>5, <1>7 DEF OnlyAt
  <2>2. Queues(calling)[t] \in {o, None} /\ Queues(calling')[t] \in {o, None}
    BY <1>3, <1>4, <1>5, <1>7 DEF Queues
  <2>3. StaysAlone(p)
    BY <1>1, <1>9, <1>12, <2>1, <2>2, OthersAlone
  <2>. QED  BY <1>10, <2>3, AloneKeeps
<1>13. KeepsChannel(o)
  <2>1. ASSUME NEW u \in Tasks, Contains(osg'.blocked[o], u) PROVE osg'.ret[u] = Returning("TO")
    <3>1. PICK s : s = Append(osg.blocked[o], t)
      OBVIOUS
    <3>2. s \in Seq(Tasks) /\ \A v \in Tasks : Contains(s, v) <=> Contains(osg.blocked[o], v) \/ v = t
      BY <1>7, <1>8, <3>1, AppendFacts
    <3>3. Contains(s, u)
      BY <1>1, <2>1, <3>1, <3>2, LeavingFacts DEF MayLeave
    <3>. QED  BY <1>1, <1>8, <3>2, <3>3 DEF OnlyAt, Told
  <2>2. Outcomes(osg', calling', o) = [Outcomes(osg, calling, o) EXCEPT ![t] = Returning("TO")]
    <3>1. OnlyAt(calling, calling', t, k)
      BY <1>5, <1>7 DEF OnlyAt
    <3>2. Outcomes(osg', calling', o) = Tells(Outcomes(osg, calling, o), t, k, Returning("TO"))
      BY <1>1, <1>3, <3>1, OutcomesOfCaller
    <3>. QED  BY <1>2, <3>2, NamingFacts
  <2>3. View(osg', queue', message', calling', o)
            = Shows(z, osg'.blocked[o], message', Outcomes(osg', calling', o))
    BY <1>9, ViewShows
  <2>. QED  BY <1>9, <2>1, <2>2, <2>3 DEF KeepsChannel
<1>. QED  BY <1>1, <1>9, <1>10, <1>11, <1>12, <1>13, StepIsSound

\* Whoever waits joins waiters of its own kind: s is the list, which is empty
\* or already the status's, and r what it becomes.
LEMMA OneKindJoins ==
    ASSUME NEW s \in Seq(Tasks), NoDuplicates(s), NEW t \in Tasks, ~Contains(s, t),
           NEW r \in MayLeave(Append(s, t)), NEW q, NEW z, NEW c, NEW n, NEW o,
           OneKindIn(s, q, c, o), NEW k, OnlyAt(c, n, t, k),
           \/ /\ z.status = "BLOCKED_SEND" /\ z.number = Size /\ k = Naming("enqueue", o)
              /\ s # <<>> => q.status # "BLOCKED_RECEIVE"
           \/ /\ z.status = "BLOCKED_RECEIVE" /\ z.number = 0 /\ k = Naming("dequeue", o)
              /\ s # <<>> => q.status # "BLOCKED_SEND"
    PROVE  OneKindIn(r, z, n, o)
<1>1. PICK a : a = Append(s, t)
  OBVIOUS
<1>2. a \in Seq(Tasks) /\ \A u \in Tasks : Contains(a, u) <=> Contains(s, u) \/ u = t
  BY <1>1, AppendFacts
<1>3. \A u \in Tasks : Contains(r, u) => Contains(s, u) \/ u = t
  BY <1>1, <1>2, LeavingFacts DEF MayLeave
<1>4. \A u \in Tasks : Contains(s, u) => s # <<>>
  BY DEF Contains
<1>5. \A u \in Tasks : Contains(s, u) => c[u] = k
  BY <1>4 DEF OneKindIn, Naming
<1>6. \A u \in Tasks : Contains(r, u) => n[u] = k
  BY <1>3, <1>5 DEF OnlyAt
<1>. QED  BY <1>6 DEF OneKindIn, Naming

\* Another status leaves the ring as it is.
LEMMA StatusFacts ==
    ASSUME NEW q, IsRing(q), NEW new \in {"FINE", "BLOCKED_SEND", "BLOCKED_RECEIVE"},
           NEW z, z = [q EXCEPT !.status = new]
    PROVE  IsRing(z) /\ Contents(z) = Contents(q) /\ z.status = new /\ z.number = q.number
BY DEF IsRing, QueueType, Contents

\* osi_queue_enqueue into a full ring
LEMMA EnqueueWaits ==
    ASSUME Disciplined, SafeInvariant, NEW t \in Tasks, NEW o \in Objects, NEW to \in Timeouts,
           to # 0, Waits(t, "enqueue", o, to), NEW m \in Messages, ~Receiver(o),
           queue[o].number = Size, message' = [message EXCEPT ![t] = m],
           queue' = [queue EXCEPT ![o].status = "BLOCKED_SEND"]
    PROVE  StepSound
<1>1. /\ IsRing(queue[o]) /\ OneKindIn(osg.blocked[o], queue[o], calling, o)
      /\ queue \in [Objects -> QueueType] /\ message \in [Tasks -> Messages \cup {None}]
      /\ osg.blocked[o] \in Seq(Tasks) /\ NoDuplicates(osg.blocked[o])
  BY SoundFacts DEF Sound, Typed
<1>2. /\ osg'.blocked[o] \in MayLeave(Append(osg.blocked[o], t))
  BY WaitsFacts DEF Waited
<1>3. /\ InTask /\ t = osg.running /\ calling[t] = None
      /\ calling' = [calling EXCEPT ![t] = Naming("enqueue", o)]
  BY DEF Waits, AtACall
<1>4. PICK k \in Call : k = Naming("enqueue", o)
  BY NamingFacts
<1>5. PICK n : Sets(calling, n, t, k)
  BY DEF Sets
<1>6. ~Contains(osg.blocked[o], t) /\ \A u \in Tasks : n[u] = IF u = t THEN k ELSE calling[u]
  BY <1>3, <1>5, CallerFacts
<1>7. n = calling'
  BY <1>3, <1>4, <1>5 DEF Sets
<1>8. PICK z : z = [queue[o] EXCEPT !.status = "BLOCKED_SEND"]
  OBVIOUS
<1>9. IsRing(z) /\ Contents(z) = Contents(queue[o]) /\ z.status = "BLOCKED_SEND" /\ z.number = Size
  BY <1>1, <1>8, StatusFacts
<1>10. queue' = [queue EXCEPT ![o] = z]
  BY <1>1, <1>8
<1>11. OneKindIn(osg'.blocked[o], z, calling', o)
  <2>1. osg.blocked[o] # <<>> => queue[o].status # "BLOCKED_RECEIVE"
    BY ReceiverFacts
  <2>2. OnlyAt(calling, calling', t, Naming("enqueue", o))
    BY <1>4, <1>6, <1>7 DEF OnlyAt
  <2>. QED  BY <1>1, <1>2, <1>6, <1>9, <2>1, <2>2, OneKindJoins
<1>12. /\ message' \in [Tasks -> Messages \cup {None}] /\ message'[t] = m
       /\ \A u \in Tasks : u # t => message'[u] = message[u]
  BY <1>1
<1>13. PICK f : f = Outcomes(osg, calling, o)
  OBVIOUS
<1>14. PICK told : told = [f EXCEPT ![t] = Returning("TO")]
  OBVIOUS
<1>15. View(osg, queue, message, calling, o)
           = Chan(Contents(queue[o]), Posted(osg.blocked[o], message), <<>>, f)
  <2>1. View(osg, queue, message, calling, o) = Shows(queue[o], osg.blocked[o], message, f)
    BY <1>13, ViewShows
  <2>2. CASE osg.blocked[o] = <<>>
    BY <2>1, <2>2, ShowsFacts, NobodyPosted
  <2>3. CASE osg.blocked[o] # <<>>
    <3>1. queue[o].status = "BLOCKED_SEND"
      BY <1>1, <2>3, ReceiverFacts DEF OneKindIn
    <3>. QED  BY <2>1, <3>1, ShowsFacts
  <2>. QED  BY <2>2, <2>3
<1>16. Shows(z, osg'.blocked[o], message', told)
           = Chan(Contents(queue[o]), Posted(osg'.blocked[o], message'), <<>>, told)
  BY <1>9, ShowsFacts
<1>17. Posted(osg'.blocked[o], message')
           \in MayLeave(Append(Posted(osg.blocked[o], message), [task |-> t, message |-> m]))
  <2>1. PICK s : s = Append(osg.blocked[o], t)
    OBVIOUS
  <2>2. s \in Seq(Tasks)
    BY <1>1, <2>1
  <2>3. Posted(osg'.blocked[o], message') \in MayLeave(Posted(s, message'))
    BY <1>2, <2>1, <2>2, PostedLeave
  <2>4. \A u \in Tasks : Contains(osg.blocked[o], u) => message'[u] = message[u]
    BY <1>6, <1>12
  <2>5. Posted(Append(osg.blocked[o], t), message')
            = Append(Posted(osg.blocked[o], message), [task |-> t, message |-> m])
    <3>1. PICK w : w = message'
      OBVIOUS
    <3>2. w[t] = m /\ \A u \in Tasks : Contains(osg.blocked[o], u) => w[u] = message[u]
      BY <1>12, <2>4, <3>1
    <3>3. Posted(Append(osg.blocked[o], t), w)
              = Append(Posted(osg.blocked[o], message), [task |-> t, message |-> m])
      BY <1>1, <3>2, PostedAppend
    <3>. QED  BY <3>1, <3>3
  <2>. QED  BY <2>1, <2>3, <2>5
<1>18. C!Changes(Chan(Contents(queue[o]), Posted(osg.blocked[o], message), <<>>, f),
                 Chan(Contents(queue[o]), Posted(osg'.blocked[o], message'), <<>>, told))
  <2>. DEFINE b == Contents(queue[o])
              s == Posted(osg.blocked[o], message)
              s2 == Posted(osg'.blocked[o], message')
  <2>1. f[t] = None /\ Len(b) = Size
    BY <1>1, <1>3, <1>13, OutcomeFacts, ContentsFacts
  <2>2. s2 \in MayLeave(Append(s, [task |-> t, message |-> m]))
    BY <1>17
  <2>. HIDE DEF b, s, s2
  <2>3. C!Changes(Chan(b, s, <<>>, f), Chan(b, s2, <<>>, [f EXCEPT ![t] = Returning("TO")]))
    BY <2>1, <2>2, SendLaterChanges
  <2>. QED  BY <1>14, <2>3 DEF b, s, s2
<1>19. C!Changes(View(osg, queue, message, calling, o),
                 Shows(z, osg'.blocked[o], message',
                       [Outcomes(osg, calling, o) EXCEPT ![t] = Returning("TO")]))
  BY <1>13, <1>14, <1>15, <1>16, <1>18
<1>. QED  BY <1>9, <1>10, <1>11, <1>12, <1>19, WaitsStep

\* osi_queue_dequeue from an empty ring
LEMMA DequeueWaits ==
    ASSUME Disciplined, SafeInvariant, NEW t \in Tasks, NEW o \in Objects, NEW to \in Timeouts,
           to # 0, Waits(t, "dequeue", o, to), queue[o].number = 0, message' = message,
           queue' = [queue EXCEPT ![o].status = "BLOCKED_RECEIVE"]
    PROVE  StepSound
<1>1. /\ IsRing(queue[o]) /\ OneKindIn(osg.blocked[o], queue[o], calling, o)
      /\ queue \in [Objects -> QueueType] /\ message \in [Tasks -> Messages \cup {None}]
      /\ osg.blocked[o] \in Seq(Tasks) /\ NoDuplicates(osg.blocked[o])
  BY SoundFacts DEF Sound, Typed
<1>2. /\ osg'.blocked[o] \in MayLeave(Append(osg.blocked[o], t))
  BY WaitsFacts DEF Waited
<1>3. /\ InTask /\ t = osg.running /\ calling[t] = None
      /\ calling' = [calling EXCEPT ![t] = Naming("dequeue", o)]
  BY DEF Waits, AtACall
<1>4. PICK k \in Call : k = Naming("dequeue", o)
  BY NamingFacts
<1>5. PICK n : Sets(calling, n, t, k)
  BY DEF Sets
<1>6. ~Contains(osg.blocked[o], t) /\ \A u \in Tasks : n[u] = IF u = t THEN k ELSE calling[u]
  BY <1>3, <1>5, CallerFacts
<1>7. n = calling'
  BY <1>3, <1>4, <1>5 DEF Sets
<1>8. PICK z : z = [queue[o] EXCEPT !.status = "BLOCKED_RECEIVE"]
  OBVIOUS
<1>9. IsRing(z) /\ Contents(z) = Contents(queue[o]) /\ z.status = "BLOCKED_RECEIVE" /\ z.number = 0
  BY <1>1, <1>8, StatusFacts
<1>10. queue' = [queue EXCEPT ![o] = z]
  BY <1>1, <1>8
<1>11. osg.blocked[o] # <<>> => queue[o].status = "BLOCKED_RECEIVE"
  BY <1>1, SizeAssumption DEF OneKindIn
<1>12. OneKindIn(osg'.blocked[o], z, calling', o)
  <2>1. OnlyAt(calling, calling', t, Naming("dequeue", o))
    BY <1>4, <1>6, <1>7 DEF OnlyAt
  <2>. QED  BY <1>1, <1>2, <1>6, <1>9, <1>11, <2>1, OneKindJoins
<1>13. PICK f : f = Outcomes(osg, calling, o)
  OBVIOUS
<1>14. PICK told : told = [f EXCEPT ![t] = Returning("TO")]
  OBVIOUS
<1>15. View(osg, queue, message, calling, o) = Chan(Contents(queue[o]), <<>>, osg.blocked[o], f)
  <2>1. View(osg, queue, message, calling, o) = Shows(queue[o], osg.blocked[o], message, f)
    BY <1>13, ViewShows
  <2>2. CASE osg.blocked[o] = <<>>
    BY <2>1, <2>2, ShowsFacts
  <2>3. CASE osg.blocked[o] # <<>>
    BY <1>11, <2>1, <2>3, ShowsFacts
  <2>. QED  BY <2>2, <2>3
<1>16. Shows(z, osg'.blocked[o], message', told)
           = Chan(Contents(queue[o]), <<>>, osg'.blocked[o], told)
  BY <1>9, ShowsFacts
<1>17. C!Changes(Chan(Contents(queue[o]), <<>>, osg.blocked[o], f),
                 Chan(Contents(queue[o]), <<>>, osg'.blocked[o], told))
  <2>. DEFINE b == Contents(queue[o])
              r == osg.blocked[o]
              r2 == osg'.blocked[o]
  <2>1. f[t] = None /\ b = <<>>
    BY <1>1, <1>3, <1>13, OutcomeFacts, ContentsFacts
  <2>2. r2 \in MayLeave(Append(r, t))
    BY <1>2
  <2>. HIDE DEF b, r, r2
  <2>3. C!Changes(Chan(b, <<>>, r, f), Chan(b, <<>>, r2, [f EXCEPT ![t] = Returning("TO")]))
    BY <2>1, <2>2, ReceiveLaterChanges
  <2>. QED  BY <1>14, <2>3 DEF b, r, r2
<1>18. C!Changes(View(osg, queue, message, calling, o),
                 Shows(z, osg'.blocked[o], message',
                       [Outcomes(osg, calling, o) EXCEPT ![t] = Returning("TO")]))
  BY <1>13, <1>14, <1>15, <1>16, <1>17
<1>. QED  BY <1>1, <1>9, <1>10, <1>12, <1>18, WaitsStep

-----------------------------------------------------------------------------
(***************************************************************************)
(* Calls and interrupts that wake the first task, f, in the queue's list.  *)
(***************************************************************************)

\* What waking it leaves.
Granted(f, o) ==
    /\ Healthy(osg', Queues(calling')) /\ Invariant' /\ SleepOn(osg, osg', Tasks \ {f})
    /\ osg'.blocked[o] \in MayLeave(Tail(osg.blocked[o]))
    /\ \A p \in Objects : p # o => osg'.blocked[p] \in MayLeave(osg.blocked[p])

\* The list of o and the others.
LEMMA GivenLists ==
    ASSUME NEW g, NEW h, NEW o \in Objects, FirstAndOneLeave(g, h, o)
    PROVE  /\ h.blocked[o] \in MayLeave(Tail(g.blocked[o]))
           /\ \A p \in Objects : p # o => h.blocked[p] \in MayLeave(g.blocked[p])
<1>1. h.blocked[o] \in MayLeave(Tail(g.blocked[o]))
  BY Zenon DEF FirstAndOneLeave, MayLeave
<1>2. \A p \in Objects : p # o => h.blocked[p] \in MayLeave(g.blocked[p])
  BY Zenon DEF FirstAndOneLeave, MayLeave
<1>. QED  BY <1>1, <1>2

\* t's call returns result, and u's, which is woken, res.
ToldBoth(f, h, t, result, u, res) ==
    \A v \in Tasks : h[v] = IF v = t THEN result ELSE IF v = u THEN res ELSE f[v]

\* A call on o by the running task t
LEMMA TaskGrants ==
    ASSUME SafeInvariant, InTask, NEW t \in Tasks, t = osg.running,
           NEW op \in {"enqueue", "dequeue"}, NEW o \in Objects,
           calling' = [calling EXCEPT ![t] = Naming(op, o)],
           NEW f \in Tasks, IsFirst(osg, o, f), NEW res \in Return, NEW result \in Return,
           osg' = ReturnNow(Grant(NotBlocked(osg), o, res), result)
    PROVE  Granted(f, o) /\ f # t /\ ToldBoth(osg.ret, osg'.ret, t, result, f, res)
<1>1. PICK k \in Call : k = Naming(op, o)
  BY NamingFacts
<1>2. PICK n : n = calling'
  OBVIOUS
<1>3. Sets(calling, n, t, k)
  BY <1>1, <1>2 DEF Sets
<1>4. PICK c \in Callers : c = Queues(n)
  BY <1>3, CallerFacts
<1>5. /\ Scheduling(osg) /\ Awake(osg) /\ osg.scheduled = None /\ osg.halted = {}
      /\ osg.status[osg.running] \in LeftStatus \cup {"ACTIVE"} /\ IdleKept(osg)
      /\ Blocking(osg, c) /\ NotBlocked(osg) = osg
      /\ \A p \in Objects : ~Contains(osg.blocked[p], t)
  BY <1>3, <1>4, CallerFacts
<1>6. o \in Plain /\ osg.blocked[o] \in Seq(Tasks) /\ osg.ret \in [Tasks -> Return]
  BY QueuesPlain, SoundFacts
<1>7. f # t
  <2>1. Contains(osg.blocked[o], f)
    BY <1>6, SoundFacts, TailFacts DEF IsFirst
  <2>. QED  BY <1>5, <2>1
<1>8. PICK x : x = Grant(osg, o, res)
  OBVIOUS
<1>9. Gives(osg, x, o, f, res)
  BY <1>8 DEF Gives, Grant, IsFirst
<1>10. IsGiven(osg, x, c, o, f, res)
  BY <1>5, <1>6, <1>7, <1>9, GrantKept
<1>11. osg' = SvcReturn(x, t, result)
  BY <1>5, <1>8 DEF ReturnNow
<1>12. /\ Healthy(osg', c) /\ Scheduling(osg') /\ Awake(osg')
       /\ osg'.blocked = x.blocked /\ osg'.status = x.status /\ osg'.delay = x.delay
       /\ osg'.ret = [x.ret EXCEPT ![t] = result]
  <2>1. /\ Scheduling(x) /\ Awake(x) /\ x.halted = {} /\ IdleKept(x) /\ Blocking(x, c)
        /\ x.scheduled # None \/ x.status[x.running] \in LeftStatus \cup {"ACTIVE"}
    BY <1>10 DEF IsGiven
  <2>2. PICK h : h = SvcReturn(x, t, result)
    OBVIOUS
  <2>3. /\ Healthy(h, c) /\ Scheduling(h) /\ Awake(h)
        /\ h.blocked = x.blocked /\ h.status = x.status /\ h.delay = x.delay
        /\ h.ret = [x.ret EXCEPT ![t] = result]
    BY <2>1, <2>2, ReturnHealthy
  <2>. QED  BY <1>11, <2>2, <2>3
<1>13. Invariant'
  BY <1>12 DEF Invariant, Scheduling
<1>14. SleepOn(osg, osg', Tasks \ {f})
  BY <1>10, <1>12 DEF IsGiven, SleepOn
<1>15. /\ osg'.blocked[o] \in MayLeave(Tail(osg.blocked[o]))
       /\ \A p \in Objects : p # o => osg'.blocked[p] \in MayLeave(osg.blocked[p])
  <2>1. FirstAndOneLeave(osg, x, o)
    BY <1>10 DEF IsGiven
  <2>. QED  BY <1>12, <2>1, GivenLists
<1>16. ToldBoth(osg.ret, osg'.ret, t, result, f, res)
  <2>1. x.ret = [osg.ret EXCEPT ![f] = res]
    BY <1>10 DEF IsGiven
  <2>. QED  BY <1>6, <1>12, <2>1 DEF ToldBoth
<1>. QED  BY <1>2, <1>4, <1>7, <1>12, <1>13, <1>14, <1>15, <1>16 DEF Granted

\* An interrupt, whichever task is running or about to run
LEMMA InterruptGrants ==
    ASSUME SafeInvariant, osg.state = "STARTED", osg.halted = {}, NEW o \in Objects,
           calling' = calling, NEW f \in Tasks, IsFirst(osg, o, f), NEW res \in Return,
           osg' = Grant(osg, o, res)
    PROVE  /\ Granted(f, o)
           /\ \A u \in Tasks : osg'.ret[u] = IF u = f THEN res ELSE osg.ret[u]
<1>1. PICK c \in Callers : c = Queues(calling) /\ Healthy(osg, c)
  BY SoundFacts
<1>2. /\ Scheduling(osg) /\ Awake(osg) /\ IdleKept(osg) /\ Blocking(osg, c)
      /\ IF osg.scheduled = None THEN osg.status[osg.running] \in LeftStatus \cup {"ACTIVE"}
                                 ELSE osg.flags[osg.running] = {}
  BY <1>1, SoundFacts DEF Healthy, Invariant
<1>3. o \in Plain /\ osg.blocked[o] \in Seq(Tasks) /\ osg.ret \in [Tasks -> Return] /\ Interruptible
  BY QueuesPlain, SoundFacts
<1>4. osg.running \in Tasks /\ osg.flags[osg.running] = {}
  <2>1. osg.running \in Tasks
    BY <1>2 DEF Scheduling
  <2>2. osg.flags[osg.running] # {} => osg.status[osg.running] \in {"WAIT", "IDLE"}
    BY <1>2, <2>1 DEF Blocking, Flagging
  <2>. QED  BY <1>2, <2>1, <2>2 DEF LeftStatus
<1>5. f # osg.running
  <2>1. Contains(osg.blocked[o], f)
    BY <1>3, SoundFacts, TailFacts DEF IsFirst
  <2>2. osg.flags[f] # {}
    BY <1>2, <2>1 DEF Blocking, Listing
  <2>. QED  BY <1>4, <2>2
<1>6. PICK x : x = Grant(osg, o, res)
  OBVIOUS
<1>7. Gives(osg, x, o, f, res)
  BY <1>6 DEF Gives, Grant, IsFirst
<1>8. IsGiven(osg, x, c, o, f, res)
  <2>1. IF osg.scheduled = None THEN osg.status[osg.running] \in LeftStatus \cup {"ACTIVE"}
                                ELSE Interruptible
    BY <1>2, <1>3
  <2>. QED  BY <1>2, <1>3, <1>5, <1>7, <2>1, GrantKept
<1>9. /\ Scheduling(x) /\ Awake(x) /\ SleepOn(osg, x, Tasks \ {f})
      /\ FirstAndOneLeave(osg, x, o) /\ x.ret = [osg.ret EXCEPT ![f] = res]
  BY <1>8 DEF IsGiven
<1>10. Healthy(x, c)
  <2>1. x.flags[x.running] = {} /\ x.state = "STARTED"
    BY <1>4, <1>8 DEF IsGiven, Scheduling
  <2>. QED  BY <1>8, <2>1 DEF IsGiven, Healthy
<1>11. osg' = x
  BY <1>6
<1>12. Invariant'
  BY <1>9, <1>11 DEF Invariant, Scheduling
<1>13. /\ x.blocked[o] \in MayLeave(Tail(osg.blocked[o]))
       /\ \A p \in Objects : p # o => x.blocked[p] \in MayLeave(osg.blocked[p])
  BY <1>9, GivenLists
<1>14. \A u \in Tasks : x.ret[u] = IF u = f THEN res ELSE osg.ret[u]
  BY <1>3, <1>9
<1>. QED  BY <1>1, <1>9, <1>10, <1>11, <1>12, <1>13, <1>14 DEF Granted

\* Who f is: the list's first, which sleeps in a call on o.
LEMMA FirstFacts ==
    ASSUME SafeInvariant, NEW o \in Objects, NEW f \in Tasks, IsFirst(osg, o, f)
    PROVE  /\ osg.blocked[o] # <<>> /\ f = Head(osg.blocked[o])
           /\ Contains(osg.blocked[o], f) /\ Tail(osg.blocked[o]) \in Seq(Tasks)
           /\ \A u \in Tasks : Contains(Tail(osg.blocked[o]), u) <=>
                                   Contains(osg.blocked[o], u) /\ u # f
           /\ \A u \in Tasks : Contains(osg.blocked[o], u) => calling[u] # None /\ calling[u].queue = o
<1>1. osg.blocked[o] \in Seq(Tasks) /\ NoDuplicates(osg.blocked[o])
  BY SoundFacts
<1>2. PICK c \in Callers : c = Queues(calling) /\ Blocking(osg, c)
  BY SoundFacts DEF Healthy
<1>3. \A u \in Tasks : Contains(osg.blocked[o], u) => calling[u] # None /\ calling[u].queue = o
  BY <1>2, QueuesPlain DEF Blocking, Listing, Queues
<1>. QED  BY <1>1, <1>3, TailFacts DEF IsFirst

\* The others, of whom one may enter a call on o.
OthersKept(f, o) ==
    \A u \in Tasks \ {f} : /\ message'[u] = message[u]
                           /\ \/ calling'[u] = calling[u] /\ osg'.ret[u] = osg.ret[u]
                              \/ calling[u] = None /\ QueueOf(calling'[u]) = o

\* f is told res; whoever else is told something was inside no call before,
\* and is inside one on o then.
LEMMA GrantStep ==
    ASSUME SafeInvariant, NEW o \in Objects, NEW f \in Tasks, IsFirst(osg, o, f), Granted(f, o),
           Typed(message', calling'), NEW res \in Return, res.status = "SUCCESS",
           calling[f].op = "dequeue" <=> res.value \in Messages,
           osg'.ret[f] = res, calling'[f] = calling[f], OthersKept(f, o),
           NEW z, queue' = [queue EXCEPT ![o] = z], IsRing(z),
           z.status = queue[o].status, z.number = queue[o].number,
           C!Changes(View(osg, queue, message, calling, o),
                     Shows(z, osg'.blocked[o], message', Outcomes(osg', calling', o)))
    PROVE  StepSound
<1>1. /\ Healthy(osg', Queues(calling')) /\ Invariant' /\ SleepOn(osg, osg', Tasks \ {f})
      /\ osg'.blocked[o] \in MayLeave(Tail(osg.blocked[o]))
      /\ \A p \in Objects : p # o => osg'.blocked[p] \in MayLeave(osg.blocked[p])
  BY DEF Granted
<1>2. /\ osg.blocked[o] # <<>> /\ Tail(osg.blocked[o]) \in Seq(Tasks)
      /\ \A u \in Tasks : Contains(Tail(osg.blocked[o]), u) => Contains(osg.blocked[o], u) /\ u # f
      /\ \A u \in Tasks : Contains(osg.blocked[o], u) => calling[u] # None /\ calling[u].queue = o
      /\ Contains(osg.blocked[o], f)
  BY FirstFacts
<1>3. /\ queue \in [Objects -> QueueType] /\ Told(osg)
      /\ OneKindIn(osg.blocked[o], queue[o], calling, o)
  BY SoundFacts DEF Sound
<1>4. queue' \in [Objects -> QueueType] /\ queue'[o] = z
      /\ \A p \in Objects : p # o => queue'[p] = queue[p]
  BY <1>3 DEF IsRing
<1>5. ASSUME NEW u \in Tasks PROVE WokenInTime(u)
  <2>1. CASE u = f
    BY <2>1 DEF WokenInTime
  <2>2. CASE u # f
    BY <1>1, <2>2 DEF WokenInTime, SleepOn
  <2>. QED  BY <2>1, <2>2
<1>6. ASSUME NEW p \in Objects, p # o PROVE KeepsChannel(p)
  <2>1. Queues(calling)[f] = o /\ Queues(calling')[f] = o
    BY <1>2 DEF Queues
  <2>2. \A u \in Tasks \ {f} : calling[u] = None /\ QueueOf(calling'[u]) = o =>
            Queues(calling)[u] = None /\ Queues(calling')[u] = o
    BY DEF Queues, QueueOf
  <2>3. \A r \in Objects \ {o} : queue'[r] = queue[r] /\ osg'.blocked[r] \in MayLeave(osg.blocked[r])
    BY <1>1, <1>4
  <2>4. \A u \in Tasks :
            \/ calling'[u] = calling[u] /\ message'[u] = message[u] /\ osg'.ret[u] = osg.ret[u]
            \/ Queues(calling)[u] \in {o, None} /\ Queues(calling')[u] \in {o, None}
    BY <2>1, <2>2 DEF OthersKept
  <2>5. StaysAlone(p)
    BY <1>6, <2>3, <2>4, OthersAlone
  <2>. QED  BY <2>5, AloneKeeps
<1>7. KeepsChannel(o)
  <2>1. \A u \in Tasks : Contains(osg'.blocked[o], u) => Contains(osg.blocked[o], u) /\ u # f
    BY <1>1, <1>2, LeavingFacts DEF MayLeave
  <2>2. \A u \in Tasks : Contains(osg'.blocked[o], u) =>
            calling'[u] = calling[u] /\ osg'.ret[u] = Returning("TO")
    BY <1>2, <1>3, <2>1 DEF Told, OthersKept
  <2>3. OneKindIn(osg'.blocked[o], z, calling', o)
    BY <1>2, <1>3, <2>1, <2>2 DEF OneKindIn
  <2>4. View(osg', queue', message', calling', o)
            = Shows(z, osg'.blocked[o], message', Outcomes(osg', calling', o))
    BY <1>4, ViewShows
  <2>. QED  BY <1>4, <2>2, <2>3, <2>4 DEF KeepsChannel
<1>. QED  BY <1>1, <1>4, <1>5, <1>6, <1>7, StepIsSound

\* The outcomes f, but one call's is res.
Retold(f, u, res) == [f EXCEPT ![u] = res]

\* u is inside a call on o.
IsIn(c, u, o) == c[u] # None /\ c[u].queue = o

\* What the calls on o return when the first task waiting for it, u, is told
\* res, by a task t that enters a call that returns result.
LEMMA OutcomesOfGrant ==
    ASSUME NEW g, NEW c, NEW gn, NEW cn, NEW o, NEW u \in Tasks, IsIn(c, u, o),
           NEW res, NEW t \in Tasks, t # u, NEW k, k # None, k.queue = o, NEW result,
           OnlyAt(c, cn, t, k), ToldBoth(g.ret, gn.ret, t, result, u, res)
    PROVE  Outcomes(gn, cn, o) = Retold(Retold(Outcomes(g, c, o), t, result), u, res)
<1>1. Retold(Retold(Outcomes(g, c, o), t, result), u, res)
          = [v \in Tasks |-> IF v = u THEN res ELSE IF v = t THEN result
                             ELSE IF c[v] # None /\ c[v].queue = o THEN g.ret[v] ELSE None]
  BY DEF Outcomes, Retold
<1>. QED  BY <1>1 DEF Outcomes, OnlyAt, IsIn, ToldBoth

\* By an interrupt.
LEMMA OutcomesOfInterrupt ==
    ASSUME NEW g, NEW c, NEW gn, NEW o, NEW u \in Tasks, IsIn(c, u, o), NEW res,
           OnlyAt(g.ret, gn.ret, u, res)
    PROVE  Outcomes(gn, c, o) = Retold(Outcomes(g, c, o), u, res)
<1>1. Retold(Outcomes(g, c, o), u, res)
          = [v \in Tasks |-> IF v = u THEN res
                             ELSE IF c[v] # None /\ c[v].queue = o THEN g.ret[v] ELSE None]
  BY DEF Outcomes, Retold
<1>. QED  BY <1>1 DEF Outcomes, OnlyAt, IsIn

\* A message is given to the first receiver.
LEMMA ReceiverIsGiven ==
    ASSUME Disciplined, SafeInvariant, NEW o \in Objects, Receiver(o), NEW f \in Tasks,
           IsFirst(osg, o, f), NEW m \in Messages, NEW r \in MayLeave(Tail(osg.blocked[o])), NEW n,
           NEW told, told = Outcomes(osg, calling, o) \/
                     \E t \in Tasks : /\ calling[t] = None
                                      /\ told = Retold(Outcomes(osg, calling, o), t,
                                                       Returning("SUCCESS"))
    PROVE  C!Changes(View(osg, queue, message, calling, o),
                     Shows(queue[o], r, n, Retold(told, f, Received(m))))
<1>1. queue[o].status = "BLOCKED_RECEIVE"
  BY ReceiverFacts
<1>2. osg.blocked[o] # <<>> /\ f = Head(osg.blocked[o])
  BY DEF IsFirst
<1>3. PICK x : x = Outcomes(osg, calling, o)
  OBVIOUS
<1>4. View(osg, queue, message, calling, o) = Chan(Contents(queue[o]), <<>>, osg.blocked[o], x)
  <2>1. View(osg, queue, message, calling, o) = Shows(queue[o], osg.blocked[o], message, x)
    BY <1>3, ViewShows
  <2>. QED  BY <1>1, <2>1, ShowsFacts
<1>. DEFINE b == Contents(queue[o])
            s == osg.blocked[o]
            y == Retold(told, f, Received(m))
            d == Chan(b, <<>>, r, y)
<1>5. Shows(queue[o], r, n, y) = d
  BY <1>1, ShowsFacts
<1>6. C!Accept(Chan(b, <<>>, s, x), d, m, told)
  <2>1. s # <<>> /\ r \in MayLeave(Tail(s)) /\ y = [told EXCEPT ![Head(s)] = Received(m)]
    BY <1>2 DEF Retold
  <2>. HIDE DEF b, s
  <2>2. C!Accept(Chan(b, <<>>, s, x),
                 Chan(b, <<>>, r, [told EXCEPT ![Head(s)] = Received(m)]), m, told)
    BY <2>1, AcceptGives
  <2>. QED  BY <2>1, <2>2
<1>7. told = x \/ \E t \in Tasks : x[t] = None /\ told = [x EXCEPT ![t] = Returning("SUCCESS")]
  BY <1>3, OutcomeFacts DEF Retold
<1>. HIDE DEF b, s, d
<1>8. \/ C!Accept(Chan(b, <<>>, s, x), d, m, x)
      \/ \E t \in Tasks : /\ x[t] = None
                          /\ C!Accept(Chan(b, <<>>, s, x), d, m,
                                      [x EXCEPT ![t] = Returning("SUCCESS")])
  BY <1>6, <1>7
<1>9. C!Changes(Chan(b, <<>>, s, x), d)
  BY <1>8, SendChanges
<1>. QED  BY <1>4, <1>5, <1>9 DEF b, s

\* A receiver is inside a dequeue, and a message is a receiver's success.
LEMMA ReceivedFacts ==
    ASSUME Disciplined, SafeInvariant, NEW o \in Objects, Receiver(o), NEW f \in Tasks,
           IsFirst(osg, o, f), NEW m \in Messages
    PROVE  /\ Received(m) \in Return /\ Received(m).status = "SUCCESS"
           /\ calling[f].op = "dequeue" /\ Received(m).value \in Messages
<1>1. Received(m) \in Return /\ Received(m).status = "SUCCESS" /\ Received(m).value = m
  BY DEF Received, Return, Codes
<1>2. Contains(osg.blocked[o], f) /\ OneKindIn(osg.blocked[o], queue[o], calling, o)
  BY FirstFacts, SoundFacts DEF Sound
<1>3. calling[f].op = "dequeue"
  BY <1>2, ReceiverFacts DEF OneKindIn, Contains
<1>. QED  BY <1>1, <1>3

\* osi_queue_enqueue to a waiting receiver
LEMMA EnqueueGives ==
    ASSUME Disciplined, SafeInvariant, InTask, AtACall, NEW o \in Objects, Receiver(o),
           calling' = [calling EXCEPT ![osg.running] = Naming("enqueue", o)],
           NEW m \in Messages,
           osg' = ReturnNow(Grant(NotBlocked(osg), o, Received(m)), Returning("SUCCESS")),
           queue' = queue, message' = message
    PROVE  StepSound
<1>1. PICK t \in Tasks : t = osg.running
  BY SoundFacts, InThreadFacts DEF InTask
<1>2. PICK f \in Tasks : IsFirst(osg, o, f)
  BY SoundFacts, ReceiverFacts DEF IsFirst
<1>3. PICK k \in Call : k = Naming("enqueue", o)
  BY NamingFacts
<1>4. /\ calling[t] = None /\ k # None /\ k.queue = o /\ QueueOf(k) = o
      /\ calling' = [calling EXCEPT ![t] = Naming("enqueue", o)]
  BY <1>1, <1>3, NamingFacts DEF AtACall
<1>5. PICK n : n = calling'
  OBVIOUS
<1>6. Sets(calling, n, t, k)
  BY <1>3, <1>4, <1>5 DEF Sets
<1>7. n \in [Tasks -> Call \cup {None}] /\ \A u \in Tasks : n[u] = IF u = t THEN k ELSE calling[u]
  BY <1>1, <1>6, CallerFacts
<1>8. PICK res \in Return : res = Received(m)
  BY <1>2, ReceivedFacts
<1>9. /\ res.status = "SUCCESS" /\ calling[f].op = "dequeue" /\ res.value \in Messages
  BY <1>2, <1>8, ReceivedFacts
<1>10. Granted(f, o) /\ f # t /\ ToldBoth(osg.ret, osg'.ret, t, Returning("SUCCESS"), f, res)
  <2>1. PICK result \in Return : result = Returning("SUCCESS")
    BY ReturningFacts DEF Codes
  <2>2. osg' = ReturnNow(Grant(NotBlocked(osg), o, res), result)
    BY <1>8, <2>1
  <2>3. Granted(f, o) /\ f # t /\ ToldBoth(osg.ret, osg'.ret, t, result, f, res)
    BY <1>1, <1>2, <1>4, <2>2, TaskGrants
  <2>. QED  BY <2>1, <2>3
<1>11. Typed(message', calling')
  BY <1>5, <1>7, SoundFacts DEF Typed
<1>12. queue' = [queue EXCEPT ![o] = queue[o]] /\ IsRing(queue[o])
  BY SoundFacts DEF Sound
<1>13. C!Changes(View(osg, queue, message, calling, o),
                 Shows(queue[o], osg'.blocked[o], message', Outcomes(osg', calling', o)))
  <2>1. PICK told : told = Retold(Outcomes(osg, calling, o), t, Returning("SUCCESS"))
    OBVIOUS
  <2>2. PICK r \in MayLeave(Tail(osg.blocked[o])) : r = osg'.blocked[o]
    BY <1>10 DEF Granted
  <2>3. C!Changes(View(osg, queue, message, calling, o),
                  Shows(queue[o], r, message', Retold(told, f, Received(m))))
    BY <1>2, <1>4, <2>1, ReceiverIsGiven
  <2>4. OnlyAt(calling, calling', t, k) /\ IsIn(calling, f, o)
    BY <1>2, <1>5, <1>7, FirstFacts DEF OnlyAt, IsIn
  <2>5. Outcomes(osg', calling', o) = Retold(told, f, res)
    <3>1. Outcomes(osg', calling', o)
              = Retold(Retold(Outcomes(osg, calling, o), t, Returning("SUCCESS")), f, res)
      BY <1>4, <1>10, <2>4, OutcomesOfGrant
    <3>. QED  BY <2>1, <3>1
  <2>. QED  BY <1>8, <2>2, <2>3, <2>5
<1>14. OthersKept(f, o)
  BY <1>4, <1>5, <1>7, <1>10 DEF ToldBoth, OthersKept
<1>15. osg'.ret[f] = res /\ calling'[f] = calling[f]
  BY <1>5, <1>7, <1>10 DEF ToldBoth
<1>. QED  BY <1>2, <1>9, <1>10, <1>11, <1>12, <1>13, <1>14, <1>15, GrantStep

\* osi_queue_enqueue_isr to a waiting receiver
LEMMA InterruptGives ==
    ASSUME Disciplined, SafeInvariant, osg.state = "STARTED", osg.halted = {},
           NEW o \in Objects, Receiver(o), NEW m \in Messages, osg' = Grant(osg, o, Received(m)),
           queue' = queue, message' = message, calling' = calling
    PROVE  StepSound
<1>1. PICK f \in Tasks : IsFirst(osg, o, f)
  BY SoundFacts, ReceiverFacts DEF IsFirst
<1>2. PICK res \in Return : res = Received(m)
  BY <1>1, ReceivedFacts
<1>3. /\ res.status = "SUCCESS" /\ calling[f].op = "dequeue" /\ res.value \in Messages
  BY <1>1, <1>2, ReceivedFacts
<1>4. /\ Granted(f, o) /\ \A u \in Tasks : osg'.ret[u] = IF u = f THEN res ELSE osg.ret[u]
  BY <1>1, <1>2, InterruptGrants
<1>5. Typed(message', calling')
  BY SoundFacts
<1>6. queue' = [queue EXCEPT ![o] = queue[o]] /\ IsRing(queue[o])
  BY SoundFacts DEF Sound
<1>7. C!Changes(View(osg, queue, message, calling, o),
                Shows(queue[o], osg'.blocked[o], message', Outcomes(osg', calling', o)))
  <2>1. PICK told : told = Outcomes(osg, calling, o)
    OBVIOUS
  <2>2. PICK r \in MayLeave(Tail(osg.blocked[o])) : r = osg'.blocked[o]
    BY <1>4 DEF Granted
  <2>3. C!Changes(View(osg, queue, message, calling, o),
                  Shows(queue[o], r, message', Retold(told, f, Received(m))))
    BY <1>1, <2>1, ReceiverIsGiven
  <2>4. OnlyAt(osg.ret, osg'.ret, f, res) /\ IsIn(calling, f, o)
    BY <1>1, <1>4, FirstFacts DEF OnlyAt, IsIn
  <2>5. Outcomes(osg', calling, o) = Retold(Outcomes(osg, calling, o), f, res)
    BY <2>4, OutcomesOfInterrupt
  <2>. QED  BY <1>2, <2>1, <2>2, <2>3, <2>5
<1>8. OthersKept(f, o)
  BY <1>4 DEF OthersKept
<1>9. osg'.ret[f] = res /\ calling'[f] = calling[f]
  BY <1>4
<1>. QED  BY <1>1, <1>3, <1>4, <1>5, <1>6, <1>7, <1>8, <1>9, GrantStep

\* A message is taken, and the first sender's put into its place.
LEMMA RefillFacts ==
    ASSUME SafeInvariant, NEW o \in Objects, NEW f \in Tasks, queue[o].number > 0,
           NEW p, p = Take(queue[o]), NEW z, z = Refill(p, message[f])
    PROVE  /\ IsRing(z) /\ z.status = queue[o].status /\ z.number = queue[o].number
           /\ Contents(queue[o]) # <<>>
           /\ Contents(z) = Append(Tail(Contents(queue[o])), message[f])
           /\ Received(queue[o].messages[queue[o].last]) = Received(Head(Contents(queue[o])))
           /\ Received(Head(Contents(queue[o]))) \in Return
<1>1. IsRing(queue[o]) /\ message[f] \in Messages \cup {None} /\ queue[o].number \in 0 .. Size
  BY SoundFacts DEF Sound, Typed, IsRing, QueueType
<1>2. PICK q : q = queue[o]
  OBVIOUS
<1>3. /\ IsRing(p) /\ p.number = q.number - 1 /\ p.status = q.status
      /\ Contents(q) # <<>> /\ Contents(p) = Tail(Contents(q))
      /\ q.messages[q.last] = Head(Contents(q))
  BY <1>1, <1>2, TakeFacts
<1>4. p.number < Size
  BY <1>1, <1>2, <1>3, SizeAssumption
<1>5. /\ IsRing(z) /\ z.number = p.number + 1 /\ z.status = p.status
      /\ Contents(z) = Append(Contents(p), message[f])
  BY <1>1, <1>3, <1>4, PutFacts DEF Refill
<1>6. z.number = q.number
  BY <1>1, <1>2, <1>3, <1>5
<1>7. Received(Head(Contents(q))) \in Return
  <2>1. Contents(q) \in Seq(Messages \cup {None})
    BY <1>1, <1>2, ContentsFacts
  <2>2. Head(Contents(q)) \in Messages \cup {None}
    BY <1>3, <2>1
  <2>. QED  BY <2>2 DEF Received, Return, Codes
<1>. QED  BY <1>2, <1>3, <1>5, <1>6, <1>7

\* The oldest message is received, and the first sender's takes the room.
LEMMA SenderRefills ==
    ASSUME Disciplined, SafeInvariant, NEW o \in Objects, Blocked(o, "BLOCKED_SEND"),
           queue[o].number > 0, NEW t \in Tasks, calling[t] = None,
           NEW f \in Tasks, IsFirst(osg, o, f), NEW r \in MayLeave(Tail(osg.blocked[o])),
           NEW p, p = Take(queue[o]), NEW z, z = Refill(p, message[f]),
           NEW n, \A u \in Tasks : u # f => n[u] = message[u]
    PROVE  C!Changes(View(osg, queue, message, calling, o),
                     Shows(z, r, n, Retold(Retold(Outcomes(osg, calling, o), t,
                                                  Received(Head(Contents(queue[o])))),
                                           f, Returning("SUCCESS"))))
<1>1. PICK b : b = Contents(queue[o])
  OBVIOUS
<1>2. /\ queue[o].status = "BLOCKED_SEND" /\ z.status = "BLOCKED_SEND"
      /\ b # <<>> /\ Contents(z) = Append(Tail(b), message[f])
  BY <1>1, ReceiverFacts, RefillFacts
<1>3. PICK s \in Seq(Tasks) : s = osg.blocked[o]
  BY SoundFacts
<1>4. /\ s # <<>> /\ f = Head(s) /\ Tail(s) \in Seq(Tasks) /\ r \in MayLeave(Tail(s))
      /\ \A u \in Tasks : Contains(Tail(s), u) => n[u] = message[u]
  BY <1>3, FirstFacts
<1>5. PICK x : x = Outcomes(osg, calling, o)
  OBVIOUS
<1>6. x[t] = None
  BY <1>5, OutcomeFacts
<1>7. View(osg, queue, message, calling, o) = Chan(b, Posted(s, message), <<>>, x)
  <2>1. View(osg, queue, message, calling, o) = Shows(queue[o], s, message, x)
    BY <1>3, <1>5, ViewShows
  <2>. QED  BY <1>1, <1>2, <2>1, ShowsFacts
<1>8. PICK y : y = Retold(Retold(x, t, Received(Head(b))), f, Returning("SUCCESS"))
  OBVIOUS
<1>9. Shows(z, r, n, y) = Chan(Append(Tail(b), message[f]), Posted(r, n), <<>>, y)
  <2>1. PICK ring : ring = z
    OBVIOUS
  <2>2. ring.status = "BLOCKED_SEND"
    BY <1>2, <2>1
  <2>3. Shows(ring, r, n, y) = Chan(Contents(ring), Posted(r, n), <<>>, y)
    BY <2>2, ShowsSenders
  <2>. QED  BY <1>2, <2>1, <2>3
<1>10. /\ Posted(s, message) # <<>> /\ Posted(r, n) \in MayLeave(Tail(Posted(s, message)))
       /\ Head(Posted(s, message)) = [task |-> f, message |-> message[f]]
  <2>1. /\ Posted(s, message) # <<>> /\ Posted(Tail(s), n) = Tail(Posted(s, message))
        /\ Head(Posted(s, message)) = [task |-> Head(s), message |-> message[Head(s)]]
    BY <1>4, PostedTail
  <2>2. Posted(r, n) \in MayLeave(Posted(Tail(s), n))
    BY <1>4, PostedLeave
  <2>. QED  BY <1>4, <2>1, <2>2
<1>11. C!Changes(Chan(b, Posted(s, message), <<>>, x),
                 Chan(Append(Tail(b), message[f]), Posted(r, n), <<>>, y))
  <2>1. PICK v : v = Posted(s, message)
    OBVIOUS
  <2>2. PICK w : w = Posted(r, n)
    OBVIOUS
  <2>3. PICK m : m = message[f]
    OBVIOUS
  <2>4. v # <<>> /\ w \in MayLeave(Tail(v)) /\ Head(v) = [task |-> f, message |-> m]
    BY <1>10, <2>1, <2>2, <2>3
  <2>5. C!Changes(Chan(b, v, <<>>, x),
                  Chan(Append(Tail(b), m), w, <<>>,
                       [[x EXCEPT ![t] = Received(Head(b))] EXCEPT ![f] = Returning("SUCCESS")]))
    BY <1>2, <1>6, <2>4, RefillChanges
  <2>6. y = [[x EXCEPT ![t] = Received(Head(b))] EXCEPT ![f] = Returning("SUCCESS")]
    BY <1>8 DEF Retold
  <2>. QED  BY <2>1, <2>2, <2>3, <2>5, <2>6
<1>. QED  BY <1>1, <1>5, <1>7, <1>8, <1>9, <1>11

\* osi_queue_dequeue from a ring that senders wait for
LEMMA DequeueRefills ==
    ASSUME Disciplined, SafeInvariant, InTask, AtACall, NEW o \in Objects,
           Blocked(o, "BLOCKED_SEND"), queue[o].number > 0,
           calling' = [calling EXCEPT ![osg.running] = Naming("dequeue", o)],
           osg' = ReturnNow(Grant(NotBlocked(osg), o, Returning("SUCCESS")),
                            Received(queue[o].messages[queue[o].last])),
           queue' = [queue EXCEPT ![o] = Refill(Take(@), message[Head(osg.blocked[o])])],
           message' = [message EXCEPT ![Head(osg.blocked[o])] = None]
    PROVE  StepSound
<1>1. PICK t \in Tasks : t = osg.running
  BY SoundFacts, InThreadFacts DEF InTask
<1>2. PICK f \in Tasks : IsFirst(osg, o, f)
  BY SoundFacts, ReceiverFacts DEF IsFirst
<1>3. PICK k \in Call : k = Naming("dequeue", o)
  BY NamingFacts
<1>4. /\ calling[t] = None /\ k # None /\ k.queue = o /\ QueueOf(k) = o
      /\ calling' = [calling EXCEPT ![t] = Naming("dequeue", o)]
  BY <1>1, <1>3, NamingFacts DEF AtACall
<1>5. PICK n : n = calling'
  OBVIOUS
<1>6. Sets(calling, n, t, k)
  BY <1>3, <1>4, <1>5 DEF Sets
<1>7. n \in [Tasks -> Call \cup {None}] /\ \A u \in Tasks : n[u] = IF u = t THEN k ELSE calling[u]
  BY <1>1, <1>6, CallerFacts
<1>8. PICK res \in Return : res = Returning("SUCCESS")
  BY ReturningFacts DEF Codes
<1>9. PICK p : p = Take(queue[o])
  OBVIOUS
<1>10. PICK z : z = Refill(p, message[f])
  OBVIOUS
<1>11. /\ IsRing(z) /\ z.status = queue[o].status /\ z.number = queue[o].number
       /\ Received(queue[o].messages[queue[o].last]) = Received(Head(Contents(queue[o])))
       /\ Received(Head(Contents(queue[o]))) \in Return
  BY <1>9, <1>10, RefillFacts
<1>12. PICK result \in Return : result = Received(Head(Contents(queue[o])))
  BY <1>11
<1>13. /\ queue' = [queue EXCEPT ![o] = z] /\ message' = [message EXCEPT ![f] = None]
  <2>1. f = Head(osg.blocked[o])
    BY <1>2 DEF IsFirst
  <2>. QED  BY <1>9, <1>10, <2>1
<1>14. Granted(f, o) /\ f # t /\ ToldBoth(osg.ret, osg'.ret, t, result, f, res)
  <2>1. osg' = ReturnNow(Grant(NotBlocked(osg), o, res), result)
    BY <1>8, <1>11, <1>12
  <2>. QED  BY <1>1, <1>2, <1>4, <2>1, TaskGrants
<1>15. IsIn(calling, f, o) /\ calling[f].op = "enqueue"
  <2>1. Contains(osg.blocked[o], f) /\ OneKindIn(osg.blocked[o], queue[o], calling, o)
    BY <1>2, FirstFacts, SoundFacts DEF Sound
  <2>2. calling[f] = [op |-> "enqueue", queue |-> o]
    BY <2>1, ReceiverFacts DEF OneKindIn
  <2>. QED  BY <1>2, <2>1, <2>2, FirstFacts DEF IsIn
<1>16. message' \in [Tasks -> Messages \cup {None}] /\ \A u \in Tasks : u # f => message'[u] = message[u]
  BY <1>13, SoundFacts DEF Typed
<1>17. Typed(message', calling')
  BY <1>5, <1>7, <1>16 DEF Typed
<1>18. C!Changes(View(osg, queue, message, calling, o),
                 Shows(z, osg'.blocked[o], message', Outcomes(osg', calling', o)))
  <2>1. PICK r \in MayLeave(Tail(osg.blocked[o])) : r = osg'.blocked[o]
    BY <1>14 DEF Granted
  <2>2. PICK w : w = message'
    OBVIOUS
  <2>3. \A u \in Tasks : u # f => w[u] = message[u]
    BY <1>16, <2>2
  <2>4. C!Changes(View(osg, queue, message, calling, o),
                  Shows(z, r, w, Retold(Retold(Outcomes(osg, calling, o), t,
                                               Received(Head(Contents(queue[o])))),
                                        f, Returning("SUCCESS"))))
    BY <1>2, <1>4, <1>9, <1>10, <2>3, SenderRefills
  <2>5. OnlyAt(calling, calling', t, k)
    BY <1>5, <1>7 DEF OnlyAt
  <2>6. Outcomes(osg', calling', o) = Retold(Retold(Outcomes(osg, calling, o), t, result), f, res)
    BY <1>4, <1>14, <1>15, <2>5, OutcomesOfGrant
  <2>. QED  BY <1>8, <1>12, <2>1, <2>2, <2>4, <2>6
<1>19. OthersKept(f, o)
  BY <1>4, <1>5, <1>7, <1>14, <1>16 DEF ToldBoth, OthersKept
<1>20. osg'.ret[f] = res /\ calling'[f] = calling[f]
  BY <1>5, <1>7, <1>14 DEF ToldBoth
<1>21. res.status = "SUCCESS" /\ res.value \notin Messages
  BY <1>8, ReturningFacts, NoneAssumption DEF Codes
<1>. QED  BY <1>2, <1>11, <1>13, <1>14, <1>15, <1>17, <1>18, <1>19, <1>20, <1>21, GrantStep

-----------------------------------------------------------------------------
(***************************************************************************)
(* The handlers.                                                           *)
(***************************************************************************)

\* os_queue_enqueue
LEMMA EnqueueStep ==
    ASSUME Disciplined, SafeInvariant, NEW o \in Objects, NEW m \in Messages,
           NEW to \in Timeouts, Enqueue(o, m, to)
    PROVE  StepSound
<1>1. PICK t \in Tasks : t = osg.running
  BY SoundFacts, InThreadFacts DEF Enqueue, InTask
<1>2. /\ InTask /\ AtACall /\ calling' = [calling EXCEPT ![t] = Naming("enqueue", o)]
      /\ calling[t] = None
  BY <1>1 DEF Enqueue, Naming, AtACall
<1>3. /\ IsRing(queue[o]) /\ OneKindIn(osg.blocked[o], queue[o], calling, o)
      /\ queue \in [Objects -> QueueType]
  BY SoundFacts DEF Sound
<1>4. CASE /\ Receiver(o)
           /\ osg' = ReturnNow(Grant(NotBlocked(osg), o, Received(m)), Returning("SUCCESS"))
           /\ UNCHANGED <<queue, message>>
  BY <1>1, <1>2, <1>4, EnqueueGives
<1>5. CASE /\ queue[o].number = Size /\ osg' = ReturnNow(NotBlocked(osg), Returning("MEM"))
           /\ UNCHANGED <<queue, message>>
  <2>1. PICK result \in Return : result = Returning("MEM")
    BY ReturningFacts DEF Codes
  <2>2. queue' = [queue EXCEPT ![o] = queue[o]]
    BY <1>3, <1>5
  <2>3. \A u \in Tasks : calling[u] = None =>
            C!Changes(View(osg, queue, message, calling, o),
                      Shows(queue[o], osg.blocked[o], message,
                            [Outcomes(osg, calling, o) EXCEPT ![u] = result]))
    BY <1>5, <2>1, RefusalRefuses
  <2>. QED  BY <1>1, <1>2, <1>3, <1>5, <2>1, <2>2, <2>3, AtOnceCall
<1>6. CASE /\ ~Receiver(o) /\ queue[o].number = Size /\ to # 0
           /\ message' = [message EXCEPT ![t] = m]
           /\ queue' = [queue EXCEPT ![o].status = "BLOCKED_SEND"] /\ osg' = Block(o, to)
  <2>1. Waits(t, "enqueue", o, to)
    BY <1>1, <1>2, <1>6 DEF Waits
  <2>. QED  BY <1>6, <2>1, EnqueueWaits
<1>7. CASE /\ ~Receiver(o) /\ queue[o].number # Size
           /\ queue' = [queue EXCEPT ![o] = [Put(@, m) EXCEPT !.status = "FINE"]]
           /\ osg' = ReturnNow(NotBlocked(osg), Returning("SUCCESS")) /\ message' = message
  <2>1. PICK result \in Return : result = Returning("SUCCESS")
    BY ReturningFacts DEF Codes
  <2>2. PICK z : z = [Put(queue[o], m) EXCEPT !.status = "FINE"]
    OBVIOUS
  <2>3. queue' = [queue EXCEPT ![o] = z]
    BY <1>7, <2>2
  <2>4. ASSUME NEW u \in Tasks, calling[u] = None
        PROVE  C!Changes(View(osg, queue, message, calling, o),
                         Shows(z, osg.blocked[o], message,
                               [Outcomes(osg, calling, o) EXCEPT ![u] = result]))
    <3>1. PICK told : told = [Outcomes(osg, calling, o) EXCEPT ![u] = Returning("SUCCESS")]
      OBVIOUS
    <3>2. C!Changes(View(osg, queue, message, calling, o), Shows(z, osg.blocked[o], message, told))
      BY <1>7, <2>2, <2>4, <3>1, PutSends
    <3>. QED  BY <2>1, <3>1, <3>2
  <2>5. IsRing(z) /\ OneKindIn(osg.blocked[o], z, calling, o)
    <3>1. PICK told : told = Outcomes(osg, calling, o)
      OBVIOUS
    <3>2. osg.blocked[o] = <<>> /\ IsRing(z) /\ OneKindIn(<<>>, z, calling, o)
      BY <1>7, <2>2, <3>1, PutSends
    <3>. QED  BY <3>2
  <2>. QED  BY <1>1, <1>2, <1>7, <2>1, <2>3, <2>4, <2>5, AtOnceCall
<1>. QED  BY <1>1, <1>4, <1>5, <1>6, <1>7 DEF Enqueue

\* os_queue_enqueue_isr
LEMMA InterruptStep ==
    ASSUME Disciplined, SafeInvariant, NEW o \in Objects, NEW m \in Messages, Interrupt(o, m)
    PROVE  StepSound
<1>1. /\ osg.state = "STARTED" /\ osg.halted = {} /\ message' = message /\ calling' = calling
  BY DEF Interrupt
<1>2. CASE Receiver(o) /\ osg' = Grant(osg, o, Received(m)) /\ queue' = queue
  BY <1>1, <1>2, InterruptGives
<1>3. CASE /\ ~Receiver(o) /\ queue[o].number # Size
           /\ queue' = [queue EXCEPT ![o] = [Put(@, m) EXCEPT !.status = "FINE"]] /\ osg' = osg
  <2>1. PICK z : z = [Put(queue[o], m) EXCEPT !.status = "FINE"]
    OBVIOUS
  <2>2. PICK told : told = Outcomes(osg, calling, o)
    OBVIOUS
  <2>3. /\ osg.blocked[o] = <<>> /\ IsRing(z) /\ OneKindIn(<<>>, z, calling, o)
        /\ C!Changes(View(osg, queue, message, calling, o),
                     Shows(z, osg.blocked[o], message, told))
    BY <1>3, <2>1, <2>2, PutSends
  <2>4. /\ queue \in [Objects -> QueueType] /\ Told(osg) /\ Invariant
        /\ Healthy(osg, Queues(calling)) /\ Typed(message, calling)
    BY SoundFacts DEF Sound
  <2>5. /\ queue' \in [Objects -> QueueType] /\ queue'[o] = z
        /\ \A p \in Objects : p # o => queue'[p] = queue[p]
    BY <1>3, <2>1, <2>3, <2>4 DEF IsRing
  <2>6. Invariant'
    BY <1>3, <2>4, StutterStep
  <2>7. KeepsChannel(o)
    <3>1. View(osg', queue', message', calling', o) = Shows(z, osg.blocked[o], message, told)
      BY <1>1, <1>3, <2>2, <2>5, ViewShows
    <3>. QED  BY <1>1, <1>3, <2>3, <2>4, <2>5, <3>1 DEF KeepsChannel, Told
  <2>8. ASSUME NEW p \in Objects, p # o PROVE KeepsChannel(p)
    <3>1. StaysAlone(p)
      BY <1>1, <1>3, <2>5, <2>8 DEF StaysAlone, MayLeave
    <3>. QED  BY <1>1, <2>4, <3>1, AloneKeeps
  <2>9. \A u \in Tasks : WokenInTime(u)
    BY <1>3 DEF WokenInTime
  <2>. QED  BY <1>1, <1>3, <2>4, <2>5, <2>6, <2>7, <2>8, <2>9, StepIsSound
<1>. QED  BY <1>2, <1>3 DEF Interrupt

\* os_queue_dequeue
LEMMA DequeueStep ==
    ASSUME Disciplined, SafeInvariant, NEW o \in Objects, NEW to \in Timeouts, Dequeue(o, to)
    PROVE  StepSound
<1>1. PICK t \in Tasks : t = osg.running
  BY SoundFacts, InThreadFacts DEF Dequeue, InTask
<1>2. /\ InTask /\ AtACall /\ calling' = [calling EXCEPT ![t] = Naming("dequeue", o)]
  BY <1>1 DEF Dequeue, Naming
<1>3. /\ IsRing(queue[o]) /\ OneKindIn(osg.blocked[o], queue[o], calling, o)
      /\ queue \in [Objects -> QueueType]
  BY SoundFacts DEF Sound
<1>4. CASE /\ queue[o].number > 0 /\ ~Blocked(o, "BLOCKED_SEND")
           /\ queue' = [queue EXCEPT ![o] = Take(@)]
           /\ osg' = ReturnNow(NotBlocked(osg), Received(queue[o].messages[queue[o].last]))
           /\ message' = message
  <2>1. PICK result : result = Received(queue[o].messages[queue[o].last])
    OBVIOUS
  <2>2. PICK z : z = Take(queue[o])
    OBVIOUS
  <2>3. calling[t] = None
    BY <1>1, <1>2 DEF AtACall
  <2>4. osg.blocked[o] = <<>> /\ IsRing(z) /\ OneKindIn(<<>>, z, calling, o) /\ result \in Return
    BY <1>4, <2>1, <2>2, <2>3, TakeReceives
  <2>5. \A u \in Tasks : calling[u] = None =>
            C!Changes(View(osg, queue, message, calling, o),
                      Shows(z, osg.blocked[o], message,
                            [Outcomes(osg, calling, o) EXCEPT ![u] = result]))
    BY <1>4, <2>1, <2>2, TakeReceives
  <2>6. queue' = [queue EXCEPT ![o] = z] /\ OneKindIn(osg.blocked[o], z, calling, o)
    BY <1>4, <2>2, <2>4
  <2>7. osg' = ReturnNow(NotBlocked(osg), result)
    BY <1>4, <2>1
  <2>. QED  BY <1>1, <1>2, <1>4, <2>4, <2>5, <2>6, <2>7, AtOnceCall
<1>5. CASE /\ queue[o].number > 0 /\ Blocked(o, "BLOCKED_SEND")
           /\ queue' = [queue EXCEPT ![o] = Refill(Take(@), message[Head(osg.blocked[o])])]
           /\ message' = [message EXCEPT ![Head(osg.blocked[o])] = None]
           /\ osg' = ReturnNow(Grant(NotBlocked(osg), o, Returning("SUCCESS")),
                               Received(queue[o].messages[queue[o].last]))
  BY <1>1, <1>2, <1>5, DequeueRefills
<1>6. CASE /\ queue[o].number = 0 /\ osg' = ReturnNow(NotBlocked(osg), Returning("MEM"))
           /\ UNCHANGED <<queue, message>>
  <2>1. PICK result \in Return : result = Returning("MEM")
    BY ReturningFacts DEF Codes
  <2>2. queue' = [queue EXCEPT ![o] = queue[o]]
    BY <1>3, <1>6
  <2>3. \A u \in Tasks : calling[u] = None =>
            C!Changes(View(osg, queue, message, calling, o),
                      Shows(queue[o], osg.blocked[o], message,
                            [Outcomes(osg, calling, o) EXCEPT ![u] = result]))
    BY <1>6, <2>1, RefusalRefuses
  <2>. QED  BY <1>1, <1>2, <1>3, <1>6, <2>1, <2>2, <2>3, AtOnceCall
<1>7. CASE /\ queue[o].number = 0 /\ to # 0 /\ osg' = Block(o, to) /\ message' = message
           /\ queue' = [queue EXCEPT ![o].status = "BLOCKED_RECEIVE"]
  <2>1. Waits(t, "dequeue", o, to)
    BY <1>1, <1>2, <1>7 DEF Waits
  <2>. QED  BY <1>7, <2>1, DequeueWaits
<1>. QED  BY <1>4, <1>5, <1>6, <1>7 DEF Dequeue

\* Every step of the specification keeps the invariant, changes each channel
\* as it may and wakes nobody early without a result.
LEMMA NextSound ==
    ASSUME Disciplined, SafeInvariant, [Next]_vars
    PROVE  StepSound
<1>1. CASE Next
  <2>1. CASE \E o \in Objects, m \in Messages \ DeviceMessages, to \in Timeouts : Enqueue(o, m, to)
    BY <2>1, EnqueueStep
  <2>2. CASE \E o \in Objects, m \in DeviceMessages : Interrupt(o, m)
    BY <2>2, InterruptStep, DevicesAssumption
  <2>3. CASE \E o \in Objects, to \in Timeouts : Dequeue(o, to)
    BY <2>3, DequeueStep
  <2>. QED  BY <1>1, <2>1, <2>2, <2>3, BackgroundStep, OtherCallStep, SuspendOrResumeStep,
               RestartStep, ReturnsStep DEF Next
<1>2. CASE UNCHANGED vars
  <2>1. osg' = osg /\ queue' = queue /\ message' = message /\ calling' = calling
    BY <1>2 DEF vars
  <2>2. Invariant'
    BY <2>1, SoundFacts, StutterStep
  <2>3. /\ Healthy(osg', Queues(calling)) /\ Undisturbed(osg, osg', Queues(calling))
        /\ SleepOn(osg, osg', Tasks)
    BY <2>1, SoundFacts DEF Undisturbed, OneLeaves, SleepOn
  <2>. QED  BY <2>1, <2>2, <2>3, SoundFacts, UnconcernedStep
<1>. QED  BY <1>1, <1>2


\* The inductive invariant holds in every state.
LEMMA SafeHolds == ASSUME Disciplined PROVE Spec => []SafeInvariant
<1>1. Init => SafeInvariant
  BY InitSound
<1>2. SafeInvariant /\ [Next]_vars => SafeInvariant'
  BY NextSound DEF StepSound
<1>. QED  BY <1>1, <1>2, PTL DEF Spec

-----------------------------------------------------------------------------
(***************************************************************************)
(* The theorems.                                                           *)
(***************************************************************************)

\* What queue.c does to the kernel's lists leaves them in order, and none of
\* its assertions fails: the ring's indices stay inside the ring, and a task
\* that goes to sleep has been replaced, also when os_queue_enqueue_isr wakes
\* another between SysTick and PendSV.
THEOREM SchedulerSurvivesQueues == ASSUME Disciplined PROVE Spec => []KernelSurvives
<1>1. SafeInvariant => KernelSurvives
  <2>. SUFFICES ASSUME SafeInvariant PROVE KernelSurvives
    OBVIOUS
  <2>1. TypeOK /\ osg.halted = {}
    BY DEF SafeInvariant, Sound, Typed, Healthy, Invariant, KernelInv, TypeOK, QueueType
  <2>2. QueuesMatchStatus(osg) /\ RunqueueSorted(osg) /\ WaitqueueSorted(osg)
    BY DEF SafeInvariant, Invariant, KernelInv
  <2>3. osg.scheduled # None => osg.status[osg.scheduled] = "ACTIVE" /\ osg.scheduled # osg.running
    BY DEF SafeInvariant, Invariant, Scheduling
  <2>4. osg.state = "STARTED" => Awake(osg)
    BY <2>1 DEF SafeInvariant, Invariant
  <2>. QED  BY <2>1, <2>2, <2>3, <2>4 DEF KernelSurvives
<1>. QED  BY <1>1, SafeHolds, PTL

\* The list of a queue holds its senders or its receivers, and the status
\* that osi_queue_enqueue and osi_queue_dequeue ask says which.
THEOREM ListsHoldOneKind == ASSUME Disciplined PROVE Spec => []OneKindBlocked
<1>1. SafeInvariant => OneKindBlocked
  <2>. SUFFICES ASSUME SafeInvariant, NEW o \in Objects, osg.blocked[o] # <<>>
                PROVE  \/ /\ queue[o].status = "BLOCKED_SEND" /\ queue[o].number = Size
                          /\ \A t \in ToSet(osg.blocked[o]) : In(t, "enqueue", o)
                       \/ /\ queue[o].status = "BLOCKED_RECEIVE" /\ queue[o].number = 0
                          /\ \A t \in ToSet(osg.blocked[o]) : In(t, "dequeue", o)
    BY DEF OneKindBlocked
  <2>1. OneKindIn(osg.blocked[o], queue[o], calling, o) /\ osg.blocked[o] \in Seq(Tasks)
    BY SoundFacts DEF SafeInvariant, Sound
  <2>2. \A t \in ToSet(osg.blocked[o]) : t \in Tasks /\ Contains(osg.blocked[o], t)
    BY <2>1 DEF ToSet, Contains
  <2>. QED  BY <2>1, <2>2 DEF OneKindIn, In
<1>. QED  BY <1>1, SafeHolds, PTL

\* No waiter is forgotten: it is in the list that the other side looks at,
\* and whoever is in a list will be told that its time is out.
THEOREM NoWaiterIsMissed == ASSUME Disciplined PROVE Spec => []WaitersAreListed
<1>1. SafeInvariant => WaitersAreListed
  <2>. SUFFICES ASSUME SafeInvariant, NEW o \in Objects, NEW t \in Tasks
                PROVE  /\ (In(t, "enqueue", o) \/ In(t, "dequeue", o)) /\ osg.status[t] = "WAIT" =>
                              Contains(osg.blocked[o], t)
                       /\ Contains(osg.blocked[o], t) =>
                              osg.ret[t] = Returning("TO") /\ osg.waits[t] = {o}
    BY DEF WaitersAreListed
  <2>1. PICK c \in Callers : c = Queues(calling)
    BY SoundFacts
  <2>2. Blocking(osg, c) /\ Told(osg) /\ o # None
    BY <2>1, SoundFacts, NoneAssumption DEF Healthy
  <2>3. ASSUME In(t, "enqueue", o) \/ In(t, "dequeue", o) PROVE c[t] = o
    <3>1. calling[t].queue = o /\ calling[t] # None
      BY <2>3, NoCallAssumption DEF In, Call
    <3>. QED  BY <2>1, <3>1, SoundFacts, QueuesFacts DEF Typed
  <2>4. c[t] = o /\ osg.status[t] = "WAIT" => Contains(osg.blocked[o], t)
    BY <2>2 DEF Blocking, ListedAsleep
  <2>5. Contains(osg.blocked[o], t) => osg.ret[t] = Returning("TO") /\ osg.waits[t] = {o}
    BY <2>2 DEF Blocking, Listing, Flagging, Told
  <2>. QED  BY <2>3, <2>4, <2>5
<1>. QED  BY <1>1, SafeHolds, PTL

\* Only a message, or room for one, ends a sleep before its time-out, and it
\* is what the call then returns.
THEOREM OnlyMessagesWake == ASSUME Disciplined PROVE Spec => WokenWithResult
<1>1. SafeInvariant /\ [Next]_vars =>
          [\A t \in Tasks :
              /\ calling[t] # None /\ osg.delay[t] > 1
              /\ osg.status[t] = "WAIT" /\ osg'.status[t] # "WAIT"
              => /\ osg'.ret[t].status = "SUCCESS"
                 /\ calling[t].op = "dequeue" <=> osg'.ret[t].value \in Messages]_vars
  BY NextSound DEF StepSound, WokenInTime
<1>. QED  BY <1>1, SafeHolds, PTL DEF Spec, WokenWithResult

\* What the refinement mapping of Queue shows of a queue is its view.
LEMMA Mapped ==
    \A o \in Objects :
        [buffer |-> Contents(queue[o]), senders |-> SendersOf(o),
         receivers |-> BlockedTo(o, "BLOCKED_RECEIVE"), outcome |-> OutcomeOf(o)]
            = View(osg, queue, message, calling, o)
<1>. SUFFICES ASSUME NEW o \in Objects
              PROVE  [buffer |-> Contents(queue[o]), senders |-> SendersOf(o),
                      receivers |-> BlockedTo(o, "BLOCKED_RECEIVE"), outcome |-> OutcomeOf(o)]
                         = View(osg, queue, message, calling, o)
  OBVIOUS
<1>1. \A status : BlockedTo(o, status) = Waiters(osg.blocked[o], queue[o], status)
  BY DEF BlockedTo, Blocked, Waiters
<1>2. SendersOf(o) = Posted(Waiters(osg.blocked[o], queue[o], "BLOCKED_SEND"), message)
  BY <1>1 DEF SendersOf, Posted
<1>. QED  BY <1>1, <1>2 DEF View, Chan, OutcomeOf, Outcomes

\* Every call of queue.c, every message an interrupt sends, and every switch
\* and time-out of the scheduler is a step of the channels of Channel.tla.
THEOREM QueuesAreChannels == ASSUME Disciplined PROVE Spec => ImplementsChannel
<1>. DEFINE channel ==
        [o \in Objects |->
            [buffer |-> Contents(queue[o]), senders |-> SendersOf(o),
             receivers |-> BlockedTo(o, "BLOCKED_RECEIVE"), outcome |-> OutcomeOf(o)]]
<1>1. Init => C!Init
  <2>. SUFFICES ASSUME Init PROVE channel = [o \in Objects |-> C!Empty]
    BY DEF C!Init
  <2>1. \A o \in Objects : channel[o] = C!Empty
    BY InitSound, Mapped
  <2>. QED  BY <2>1
<1>2. SafeInvariant /\ [Next]_vars => [C!Next]_channel
  <2>. SUFFICES ASSUME SafeInvariant, [Next]_vars PROVE C!Next
    OBVIOUS
  <2>1. ChannelsChange(osg, queue, message, calling, osg', queue', message', calling')
    BY NextSound DEF StepSound
  <2>2. \A o \in Objects : channel[o] = View(osg, queue, message, calling, o)
    BY Mapped
  <2>3. \A o \in Objects : channel'[o] = View(osg', queue', message', calling', o)
    <3>1. (\A o \in Objects :
              [buffer |-> Contents(queue[o]), senders |-> SendersOf(o),
               receivers |-> BlockedTo(o, "BLOCKED_RECEIVE"), outcome |-> OutcomeOf(o)]
                  = View(osg, queue, message, calling, o))'
      BY Mapped, PTL
    <3>. QED  BY <3>1
  <2>. QED  BY <2>1, <2>2, <2>3 DEF C!Next, ChannelsChange
<1>. QED  BY <1>1, <1>2, SafeHolds, PTL DEF Spec, ImplementsChannel, C!Spec

=============================================================================
