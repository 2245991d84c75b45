---------------------------- MODULE RwLockProofs ----------------------------
(***************************************************************************)
(* The reader-writer locks of a disciplined application, for any number of *)
(* tasks and locks: nothing halts, a writer is alone, a lock counts the    *)
(* readers and the writer that are in, and nobody waits at a free lock.    *)
(***************************************************************************)
EXTENDS RwLock, HandlersProofs, FiniteSetTheorems

(***************************************************************************)
(* What is assumed of the application.  Its readers wait for ever or not   *)
(* at all, for a release that lets in a reader whose time-out has passed   *)
(* breaks the runqueue; it neither suspends nor restarts a task inside of  *)
(* an acquire; no task suspends itself; its delays are not 0; and only the *)
(* idle task has priority 0.                                               *)
(***************************************************************************)
Disciplined ==
    /\ ReadTimeouts \subseteq {0, Forever} /\ Forever > 1
    /\ ~SuspendsAcquirers /\ ~RestartsAcquirers
    /\ "suspend_self" \notin Calls
    /\ 0 \notin Delays /\ 0 \notin StartPriorities

(***************************************************************************)
(* Counting.  n[t][o][mode] is how often task t has entered lock o.        *)
(***************************************************************************)
Entries(n, o) == {e \in Tasks \X (1 .. MaxNesting) : e[2] <= n[e[1]][o]["READ"]}

\* The lock r, of object o, is what these entries make it.
Counts(r, n, o) ==
    /\ IsFiniteSet(Entries(n, o)) /\ r.readers = Cardinality(Entries(n, o))
    /\ \A t \in Tasks : n[t][o]["WRITE"] = IF r.writer = t THEN r.writers ELSE 0

\* The C structure, with no reader beside a writer.
Sane(r) ==
    /\ r \in [readers: Nat, writers: 0 .. 1, writer: Tasks \cup {None}]
    /\ r.writers = 0 <=> r.writer = None
    /\ r.writers > 0 => r.readers = 0

Numbers == [Tasks -> [Objects -> [Modes -> 0 .. MaxNesting]]]

\* m has one entry more than n.
OneMore(n, m, t, o, mode) ==
    \A u \in Tasks, p \in Objects, k \in Modes :
        m[u][p][k] = IF u = t /\ p = o /\ k = mode THEN n[u][p][k] + 1 ELSE n[u][p][k]

\* A reader more.
LEMMA EntryAdded ==
    ASSUME NEW n \in Numbers, NEW m \in Numbers, NEW t \in Tasks, NEW o \in Objects,
           OneMore(n, m, t, o, "READ"), IsFiniteSet(Entries(n, o))
    PROVE  /\ IsFiniteSet(Entries(m, o))
           /\ Cardinality(Entries(m, o)) = Cardinality(Entries(n, o)) + 1
<1>. DEFINE i == m[t][o]["READ"]
<1>1. "READ" \in Modes
  BY DEF Modes
<1>2. \A u \in Tasks : n[u][o]["READ"] \in 0 .. MaxNesting /\ m[u][o]["READ"] \in 0 .. MaxNesting
  BY <1>1 DEF Numbers
<1>3. \A u \in Tasks : m[u][o]["READ"] = IF u = t THEN n[u][o]["READ"] + 1 ELSE n[u][o]["READ"]
  BY <1>1 DEF OneMore
<1>4. i \in 1 .. MaxNesting /\ i = n[t][o]["READ"] + 1
  BY <1>2, <1>3, NestingAssumption
<1>5. <<t, i>> \notin Entries(n, o)
  BY <1>2, <1>4 DEF Entries
<1>6. Entries(m, o) = Entries(n, o) \cup {<<t, i>>}
  <2>1. ASSUME NEW u \in Tasks, NEW j \in 1 .. MaxNesting
        PROVE  <<u, j>> \in Entries(m, o) <=> <<u, j>> \in Entries(n, o) \cup {<<t, i>>}
    BY <1>2, <1>3, <1>4 DEF Entries
  <2>2. Entries(m, o) \subseteq Tasks \X (1 .. MaxNesting)
          /\ Entries(n, o) \cup {<<t, i>>} \subseteq Tasks \X (1 .. MaxNesting)
    BY <1>4 DEF Entries
  <2>. HIDE DEF i
  <2>. QED  BY <2>1, <2>2
<1>. HIDE DEF i
<1>. QED  BY <1>5, <1>6, FS_AddElement

\* A lock that entries leave alone.
LEMMA CountsAlike ==
    ASSUME NEW r, NEW n, NEW m, NEW o, Counts(r, n, o),
           \A t \in Tasks, k \in Modes : m[t][o][k] = n[t][o][k]
    PROVE  Counts(r, m, o)
<1>1. \A t \in Tasks : m[t][o]["READ"] = n[t][o]["READ"] /\ m[t][o]["WRITE"] = n[t][o]["WRITE"]
  BY DEF Modes
<1>2. Entries(m, o) = Entries(n, o)
  BY <1>1 DEF Entries
<1>. QED  BY <1>1, <1>2 DEF Counts

\* A task enters, by itself or let in by a release.
LEMMA EnterCounts ==
    ASSUME NEW n \in Numbers, NEW m \in Numbers, NEW t \in Tasks, NEW o \in Objects,
           NEW mode \in Modes, OneMore(n, m, t, o, mode), NEW r, Sane(r), Counts(r, n, o),
           CanEnter(r, mode)
    PROVE  LET e == Entered(r, mode, t)
           IN  Sane(e) /\ Counts(e, m, o) /\ e.readers + e.writers > 0
<1>. DEFINE e == Entered(r, mode, t)
<1>1. t # None
  BY NoneAssumption
<1>2. /\ r \in [readers: Nat, writers: 0 .. 1, writer: Tasks \cup {None}]
      /\ r.readers \in Nat /\ r.writers = 0 /\ r.writer = None
  BY DEF Sane, CanEnter
<1>3. CASE mode = "READ"
  <2>1. /\ e \in [readers: Nat, writers: 0 .. 1, writer: Tasks \cup {None}]
        /\ e.readers = r.readers + 1 /\ e.writers = r.writers /\ e.writer = r.writer
    BY <1>2, <1>3 DEF Entered
  <2>. HIDE DEF e
  <2>2. /\ IsFiniteSet(Entries(m, o))
        /\ Cardinality(Entries(m, o)) = Cardinality(Entries(n, o)) + 1
    BY <1>3, EntryAdded DEF Counts
  <2>3. \A u \in Tasks : m[u][o]["WRITE"] = n[u][o]["WRITE"]
    BY <1>3 DEF OneMore, Modes
  <2>. QED  BY <1>2, <2>1, <2>2, <2>3 DEF Sane, Counts, e
<1>4. CASE mode = "WRITE"
  <2>1. /\ e \in [readers: Nat, writers: 0 .. 1, writer: Tasks \cup {None}]
        /\ e.readers = r.readers /\ e.writers = 1 /\ e.writer = t /\ r.readers = 0
    <3>1. r.readers = 0 /\ "WRITE" # "READ"
      BY <1>4 DEF CanEnter
    <3>. DEFINE w == [r EXCEPT !.writers = 1]
    <3>2. /\ w \in [readers: Nat, writers: 0 .. 1, writer: Tasks \cup {None}]
          /\ w.readers = r.readers /\ w.writers = 1
      BY <1>2
    <3>3. e = [w EXCEPT !.writer = t]
      BY <1>2, <1>4 DEF Entered
    <3>. HIDE DEF e, w
    <3>. QED  BY <3>1, <3>2, <3>3
  <2>. HIDE DEF e
  <2>2. /\ \A u \in Tasks : m[u][o]["READ"] = n[u][o]["READ"]
        /\ \A u \in Tasks : m[u][o]["WRITE"] = IF u = t THEN n[u][o]["WRITE"] + 1
                                                        ELSE n[u][o]["WRITE"]
    BY <1>4 DEF OneMore, Modes
  <2>3. Entries(m, o) = Entries(n, o)
    BY <2>2 DEF Entries
  <2>4. \A u \in Tasks : n[u][o]["WRITE"] = 0
    BY <1>1, <1>2 DEF Counts
  <2>5. Counts(e, m, o)
    <3>1. \A u \in Tasks : m[u][o]["WRITE"] = IF e.writer = u THEN e.writers ELSE 0
      BY <2>1, <2>2, <2>4
    <3>2. IsFiniteSet(Entries(m, o)) /\ e.readers = Cardinality(Entries(m, o))
      BY <2>1, <2>3 DEF Counts
    <3>. QED  BY <3>1, <3>2 DEF Counts
  <2>. QED  BY <1>1, <2>1, <2>5 DEF Sane, e
<1>. QED  BY <1>3, <1>4 DEF Modes

\* A reader less.
LEMMA EntryRemoved ==
    ASSUME NEW n \in Numbers, NEW m \in Numbers, NEW t \in Tasks, NEW o \in Objects,
           OneMore(m, n, t, o, "READ"), IsFiniteSet(Entries(n, o))
    PROVE  /\ IsFiniteSet(Entries(m, o)) /\ Cardinality(Entries(m, o)) \in Nat
           /\ Cardinality(Entries(n, o)) = Cardinality(Entries(m, o)) + 1
<1>1. \A u \in Tasks : m[u][o]["READ"] \in Nat /\ n[u][o]["READ"] \in Nat
                         /\ m[u][o]["READ"] <= n[u][o]["READ"]
  <2>1. "READ" \in Modes
    BY DEF Modes
  <2>2. \A u \in Tasks : m[u][o]["READ"] \in Nat /\ n[u][o]["READ"] \in Nat
    BY <2>1, NestingAssumption DEF Numbers
  <2>. QED  BY <2>1, <2>2 DEF OneMore
<1>2. Entries(m, o) \subseteq Entries(n, o)
  BY <1>1 DEF Entries
<1>3. IsFiniteSet(Entries(m, o))
  BY <1>2, FS_Subset
<1>. QED  BY <1>3, EntryAdded, FS_CardinalityType

\* A task leaves: the assertions of rwlock.c:88 and :95, and what is left.
LEMMA LeaveCounts ==
    ASSUME NEW n \in Numbers, NEW m \in Numbers, NEW t \in Tasks, NEW o \in Objects,
           NEW mode \in Modes, OneMore(m, n, t, o, mode), NEW r, Sane(r), Counts(r, n, o)
    PROVE  /\ r.readers > 0 \/ r.writers = 1
           /\ r.writers > 0 => r.writer = t
           /\ Sane(Left(r)) /\ Counts(Left(r), m, o) /\ Left(r).writers = 0
<1>. DEFINE l == Left(r)
<1>1. t # None
  BY NoneAssumption
<1>2. /\ r \in [readers: Nat, writers: 0 .. 1, writer: Tasks \cup {None}]
      /\ r.readers \in Nat /\ r.writers \in 0 .. 1
  BY DEF Sane
<1>3. CASE mode = "READ"
  <2>1. /\ IsFiniteSet(Entries(m, o)) /\ Cardinality(Entries(m, o)) \in Nat
        /\ Cardinality(Entries(n, o)) = Cardinality(Entries(m, o)) + 1
    BY <1>3, EntryRemoved DEF Counts
  <2>2. r.readers = Cardinality(Entries(m, o)) + 1 /\ r.readers > 0
    BY <2>1 DEF Counts
  <2>3. r.writers = 0 /\ r.writer = None
    BY <1>2, <2>2 DEF Sane
  <2>4. /\ l \in [readers: Nat, writers: 0 .. 1, writer: Tasks \cup {None}]
        /\ l.readers = r.readers - 1 /\ l.writers = 0 /\ l.writer = None
    BY <1>2, <2>2, <2>3 DEF Left
  <2>. HIDE DEF l
  <2>5. \A u \in Tasks : m[u][o]["WRITE"] = n[u][o]["WRITE"]
    BY <1>3 DEF OneMore, Modes
  <2>6. \A u \in Tasks : m[u][o]["WRITE"] = IF l.writer = u THEN l.writers ELSE 0
    BY <2>3, <2>4, <2>5 DEF Counts
  <2>7. l.readers = Cardinality(Entries(m, o))
    BY <2>1, <2>2, <2>4
  <2>8. Counts(l, m, o)
    BY <2>1, <2>6, <2>7 DEF Counts
  <2>. QED  BY <2>2, <2>3, <2>4, <2>8 DEF Sane, l
<1>4. CASE mode = "WRITE"
  <2>1. /\ \A u \in Tasks : n[u][o]["READ"] = m[u][o]["READ"]
        /\ \A u \in Tasks : n[u][o]["WRITE"] = IF u = t THEN m[u][o]["WRITE"] + 1
                                                        ELSE m[u][o]["WRITE"]
    BY <1>4 DEF OneMore, Modes
  <2>2. \A u \in Tasks : m[u][o]["WRITE"] \in Nat
    BY NestingAssumption DEF Numbers, Modes
  <2>3. n[t][o]["WRITE"] > 0
    BY <2>1, <2>2
  <2>4. r.writer = t /\ r.writers = 1
    BY <1>2, <2>3 DEF Counts
  <2>5. r.readers = 0
    BY <2>4 DEF Sane
  <2>6. /\ l \in [readers: Nat, writers: 0 .. 1, writer: Tasks \cup {None}]
        /\ l.readers = 0 /\ l.writers = 0 /\ l.writer = None
    <3>. DEFINE v == [r EXCEPT !.writers = @ - 1]
    <3>1. /\ v \in [readers: Nat, writers: 0 .. 1, writer: Tasks \cup {None}]
          /\ v.readers = 0 /\ v.writers = 0
      BY <1>2, <2>4, <2>5
    <3>2. ~(r.readers > 0) /\ r.writers > 0
      BY <2>4, <2>5
    <3>3. l = [r EXCEPT !.writers = @ - 1, !.writer = None]
      BY <3>2, Zenon DEF Left
    <3>4. l = [v EXCEPT !.writer = None]
      BY <1>2, <3>3
    <3>. HIDE DEF l, v
    <3>. QED  BY <3>1, <3>4
  <2>. HIDE DEF l
  <2>7. \A u \in Tasks : m[u][o]["WRITE"] = 0
    BY <2>1, <2>2, <2>4 DEF Counts
  <2>8. Entries(m, o) = Entries(n, o)
    BY <2>1 DEF Entries
  <2>9. l.readers = Cardinality(Entries(m, o)) /\ IsFiniteSet(Entries(m, o))
    BY <2>5, <2>6, <2>8 DEF Counts
  <2>10. Counts(l, m, o)
    BY <2>6, <2>7, <2>9 DEF Counts
  <2>. QED  BY <2>4, <2>6, <2>10 DEF Sane, l
<1>. QED  BY <1>3, <1>4 DEF Modes

\* A call of a lock, whichever step it is part of, concerns one lock only.
Fits(r, n) ==
    /\ r \in [Objects -> [readers: Nat, writers: 0 .. 1, writer: Tasks \cup {None}]]
    /\ \A o \in Objects : Sane(r[o]) /\ Counts(r[o], n, o)

\* A count of the same numbers fits as well.
LEMMA FitsAlike ==
    ASSUME NEW r, NEW n, NEW m, Fits(r, n),
           \A t \in Tasks, o \in Objects, k \in Modes : m[t][o][k] = n[t][o][k]
    PROVE  Fits(r, m)
BY CountsAlike DEF Fits

\* From r to s, and by the count from n to m, t enters o, or leaves it.
EntersLock(r, s, n, m, t, o, mode) ==
    /\ Fits(r, n) /\ OneMore(n, m, t, o, mode) /\ CanEnter(r[o], mode)
    /\ s = [r EXCEPT ![o] = Entered(r[o], mode, t)]

LeavesLock(r, s, n, m, t, o, mode) ==
    /\ Fits(r, n) /\ OneMore(m, n, t, o, mode)
    /\ s = [r EXCEPT ![o] = Left(r[o])]

\* Entering a lock that can be entered leaves locks that fit what is taken.
LEMMA FitsEnter ==
    ASSUME NEW r, NEW s, NEW n \in Numbers, NEW m \in Numbers, NEW t \in Tasks,
           NEW o \in Objects, NEW mode \in Modes, EntersLock(r, s, n, m, t, o, mode)
    PROVE  /\ Fits(s, m) /\ s[o].readers + s[o].writers > 0
           /\ \A p \in Objects : p # o => s[p] = r[p]
<1>0. /\ Fits(r, n) /\ OneMore(n, m, t, o, mode) /\ CanEnter(r[o], mode)
      /\ s = [r EXCEPT ![o] = Entered(r[o], mode, t)]
  BY DEF EntersLock
<1>1. Sane(s[o]) /\ Counts(s[o], m, o) /\ s[o].readers + s[o].writers > 0
  <2>1. Sane(r[o]) /\ Counts(r[o], n, o)
    BY <1>0 DEF Fits
  <2>2. s[o] = Entered(r[o], mode, t)
    BY <1>0 DEF Fits
  <2>. QED  BY <1>0, <2>1, <2>2, EnterCounts
<1>2. ASSUME NEW p \in Objects, p # o PROVE Sane(s[p]) /\ Counts(s[p], m, p)
  <2>1. s[p] = r[p] /\ Sane(r[p]) /\ Counts(r[p], n, p)
    BY <1>0, <1>2 DEF Fits
  <2>2. \A u \in Tasks, k \in Modes : m[u][p][k] = n[u][p][k]
    BY <1>0, <1>2 DEF OneMore
  <2>. QED  BY <2>1, <2>2, CountsAlike
<1>3. s \in [Objects -> [readers: Nat, writers: 0 .. 1, writer: Tasks \cup {None}]]
  <2>1. s[o] \in [readers: Nat, writers: 0 .. 1, writer: Tasks \cup {None}]
    BY <1>1 DEF Sane
  <2>. QED  BY <1>0, <2>1 DEF Fits
<1>4. \A p \in Objects : p # o => s[p] = r[p]
  BY <1>0 DEF Fits
<1>. QED  BY <1>1, <1>2, <1>3, <1>4 DEF Fits

\* The assertions of rwlock.c:88 and rwlock.c:95 about the lock r, which t
\* leaves, and what it leaves.
LeftBy(r, s, t) ==
    /\ r.readers > 0 \/ r.writers = 1
    /\ r.writers > 0 => r.writer = t
    /\ s = Left(r) /\ s.writers = 0

\* Leaving a lock that is taken does too, and the assertions about it hold.
LEMMA FitsLeave ==
    ASSUME NEW r, NEW s, NEW n \in Numbers, NEW m \in Numbers, NEW t \in Tasks,
           NEW o \in Objects, NEW mode \in Modes, LeavesLock(r, s, n, m, t, o, mode)
    PROVE  /\ \A p \in Objects : p # o => s[p] = r[p]
           /\ Fits(s, m) /\ LeftBy(r[o], s[o], t)
<1>0. /\ Fits(r, n) /\ OneMore(m, n, t, o, mode) /\ s = [r EXCEPT ![o] = Left(r[o])]
  BY DEF LeavesLock
<1>1. /\ r[o].readers > 0 \/ r[o].writers = 1
      /\ r[o].writers > 0 => r[o].writer = t
      /\ Sane(s[o]) /\ Counts(s[o], m, o) /\ s[o] = Left(r[o]) /\ s[o].writers = 0
  <2>1. Sane(r[o]) /\ Counts(r[o], n, o)
    BY <1>0 DEF Fits
  <2>2. s[o] = Left(r[o])
    BY <1>0 DEF Fits
  <2>. QED  BY <1>0, <2>1, <2>2, LeaveCounts
<1>2. ASSUME NEW p \in Objects, p # o PROVE Sane(s[p]) /\ Counts(s[p], m, p)
  <2>1. s[p] = r[p] /\ Sane(r[p]) /\ Counts(r[p], n, p)
    BY <1>0, <1>2 DEF Fits
  <2>2. \A u \in Tasks, k \in Modes : m[u][p][k] = n[u][p][k]
    BY <1>0, <1>2 DEF OneMore
  <2>. QED  BY <2>1, <2>2, CountsAlike
<1>3. s \in [Objects -> [readers: Nat, writers: 0 .. 1, writer: Tasks \cup {None}]]
  <2>1. s[o] \in [readers: Nat, writers: 0 .. 1, writer: Tasks \cup {None}]
    BY <1>1 DEF Sane
  <2>. QED  BY <1>0, <2>1 DEF Fits
<1>4. \A p \in Objects : p # o => s[p] = r[p]
  BY <1>0 DEF Fits
<1>5. LeftBy(r[o], s[o], t)
  BY <1>1 DEF LeftBy
<1>. QED  BY <1>1, <1>2, <1>3, <1>4, <1>5 DEF Fits

-----------------------------------------------------------------------------
(***************************************************************************)
(* The inductive invariant, of a kernel record g, the locks r, what tasks  *)
(* desire d, the calls c they are inside of, the acquires h that returned. *)
(***************************************************************************)

\* The lock whose acquire each task is inside of.
Locks(c) == [t \in Tasks |-> IF c[t] = None THEN None ELSE c[t].lock]

\* How often each task has entered each lock, whether it knows or not.
Promised(g, c, t, o, mode) ==
    IF c[t] = [mode |-> mode, lock |-> o] /\ g.ret[t].status = "SUCCESS" THEN 1 ELSE 0
Taken(g, c, h) ==
    [t \in Tasks |-> [o \in Objects |-> [mode \in Modes |->
        h[t][o][mode] + Promised(g, c, t, o, mode)]]]

\* There is room for the acquires that have not returned.
Nesting(c, h) ==
    \A t \in Tasks : c[t] # None =>
        h[t][c[t].lock]["READ"] + h[t][c[t].lock]["WRITE"] < MaxNesting

\* Whoever is in a list waits to enter that lock, will be told that its time
\* is out unless a release tells it something else, and somebody is in the
\* lock already.  A reader in a list sleeps until a release lets it in.
Told(g, r, d, c) ==
    \A o \in Objects, t \in Tasks : Contains(g.blocked[o], t) =>
        /\ c[t] = [mode |-> d[t], lock |-> o] /\ g.ret[t].status = "TO"
        /\ d[t] = "READ" => g.status[t] = "WAIT" /\ g.delay[t] = Forever
        /\ r[o].readers + r[o].writers > 0

Typed(d, c, h) ==
    /\ d \in [Tasks -> Modes \cup {"NONE"}]
    /\ c \in [Tasks -> Acquires \cup {None}]
    /\ h \in Numbers

Sound(g, r, d, c, h) ==
    /\ Typed(d, c, h) /\ Healthy(g, Locks(c)) /\ Told(g, r, d, c)
    /\ Fits(r, Taken(g, c, h)) /\ Nesting(c, h)

SafeInvariant == Invariant /\ Sound(osg, rwlock, desired, calling, held)

\* All objects are locks, so whatever tasks call is one.
LEMMA LocksPlain ==
    /\ Plain = Objects /\ Callers = [Tasks -> Objects \cup {None}]
    /\ \A o \in Objects : Kind[o] = "rwlock" /\ o # None
BY AllRwLocks, NoneAssumption DEF Plain, Callers

\* A task is inside an acquire exactly if it is inside one of a lock.
LEMMA LocksFacts ==
    ASSUME NEW c \in [Tasks -> Acquires \cup {None}]
    PROVE  /\ Locks(c) \in Callers
           /\ \A t \in Tasks : /\ Locks(c)[t] = None <=> c[t] = None
                               /\ c[t] # None => /\ c[t] \in Acquires
                                                 /\ c[t].lock \in Objects
                                                 /\ Locks(c)[t] = c[t].lock
<1>1. \A t \in Tasks : c[t] # None => c[t] \in Acquires /\ c[t].lock \in Objects
  BY DEF Acquires
<1>. QED  BY <1>1, LocksPlain DEF Locks

\* What is taken can be counted.
LEMMA TakenFacts ==
    ASSUME NEW c \in [Tasks -> Acquires \cup {None}], NEW h \in Numbers, Nesting(c, h), NEW g
    PROVE  /\ Taken(g, c, h) \in Numbers
           /\ \A t \in Tasks, o \in Objects, mode \in Modes :
                  /\ Taken(g, c, h)[t][o][mode] = h[t][o][mode] + Promised(g, c, t, o, mode)
                  /\ h[t][o][mode] \in 0 .. MaxNesting
<1>1. \A t \in Tasks, o \in Objects, mode \in Modes :
          /\ Taken(g, c, h)[t][o][mode] = h[t][o][mode] + Promised(g, c, t, o, mode)
          /\ h[t][o][mode] \in 0 .. MaxNesting
  BY DEF Taken, Numbers
<1>2. ASSUME NEW t \in Tasks, NEW o \in Objects, NEW mode \in Modes
      PROVE  h[t][o][mode] + Promised(g, c, t, o, mode) \in 0 .. MaxNesting
  <2>1. CASE Promised(g, c, t, o, mode) = 0
    BY <1>1, <2>1, NestingAssumption
  <2>2. CASE Promised(g, c, t, o, mode) # 0
    <3>1. c[t] = [mode |-> mode, lock |-> o] /\ Promised(g, c, t, o, mode) = 1
      BY <2>2 DEF Promised
    <3>2. [mode |-> mode, lock |-> o] \in Acquires
      BY DEF Acquires
    <3>3. c[t] # None /\ c[t].lock = o
      BY <3>1, <3>2, NoAcquireAssumption
    <3>4. h[t][o]["READ"] + h[t][o]["WRITE"] < MaxNesting
      BY <3>3 DEF Nesting
    <3>5. h[t][o]["READ"] \in 0 .. MaxNesting /\ h[t][o]["WRITE"] \in 0 .. MaxNesting
      BY <1>1 DEF Modes
    <3>. QED  BY <3>1, <3>4, <3>5, NestingAssumption DEF Modes
  <2>. QED  BY <2>1, <2>2
<1>3. Taken(g, c, h) \in Numbers
  BY <1>2 DEF Taken, Numbers
<1>. QED  BY <1>1, <1>3

-----------------------------------------------------------------------------
(***************************************************************************)
(* Each action keeps it.                                                   *)
(***************************************************************************)

\* What a step may rely on.
LEMMA SoundFacts ==
    ASSUME SafeInvariant
    PROVE  /\ Invariant /\ Healthy(osg, Locks(calling)) /\ Locks(calling) \in Callers
           /\ Typed(desired, calling, held) /\ Told(osg, rwlock, desired, calling)
           /\ Fits(rwlock, Taken(osg, calling, held)) /\ Nesting(calling, held)
           /\ osg.blocked \in [Objects -> Seq(Tasks)] /\ osg.ret \in [Tasks -> Return]
           /\ \A o \in Objects : NoDuplicates(osg.blocked[o])
BY LocksFacts DEF SafeInvariant, Sound, Typed, Invariant, KernelInv, Kernel,
                  Healthy, Blocking, Listing

\* The initial state.
LEMMA InitSound == Init => SafeInvariant
<1>. SUFFICES ASSUME Init PROVE SafeInvariant
  OBVIOUS
<1>1. /\ rwlock = [o \in Objects |-> Created] /\ desired = [t \in Tasks |-> "NONE"]
      /\ calling = [t \in Tasks |-> None]
      /\ held = [t \in Tasks |-> [o \in Objects |-> [mode \in Modes |-> 0]]]
      /\ osg.blocked = [o \in Objects |-> <<>>]
  BY DEF Init, Zeroed, ZeroKernel
<1>2. Invariant /\ Healthy(osg, Locks(calling))
  <2>1. Locks(calling) = [t \in Tasks |-> None]
    BY <1>1 DEF Locks
  <2>. QED  BY <2>1, InitInvariant, InitHealthy DEF Init
<1>3. Typed(desired, calling, held)
  BY <1>1, NestingAssumption DEF Typed, Numbers
<1>4. Told(osg, rwlock, desired, calling)
  BY <1>1 DEF Told, Contains
<1>5. Nesting(calling, held)
  BY <1>1 DEF Nesting
<1>6. Fits(rwlock, Taken(osg, calling, held))
  <2>1. PICK n : n = Taken(osg, calling, held)
    OBVIOUS
  <2>2. \A t \in Tasks, o \in Objects, mode \in Modes : n[t][o][mode] = 0
    <3>1. \A t \in Tasks, o \in Objects, mode \in Modes :
              calling[t] # [mode |-> mode, lock |-> o]
      BY <1>1, NoAcquireAssumption DEF Acquires
    <3>. QED  BY <1>1, <2>1, <3>1 DEF Taken, Promised
  <2>3. \A o \in Objects : Entries(n, o) = {}
    <3>1. "READ" \in Modes
      BY DEF Modes
    <3>. QED  BY <2>2, <3>1 DEF Entries
  <2>4. /\ Created \in [readers: Nat, writers: 0 .. 1, writer: Tasks \cup {None}]
        /\ Created.readers = 0 /\ Created.writers = 0 /\ Created.writer = None
    BY DEF Created
  <2>5. \A o \in Objects : Counts(Created, n, o)
    BY <2>2, <2>3, <2>4, FS_EmptySet DEF Counts, Modes
  <2>6. Sane(Created)
    BY <2>4 DEF Sane
  <2>. HIDE DEF Created
  <2>. QED  BY <1>1, <2>1, <2>4, <2>5, <2>6 DEF Fits
<1>. QED  BY <1>2, <1>3, <1>4, <1>5, <1>6 DEF SafeInvariant, Sound

\* A task that stays in a list goes on desiring what it desired: its flags
\* are set as long as it is there.
LEMMA DesiringFacts ==
    ASSUME NEW d \in [Tasks -> Modes \cup {"NONE"}], NEW g, NEW c, Listing(g, c)
    PROVE  /\ Desiring(d, g) \in [Tasks -> Modes \cup {"NONE"}]
           /\ \A o \in Objects, t \in Tasks : Contains(g.blocked[o], t) =>
                  Desiring(d, g)[t] = d[t]
BY DEF Desiring, Listing

\* A step of the scheduler, or a call that does not concern a lock.
LEMMA UnconcernedStep ==
    ASSUME Disciplined, SafeInvariant, Invariant', Healthy(osg', Locks(calling)),
           Undisturbed(osg, osg', Locks(calling)),
           SleepOn(osg, osg', {t \in Tasks : calling[t] # None}),
           desired' = Desiring(desired, osg') \/ desired' = desired,
           UNCHANGED <<rwlock, calling, held>>
    PROVE  SafeInvariant'
<1>1. /\ calling \in [Tasks -> Acquires \cup {None}] /\ held \in Numbers
      /\ desired \in [Tasks -> Modes \cup {"NONE"}] /\ Nesting(calling, held)
      /\ Fits(rwlock, Taken(osg, calling, held)) /\ Told(osg, rwlock, desired, calling)
      /\ osg.blocked \in [Objects -> Seq(Tasks)]
  BY SoundFacts DEF Typed
<1>2. /\ desired' \in [Tasks -> Modes \cup {"NONE"}]
      /\ \A o \in Objects, t \in Tasks : Contains(osg'.blocked[o], t) => desired'[t] = desired[t]
  BY <1>1, DesiringFacts DEF Healthy, Blocking
<1>3. \A t \in Tasks : calling[t] # None => osg'.ret[t] = osg.ret[t]
  BY <1>1, LocksFacts DEF Undisturbed
<1>4. Fits(rwlock, Taken(osg', calling, held))
  <2>1. \A t \in Tasks, o \in Objects, mode \in Modes :
            Promised(osg', calling, t, o, mode) = Promised(osg, calling, t, o, mode)
    <3>1. \A o \in Objects, mode \in Modes : [mode |-> mode, lock |-> o] # None
      BY NoAcquireAssumption DEF Acquires
    <3>. QED  BY <1>3, <3>1 DEF Promised
  <2>2. \A t \in Tasks, o \in Objects, mode \in Modes :
            Taken(osg', calling, held)[t][o][mode] = Taken(osg, calling, held)[t][o][mode]
    BY <1>1, <2>1, TakenFacts
  <2>. QED  BY <1>1, <2>2, FitsAlike
<1>5. Told(osg', rwlock, desired', calling)
  <2>. SUFFICES ASSUME NEW o \in Objects, NEW t \in Tasks, Contains(osg'.blocked[o], t)
                PROVE  /\ calling[t] = [mode |-> desired'[t], lock |-> o]
                       /\ osg'.ret[t].status = "TO"
                       /\ desired'[t] = "READ" => osg'.status[t] = "WAIT" /\ osg'.delay[t] = Forever
                       /\ rwlock[o].readers + rwlock[o].writers > 0
    BY DEF Told
  <2>1. Contains(osg.blocked[o], t)
    BY <1>1, LeavingFacts DEF Undisturbed, OneLeaves
  <2>2. calling[t] # None
    <3>1. Locks(calling)[t] = o /\ o # None
      BY LocksPlain DEF Healthy, Blocking, Listing
    <3>. QED  BY <1>1, <3>1, LocksFacts
  <2>3. desired'[t] = desired[t] /\ osg'.ret[t] = osg.ret[t]
    BY <1>2, <1>3, <2>2
  <2>. QED  BY <1>1, <2>1, <2>2, <2>3 DEF Told, SleepOn, Disciplined
<1>. QED  BY <1>1, <1>2, <1>4, <1>5 DEF SafeInvariant, Sound, Typed

\* A step of the scheduler.
LEMMA BackgroundStep ==
    ASSUME Disciplined, SafeInvariant, Background
    PROVE  SafeInvariant'
<1>1. /\ Boot \/ SysTick \/ PendSV
      /\ desired' = Desiring(desired, osg') /\ UNCHANGED <<rwlock, calling, held>>
  BY DEF Background
<1>2. Invariant'
  BY <1>1, SoundFacts, BootStep, ExceptionStep
<1>3. /\ Healthy(osg', Locks(calling)) /\ Undisturbed(osg, osg', Locks(calling))
      /\ SleepOn(osg, osg', Tasks)
  <2>1. 0 \notin StartPriorities
    BY DEF Disciplined
  <2>. QED  BY <1>1, <2>1, SoundFacts, BootHealthy, TickHealthy, PendHealthy
<1>. QED  BY <1>1, <1>2, <1>3, UnconcernedStep DEF SleepOn

\* The calls that do not concern a lock.
Elsewhere ==
    \/ OtherCall
    \/ \E t \in Tasks : SuspendOrResume(t)
    \/ \E t \in Tasks, p \in StartPriorities : Restart(t, p)

\* They are about tasks that are inside of no acquire.
LEMMA ElsewhereFacts ==
    ASSUME Disciplined, SafeInvariant, Elsewhere
    PROVE  /\ calling[osg.running] = None /\ InThread
           /\ \/ (\E ms \in Delays : Delay(ms)) \/ Panic \/ Abort \/ Finish
              \/ \E t \in Tasks : calling[t] = None /\ (Suspend(t) \/ Resume(t))
              \/ \E t \in Tasks, p \in StartPriorities : calling[t] = None /\ TaskStart(t, p)
           /\ desired' = Desiring(desired, osg') /\ UNCHANGED <<rwlock, calling, held>>
<1>. DEFINE Kept == /\ AtACall /\ desired' = Desiring(desired, osg')
                    /\ UNCHANGED <<rwlock, calling, held>>
<1>1. CASE OtherCall
  BY <1>1 DEF OtherCall, AtACall
<1>2. ASSUME NEW t \in Tasks, SuspendOrResume(t)
      PROVE  Kept /\ calling[t] = None /\ (Suspend(t) \/ Resume(t))
  BY <1>2 DEF SuspendOrResume, Disciplined
<1>3. ASSUME NEW t \in Tasks, NEW p \in StartPriorities, Restart(t, p)
      PROVE  Kept /\ calling[t] = None /\ TaskStart(t, p)
  <2>1. calling[t] = None /\ calling' = [calling EXCEPT ![t] = None]
    BY <1>3 DEF Restart, Disciplined
  <2>2. calling' = calling
    BY <2>1, SoundFacts DEF Typed
  <2>. QED  BY <1>3, <2>1, <2>2 DEF Restart
<1>. QED  BY <1>1, <1>2, <1>3 DEF Elsewhere, AtACall

\* They keep the invariant.
LEMMA OtherCallStep ==
    ASSUME Disciplined, SafeInvariant, Elsewhere
    PROVE  SafeInvariant'
<1>. DEFINE c == Locks(calling)
<1>1. /\ calling[osg.running] = None /\ InThread
      /\ \/ (\E ms \in Delays : Delay(ms)) \/ Panic \/ Abort \/ Finish
         \/ \E t \in Tasks : calling[t] = None /\ (Suspend(t) \/ Resume(t))
         \/ \E t \in Tasks, p \in StartPriorities : calling[t] = None /\ TaskStart(t, p)
      /\ desired' = Desiring(desired, osg') /\ UNCHANGED <<rwlock, calling, held>>
  BY ElsewhereFacts
<1>2. /\ calling \in [Tasks -> Acquires \cup {None}] /\ osg.running \in Tasks
      /\ Invariant /\ Healthy(osg, c) /\ c \in Callers
      /\ "suspend_self" \notin Calls /\ 0 \notin Delays /\ 0 \notin StartPriorities
  BY <1>1, SoundFacts, InThreadFacts DEF Typed, Disciplined
<1>3. \A t \in Tasks : c[t] = None <=> calling[t] = None
  BY <1>2, LocksFacts
<1>. HIDE DEF c
<1>4. /\ Invariant' /\ Healthy(osg', c) /\ Undisturbed(osg, osg', c)
      /\ SleepOn(osg, osg', {t \in Tasks : calling[t] # None})
  <2>1. CASE (\E ms \in Delays : Delay(ms)) \/ Panic \/ Abort \/ Finish
    <3>1. Invariant' /\ Healthy(osg', c) /\ Undisturbed(osg, osg', c) /\ SleepOn(osg, osg', Tasks)
      BY <1>1, <1>2, <1>3, <2>1, ServiceStep, ServiceHealthy
    <3>. QED  BY <3>1 DEF SleepOn
  <2>2. ASSUME NEW t \in Tasks, calling[t] = None, Suspend(t) \/ Resume(t)
        PROVE  /\ Invariant' /\ Healthy(osg', c) /\ Undisturbed(osg, osg', c)
               /\ SleepOn(osg, osg', Tasks)
    BY <1>2, <1>3, <2>2, TaskStep, SuspendHealthy
  <2>3. ASSUME NEW t \in Tasks, NEW p \in StartPriorities, calling[t] = None, TaskStart(t, p)
        PROVE  /\ Invariant' /\ Healthy(osg', c) /\ Undisturbed(osg, osg', c)
               /\ SleepOn(osg, osg', Tasks \ {t})
    <3>1. Invariant'
      BY <1>2, <2>3, TaskStep
    <3>2. p # 0 /\ c[t] = None
      BY <1>2, <1>3, <2>3
    <3>. QED  BY <1>2, <2>3, <3>1, <3>2, StartHealthy
  <2>. QED  BY <1>1, <2>1, <2>2, <2>3 DEF SleepOn
<1>. QED  BY <1>1, <1>4, UnconcernedStep DEF c

\* t is inside the acquire e, or of none, and nothing else changes.
IsInside(n, t, e) == n = [calling EXCEPT ![t] = e]

\* The running task of a sound system, and the call it enters or returns from.
LEMMA CallerFacts ==
    ASSUME SafeInvariant, InTask, NEW t \in Tasks, t = osg.running,
           NEW e \in Acquires \cup {None}, NEW n, IsInside(n, t, e)
    PROVE  /\ Scheduling(osg) /\ Awake(osg) /\ osg.scheduled = None /\ osg.halted = {}
           /\ osg.status[t] = "ACTIVE" /\ osg.waits[t] = {} /\ IdleKept(osg)
           /\ n \in [Tasks -> Acquires \cup {None}]
           /\ \A u \in Tasks : n[u] = IF u = t THEN e ELSE calling[u]
           /\ Locks(n) \in Callers /\ Healthy(osg, Locks(n))
           /\ \A p \in Objects : ~Contains(osg.blocked[p], t)
<1>1. /\ Scheduling(osg) /\ Awake(osg) /\ osg.scheduled = None /\ osg.halted = {}
      /\ osg.status[t] = "ACTIVE" /\ osg.waits[t] = {} /\ t \in osg.tasks \ {osg.idle}
      /\ osg.tasks \subseteq Tasks /\ osg.state = "STARTED"
  BY SoundFacts, HealthyThread DEF InTask, InThread, LeftStatus, Kernel
<1>2. /\ IdleKept(osg) /\ Blocking(osg, Locks(calling)) /\ Locks(calling) \in Callers
      /\ calling \in [Tasks -> Acquires \cup {None}]
  BY SoundFacts DEF Healthy, Typed
<1>3. n = [calling EXCEPT ![t] = e]
  BY DEF IsInside
<1>4. \E p \in Plain \cup {None} : Locks(n) = [Locks(calling) EXCEPT ![t] = p]
  <2>1. CASE e = None
    <3>1. n \in [Tasks -> Acquires \cup {None}] /\ n = [calling EXCEPT ![t] = e]
      BY <1>2, <1>3
    <3>2. Locks(n) = [Locks(calling) EXCEPT ![t] = None]
      BY <1>2, <2>1, <3>1 DEF Locks
    <3>. QED  BY <3>2
  <2>2. CASE e # None
    <3>1. e \in Acquires /\ e.lock \in Plain
      BY <2>2, LocksPlain DEF Acquires
    <3>2. Locks(n) = [Locks(calling) EXCEPT ![t] = e.lock]
      <4>1. n \in [Tasks -> Acquires \cup {None}] /\ n = [calling EXCEPT ![t] = e]
        BY <1>2, <1>3
      <4>. QED  BY <1>2, <2>2, <4>1 DEF Locks
    <3>. QED  BY <3>1, <3>2
  <2>. QED  BY <2>1, <2>2
<1>5. /\ Locks(n) \in Callers /\ Blocking(osg, Locks(n))
      /\ \A p \in Objects : ~Contains(osg.blocked[p], t)
  <2>1. PICK p \in Plain \cup {None} : Locks(n) = [Locks(calling) EXCEPT ![t] = p]
    BY <1>4
  <2>2. PICK c \in Callers : c = Locks(calling)
    BY <1>2
  <2>3. /\ [c EXCEPT ![t] = p] \in Callers /\ Blocking(osg, [c EXCEPT ![t] = p])
        /\ \A q \in Objects : ~Contains(osg.blocked[q], t)
    BY <1>1, <1>2, <2>2, CallerKept
  <2>. QED  BY <2>1, <2>2, <2>3
<1>. QED  BY <1>1, <1>2, <1>5, <1>3 DEF Healthy

\* The running task leaves an acquire: a writer is alone.
LEMMA AcquireReturnsStep ==
    ASSUME Disciplined, SafeInvariant, AcquireReturns
    PROVE  SafeInvariant'
<1>1. PICK t \in Tasks : t = osg.running
  BY InThreadFacts, SoundFacts DEF AcquireReturns, InTask
<1>2. PICK o, mode : o = calling[t].lock /\ mode = calling[t].mode
  OBVIOUS
<1>3. PICK entered \in BOOLEAN : entered <=> osg.ret[t].status = "SUCCESS"
  OBVIOUS
<1>4. /\ InTask /\ calling[t] # None /\ calling' = [calling EXCEPT ![t] = None]
      /\ held' = IF entered THEN [held EXCEPT ![t][o][mode] = @ + 1] ELSE held
      /\ osg' = OsAssert(osg, entered /\ mode = "WRITE" =>
                                  rwlock[o].readers = 0 /\ rwlock[o].writers = 1, "service.c:299")
      /\ UNCHANGED <<rwlock, desired>>
  BY <1>1, <1>2, <1>3, Zenon DEF AcquireReturns
<1>5. /\ calling \in [Tasks -> Acquires \cup {None}] /\ held \in Numbers /\ Nesting(calling, held)
      /\ desired \in [Tasks -> Modes \cup {"NONE"}]
      /\ Fits(rwlock, Taken(osg, calling, held)) /\ Told(osg, rwlock, desired, calling)
  BY SoundFacts DEF Typed
<1>6. o \in Objects /\ mode \in Modes /\ calling[t] = [mode |-> mode, lock |-> o]
  BY <1>2, <1>4, <1>5 DEF Acquires
<1>7. PICK n : n = calling'
  OBVIOUS
<1>8. /\ n \in [Tasks -> Acquires \cup {None}] /\ Healthy(osg, Locks(n))
      /\ \A u \in Tasks : n[u] = IF u = t THEN None ELSE calling[u]
      /\ \A p \in Objects : ~Contains(osg.blocked[p], t)
  <2>1. IsInside(n, t, None) /\ InTask
    BY <1>4, <1>7 DEF IsInside
  <2>. QED  BY <1>1, <2>1, CallerFacts
<1>9. /\ \A u \in Tasks, p \in Objects, k \in Modes :
            held'[u][p][k] = held[u][p][k] + (IF u = t THEN Promised(osg, calling, u, p, k) ELSE 0)
      /\ held' \in Numbers
  <2>1. /\ \A u \in Tasks, p \in Objects, k \in Modes : held[u][p][k] \in 0 .. MaxNesting
        /\ Taken(osg, calling, held)[t][o][mode] = held[t][o][mode] + Promised(osg, calling, t, o, mode)
        /\ Taken(osg, calling, held)[t][o][mode] \in 0 .. MaxNesting
    <3>1. Taken(osg, calling, held) \in Numbers
      BY <1>5, TakenFacts
    <3>2. Taken(osg, calling, held)[t][o][mode] \in 0 .. MaxNesting
      BY <1>6, <3>1 DEF Numbers
    <3>. QED  BY <1>5, <1>6, <3>2, TakenFacts
  <2>2. \A p \in Objects, k \in Modes :
            Promised(osg, calling, t, p, k) = IF p = o /\ k = mode /\ entered THEN 1 ELSE 0
    BY <1>3, <1>6 DEF Promised
  <2>3. CASE entered
    <3>1. held' = [held EXCEPT ![t][o][mode] = @ + 1]
      BY <1>4, <2>3
    <3>2. held[t][o][mode] + 1 \in 0 .. MaxNesting
      BY <1>6, <2>1, <2>2, <2>3
    <3>3. \A u \in Tasks, p \in Objects, k \in Modes : held'[u][p][k] =
              IF u = t /\ p = o /\ k = mode THEN held[u][p][k] + 1 ELSE held[u][p][k]
      BY <1>5, <1>6, <3>1 DEF Numbers
    <3>4. held' \in Numbers
      BY <1>5, <1>6, <3>1, <3>2 DEF Numbers
    <3>. QED  BY <2>1, <2>2, <2>3, <3>3, <3>4
  <2>4. CASE ~entered
    BY <1>4, <1>5, <2>1, <2>2, <2>4
  <2>. QED  BY <2>3, <2>4
<1>10. Nesting(n, held')
  <2>1. \A u \in Tasks, p \in Objects, k \in Modes : u # t => held'[u][p][k] = held[u][p][k]
    BY <1>5, <1>9 DEF Numbers
  <2>2. \A u \in Tasks : n[u] # None => u # t /\ n[u] = calling[u] /\ n[u].lock \in Objects
    BY <1>5, <1>8, LocksFacts
  <2>. QED  BY <1>5, <2>1, <2>2 DEF Nesting, Modes
<1>11. Fits(rwlock, Taken(osg, n, held'))
  <2>1. \A u \in Tasks, p \in Objects, k \in Modes :
            Taken(osg, n, held')[u][p][k] = Taken(osg, calling, held)[u][p][k]
    <3>1. \A u \in Tasks, p \in Objects, k \in Modes :
              Promised(osg, n, u, p, k) = IF u = t THEN 0 ELSE Promised(osg, calling, u, p, k)
      <4>1. \A p \in Objects, k \in Modes : [mode |-> k, lock |-> p] # None
        BY NoAcquireAssumption DEF Acquires
      <4>. QED  BY <1>8, <4>1 DEF Promised
    <3>2. /\ \A u \in Tasks, p \in Objects, k \in Modes : Taken(osg, n, held')[u][p][k]
                = held'[u][p][k] + Promised(osg, n, u, p, k)
          /\ \A u \in Tasks, p \in Objects, k \in Modes : Taken(osg, calling, held)[u][p][k]
                = held[u][p][k] + Promised(osg, calling, u, p, k)
          /\ \A u \in Tasks, p \in Objects, k \in Modes : held[u][p][k] \in 0 .. MaxNesting
      BY <1>5, <1>8, <1>9, <1>10, TakenFacts
    <3>3. \A u \in Tasks, p \in Objects, k \in Modes : Promised(osg, calling, u, p, k) \in {0, 1}
      BY DEF Promised
    <3>. QED  BY <1>9, <3>1, <3>2, <3>3
  <2>. QED  BY <1>5, <2>1, FitsAlike
<1>12. osg' = osg
  <2>1. ASSUME entered, mode = "WRITE" PROVE rwlock[o].readers = 0 /\ rwlock[o].writers = 1
    <3>1. Taken(osg, calling, held)[t][o]["WRITE"] > 0
      <4>1. Promised(osg, calling, t, o, "WRITE") = 1
        BY <1>3, <1>6, <2>1 DEF Promised
      <4>. QED  BY <1>5, <1>6, <2>1, <4>1, TakenFacts
    <3>2. Sane(rwlock[o]) /\ Counts(rwlock[o], Taken(osg, calling, held), o)
      BY <1>5, <1>6 DEF Fits
    <3>3. rwlock[o].writers > 0
      BY <3>1, <3>2 DEF Counts
    <3>. QED  BY <3>2, <3>3 DEF Sane
  <2>. QED  BY <1>4, <2>1 DEF OsAssert
<1>13. Told(osg, rwlock, desired, n)
  BY <1>5, <1>8 DEF Told
<1>14. Sound(osg, rwlock, desired, n, held')
  BY <1>5, <1>8, <1>9, <1>10, <1>11, <1>13 DEF Sound, Typed
<1>15. Invariant'
  BY <1>12, SoundFacts, StutterStep
<1>. QED  BY <1>4, <1>7, <1>12, <1>14, <1>15 DEF SafeInvariant

\* A service call that only returns to its caller.
LEMMA ReturnsFacts ==
    ASSUME SafeInvariant, InTask, NEW t \in Tasks, t = osg.running, NEW n, Healthy(osg, n),
           NEW result \in Return, osg' = SvcReturn(osg, t, result)
    PROVE  /\ Healthy(osg', n) /\ Invariant' /\ osg'.blocked = osg.blocked
           /\ osg'.status = osg.status /\ osg'.delay = osg.delay
           /\ osg'.ret = [osg.ret EXCEPT ![t] = result]
<1>1. /\ Scheduling(osg) /\ Awake(osg) /\ osg.scheduled = None /\ osg.halted = {}
      /\ osg.status[osg.running] \in LeftStatus \cup {"ACTIVE"}
      /\ IdleKept(osg) /\ Blocking(osg, n)
  BY SoundFacts, HealthyThread DEF Healthy, InTask
<1>2. /\ Healthy(osg', n) /\ Scheduling(osg') /\ Awake(osg')
      /\ osg'.blocked = osg.blocked /\ osg'.status = osg.status /\ osg'.delay = osg.delay
      /\ osg'.ret = [osg.ret EXCEPT ![t] = result]
  BY <1>1, ReturnHealthy
<1>3. Invariant'
  BY <1>2 DEF Invariant, Scheduling
<1>. QED  BY <1>2, <1>3

\* t is told what code says.
IsTold(gn, t, code) == gn.ret = [osg.ret EXCEPT ![t] = Returning(code)]

\* What is taken once t is inside its acquire.
LEMMA AcquireTaken ==
    ASSUME SafeInvariant, NEW t \in Tasks, NEW o \in Objects, NEW mode \in Modes,
           calling[t] = None, held[t][o]["READ"] + held[t][o]["WRITE"] < MaxNesting,
           NEW n, IsInside(n, t, [mode |-> mode, lock |-> o]),
           NEW code \in Codes, NEW gn, IsTold(gn, t, code)
    PROVE  /\ Nesting(n, held) /\ n \in [Tasks -> Acquires \cup {None}]
           /\ Taken(osg, calling, held) \in Numbers /\ Taken(gn, n, held) \in Numbers
           /\ code = "SUCCESS" =>
                  OneMore(Taken(osg, calling, held), Taken(gn, n, held), t, o, mode)
           /\ code # "SUCCESS" =>
                  \A u \in Tasks, p \in Objects, k \in Modes :
                      Taken(gn, n, held)[u][p][k] = Taken(osg, calling, held)[u][p][k]
<1>1. /\ calling \in [Tasks -> Acquires \cup {None}] /\ held \in Numbers /\ Nesting(calling, held)
      /\ osg.ret \in [Tasks -> Return]
  BY SoundFacts DEF Typed
<1>2. PICK e \in Acquires : e = [mode |-> mode, lock |-> o]
  BY DEF Acquires
<1>3. e # None /\ e.mode = mode /\ e.lock = o
  BY <1>2, NoAcquireAssumption
<1>4. /\ n \in [Tasks -> Acquires \cup {None}]
      /\ \A u \in Tasks : n[u] = IF u = t THEN e ELSE calling[u]
  BY <1>1, <1>2 DEF IsInside
<1>5. Nesting(n, held)
  BY <1>1, <1>3, <1>4 DEF Nesting
<1>6. \A u \in Tasks : gn.ret[u] = IF u = t THEN Returning(code) ELSE osg.ret[u]
  BY <1>1 DEF IsTold
<1>7. Returning(code).status = code
  BY DEF Returning
<1>8. \A u \in Tasks, p \in Objects, k \in Modes :
          /\ Promised(gn, n, u, p, k) = IF u = t /\ p = o /\ k = mode /\ code = "SUCCESS" THEN 1
                                        ELSE Promised(osg, calling, u, p, k)
          /\ Promised(osg, calling, u, p, k) \in {0, 1}
          /\ u = t => Promised(osg, calling, u, p, k) = 0
  <2>. SUFFICES ASSUME NEW u \in Tasks, NEW p \in Objects, NEW k \in Modes
                PROVE  /\ Promised(gn, n, u, p, k)
                             = IF u = t /\ p = o /\ k = mode /\ code = "SUCCESS" THEN 1
                               ELSE Promised(osg, calling, u, p, k)
                       /\ Promised(osg, calling, u, p, k) \in {0, 1}
                       /\ u = t => Promised(osg, calling, u, p, k) = 0
    OBVIOUS
  <2>1. PICK f \in Acquires : f = [mode |-> k, lock |-> p]
    BY DEF Acquires
  <2>2. f # None /\ (f = e <=> p = o /\ k = mode)
    BY <1>2, <2>1, NoAcquireAssumption
  <2>3. Promised(gn, n, u, p, k) = IF n[u] = f /\ gn.ret[u].status = "SUCCESS" THEN 1 ELSE 0
    BY <2>1 DEF Promised
  <2>4. Promised(osg, calling, u, p, k)
          = IF calling[u] = f /\ osg.ret[u].status = "SUCCESS" THEN 1 ELSE 0
    BY <2>1 DEF Promised
  <2>. QED  BY <1>4, <1>6, <1>7, <2>2, <2>3, <2>4
<1>9. /\ Taken(osg, calling, held) \in Numbers /\ Taken(gn, n, held) \in Numbers
      /\ \A u \in Tasks, p \in Objects, k \in Modes :
             /\ Taken(gn, n, held)[u][p][k] = held[u][p][k] + Promised(gn, n, u, p, k)
             /\ Taken(osg, calling, held)[u][p][k]
                    = held[u][p][k] + Promised(osg, calling, u, p, k)
             /\ held[u][p][k] \in 0 .. MaxNesting
  BY <1>1, <1>4, <1>5, TakenFacts
<1>10. \A u \in Tasks, p \in Objects, k \in Modes :
           Taken(gn, n, held)[u][p][k] =
               IF u = t /\ p = o /\ k = mode /\ code = "SUCCESS"
               THEN Taken(osg, calling, held)[u][p][k] + 1
               ELSE Taken(osg, calling, held)[u][p][k]
  BY <1>8, <1>9
<1>. QED  BY <1>4, <1>5, <1>9, <1>10 DEF OneMore

\* The cases of osi_rwlock_acquire_read and osi_rwlock_acquire_write.
AcquireCase(t, o, mode, to) ==
    LET r == rwlock[o]
    IN  \/ /\ CanEnter(r, mode)
           /\ rwlock' = [rwlock EXCEPT ![o] = Entered(r, mode, t)]
           /\ osg' = SvcReturn(osg, t, Returning("SUCCESS"))
           /\ desired' = desired
        \/ /\ ~CanEnter(r, mode) /\ to = 0
           /\ rwlock' = rwlock
           /\ osg' = SvcReturn(osg, t, Returning("TO"))
           /\ desired' = desired
        \/ /\ ~CanEnter(r, mode) /\ to # 0
           /\ rwlock' = rwlock
           /\ osg' = SvcReturn(SvcBlock(BlockedAppend(osg, o, t), to, "rwlock"),
                               t, Returning("TO"))
           /\ desired' = Desiring([desired EXCEPT ![t] = mode], osg')

\* The task that acquires, of a sound system: the assertion of rwlock.c:42.
LEMMA AcquireCases ==
    ASSUME SafeInvariant, NEW o \in Objects, NEW mode \in Modes, NEW to, Acquire(o, mode, to),
           NEW t \in Tasks, t = osg.running
    PROVE  /\ InTask /\ calling[t] = None /\ held[t][o]["READ"] + held[t][o]["WRITE"] < MaxNesting
           /\ IsInside(calling', t, [mode |-> mode, lock |-> o]) /\ held' = held
           /\ [mode |-> mode, lock |-> o] \in Acquires
           /\ AcquireCase(t, o, mode, to)
<1>1. /\ InTask /\ calling[t] = None /\ held[t][o]["READ"] + held[t][o]["WRITE"] < MaxNesting
      /\ IsInside(calling', t, [mode |-> mode, lock |-> o]) /\ held' = held
  BY DEF Acquire, AtACall, IsInside
<1>2. osg.waits[t] = {}
  BY <1>1, SoundFacts, HealthyThread DEF InTask
<1>3. OsAssert(osg, osg.waits[t] \subseteq {o}, "rwlock.c:42") = osg
  BY <1>2 DEF OsAssert
<1>4. AcquireCase(t, o, mode, to)
  <2>1. rwlock \in [Objects -> [readers: Nat, writers: 0 .. 1, writer: Tasks \cup {None}]]
    BY SoundFacts DEF Fits
  <2>2. [rwlock EXCEPT ![o] = Entered(@, mode, t)]
            = [rwlock EXCEPT ![o] = Entered(rwlock[o], mode, t)]
    BY <2>1
  <2>. QED  BY <1>3, <2>2, Zenon DEF Acquire, AcquireCase
<1>5. [mode |-> mode, lock |-> o] \in Acquires
  BY DEF Acquires
<1>. QED  BY <1>1, <1>4, <1>5

\* The acquires that do not block.
LEMMA AcquiredAtOnce ==
    ASSUME Disciplined, SafeInvariant, InTask, NEW t \in Tasks, t = osg.running,
           NEW o \in Objects, NEW mode \in Modes, NEW n, n = calling',
           calling[t] = None, held[t][o]["READ"] + held[t][o]["WRITE"] < MaxNesting,
           IsInside(n, t, [mode |-> mode, lock |-> o]), held' = held, desired' = desired,
           [mode |-> mode, lock |-> o] \in Acquires,
           NEW code \in Codes, osg' = SvcReturn(osg, t, Returning(code)),
           Fits(rwlock', Taken(osg', n, held)),
           \A p \in Objects : rwlock[p].readers + rwlock[p].writers > 0
                                  => rwlock'[p].readers + rwlock'[p].writers > 0
    PROVE  SafeInvariant'
<1>1. /\ desired \in [Tasks -> Modes \cup {"NONE"}] /\ held \in Numbers
      /\ Told(osg, rwlock, desired, calling) /\ osg.ret \in [Tasks -> Return]
  BY SoundFacts DEF Typed
<1>2. PICK e \in Acquires \cup {None} : e = [mode |-> mode, lock |-> o]
  OBVIOUS
<1>3. /\ Healthy(osg, Locks(n)) /\ n \in [Tasks -> Acquires \cup {None}]
      /\ \A u \in Tasks : n[u] = IF u = t THEN e ELSE calling[u]
      /\ \A p \in Objects : ~Contains(osg.blocked[p], t)
  <2>1. IsInside(n, t, e)
    BY <1>2
  <2>. QED  BY <2>1, CallerFacts
<1>4. /\ Healthy(osg', Locks(n)) /\ Invariant' /\ osg'.blocked = osg.blocked
      /\ osg'.status = osg.status /\ osg'.delay = osg.delay
      /\ osg'.ret = [osg.ret EXCEPT ![t] = Returning(code)]
  <2>1. Returning(code) \in Return
    BY DEF Returning, Return
  <2>. QED  BY <1>3, <2>1, ReturnsFacts
<1>5. Nesting(n, held)
  BY <1>4, AcquireTaken DEF IsTold
<1>6. Told(osg', rwlock', desired, n)
  <2>. SUFFICES ASSUME NEW p \in Objects, NEW u \in Tasks, Contains(osg.blocked[p], u)
                PROVE  /\ n[u] = [mode |-> desired[u], lock |-> p] /\ osg'.ret[u].status = "TO"
                       /\ desired[u] = "READ" => osg.status[u] = "WAIT" /\ osg.delay[u] = Forever
                       /\ rwlock'[p].readers + rwlock'[p].writers > 0
    BY <1>4 DEF Told
  <2>1. u # t /\ n[u] = calling[u]
    BY <1>3
  <2>2. osg'.ret[u] = osg.ret[u]
    BY <1>1, <1>4, <2>1
  <2>. QED  BY <1>1, <2>1, <2>2 DEF Told
<1>. QED  BY <1>1, <1>3, <1>4, <1>5, <1>6 DEF SafeInvariant, Sound, Typed

\* The lists once t has joined that of o: nobody else is new.
Joins(g, h, o, t) ==
    /\ g.blocked \in [Objects -> Seq(Tasks)] /\ NoDuplicates(g.blocked[o])
    /\ ~Contains(g.blocked[o], t) /\ JoinsAndOneLeaves(g, h, o, t)

\* Nobody else has come.
LEMMA JoinedFacts ==
    ASSUME NEW g, NEW h, NEW o \in Objects, NEW t \in Tasks, Joins(g, h, o, t)
    PROVE  \A p \in Objects, u \in Tasks :
               Contains(h.blocked[p], u) => Contains(g.blocked[p], u) \/ (p = o /\ u = t)
<1>. SUFFICES ASSUME NEW p \in Objects, NEW u \in Tasks, Contains(h.blocked[p], u)
              PROVE  Contains(g.blocked[p], u) \/ (p = o /\ u = t)
  OBVIOUS
<1>0. /\ g.blocked \in [Objects -> Seq(Tasks)] /\ NoDuplicates(g.blocked[o])
      /\ ~Contains(g.blocked[o], t) /\ JoinsAndOneLeaves(g, h, o, t)
  BY DEF Joins
<1>1. CASE p = o
  <2>1. PICK q : q = Append(g.blocked[o], t)
    OBVIOUS
  <2>2. q \in Seq(Tasks) /\ \A v \in Tasks : Contains(q, v) <=> Contains(g.blocked[o], v) \/ v = t
    BY <1>0, <2>1, AppendFacts
  <2>3. h.blocked[o] \in {q} \cup {RemoveAt(q, i) : i \in 1 .. Len(q)}
    BY <1>0, <2>1, Zenon DEF JoinsAndOneLeaves
  <2>4. Contains(h.blocked[o], u)
    BY <1>1
  <2>5. Contains(q, u)
    BY <2>2, <2>3, <2>4, LeavingFacts
  <2>. QED  BY <1>1, <2>2, <2>5
<1>2. CASE p # o
  <2>1. /\ h.blocked[p] \in {g.blocked[p]} \cup
                               {RemoveAt(g.blocked[p], i) : i \in 1 .. Len(g.blocked[p])}
        /\ g.blocked[p] \in Seq(Tasks)
    BY <1>0, <1>2 DEF JoinsAndOneLeaves
  <2>. QED  BY <2>1, LeavingFacts
<1>. QED  BY <1>1, <1>2

\* A task that enters an acquire and blocks: a reader only for ever.
LEMMA AcquireBlocks ==
    ASSUME Disciplined, SafeInvariant, InTask, NEW t \in Tasks, t = osg.running,
           NEW o \in Objects, NEW mode \in Modes, NEW n, n = calling',
           calling[t] = None, held[t][o]["READ"] + held[t][o]["WRITE"] < MaxNesting,
           IsInside(n, t, [mode |-> mode, lock |-> o]), held' = held, rwlock' = rwlock,
           [mode |-> mode, lock |-> o] \in Acquires, ~CanEnter(rwlock[o], mode),
           NEW to \in 0 .. Forever, to # 0, mode = "READ" => to = Forever,
           osg' = SvcReturn(SvcBlock(BlockedAppend(osg, o, t), to, "rwlock"), t, Returning("TO")),
           desired' = Desiring([desired EXCEPT ![t] = mode], osg')
    PROVE  SafeInvariant'
<1>1. /\ desired \in [Tasks -> Modes \cup {"NONE"}] /\ held \in Numbers
      /\ calling \in [Tasks -> Acquires \cup {None}]
      /\ Told(osg, rwlock, desired, calling) /\ osg.ret \in [Tasks -> Return]
      /\ osg.blocked \in [Objects -> Seq(Tasks)] /\ NoDuplicates(osg.blocked[o])
      /\ Fits(rwlock, Taken(osg, calling, held)) /\ Kind[o] = "rwlock" /\ o \in Plain
      /\ Healthy(osg, Locks(calling)) /\ Locks(calling) \in Callers /\ Invariant
  BY SoundFacts, LocksPlain DEF Typed
<1>2. PICK e \in Acquires \cup {None} : e = [mode |-> mode, lock |-> o]
  OBVIOUS
<1>3. /\ n \in [Tasks -> Acquires \cup {None}]
      /\ \A u \in Tasks : n[u] = IF u = t THEN e ELSE calling[u]
      /\ \A p \in Objects : ~Contains(osg.blocked[p], t)
  <2>1. IsInside(n, t, e)
    BY <1>2
  <2>. QED  BY <2>1, CallerFacts
<1>4. Locks(n) = [Locks(calling) EXCEPT ![t] = o]
  <2>1. e # None /\ e.lock = o
    BY <1>2, NoAcquireAssumption
  <2>2. n = [calling EXCEPT ![t] = e]
    BY <1>2 DEF IsInside
  <2>3. Locks(n) = [Locks(calling) EXCEPT ![t] = e.lock]
    BY <1>1, <2>1, <2>2 DEF Locks
  <2>. QED  BY <2>1, <2>3
<1>5. /\ Healthy(osg', Locks(n)) /\ Scheduling(osg') /\ Awake(osg')
      /\ osg'.ret = [osg.ret EXCEPT ![t] = Returning("TO")]
      /\ JoinsAndOneLeaves(osg, osg', o, t) /\ SleepOn(osg, osg', Tasks)
      /\ osg'.status[t] = "WAIT" /\ osg'.delay[t] = to
  <2>1. PICK c \in Callers : c = Locks(calling)
    BY <1>1
  <2>2. /\ c[t] = None /\ Healthy(osg, c) /\ Returning("TO") \in Return
        /\ Invariant /\ o \in Plain
    BY <1>1, <2>1, LocksFacts DEF Returning, Return, Codes
  <2>3. BlocksOn(t, o, to, Returning("TO"))
    BY <1>1 DEF BlocksOn
  <2>4. /\ Healthy(osg', [c EXCEPT ![t] = o]) /\ Scheduling(osg') /\ Awake(osg')
        /\ osg'.ret = [osg.ret EXCEPT ![t] = Returning("TO")]
        /\ JoinsAndOneLeaves(osg, osg', o, t) /\ SleepOn(osg, osg', Tasks)
        /\ osg'.status[t] = "WAIT" /\ osg'.delay[t] = to
    BY <2>2, <2>3, BlockHealthy, SMTT(40)
  <2>. QED  BY <1>4, <2>1, <2>4
<1>6. Invariant'
  BY <1>5 DEF Invariant, Scheduling
<1>7. Nesting(n, held) /\ Fits(rwlock, Taken(osg', n, held))
  <2>1. IsTold(osg', t, "TO") /\ "TO" \in Codes
    BY <1>5 DEF IsTold, Codes
  <2>2. /\ Nesting(n, held)
        /\ \A u \in Tasks, p \in Objects, k \in Modes :
               Taken(osg', n, held)[u][p][k] = Taken(osg, calling, held)[u][p][k]
    BY <2>1, AcquireTaken
  <2>. QED  BY <1>1, <2>2, FitsAlike
<1>8. /\ desired' \in [Tasks -> Modes \cup {"NONE"}]
      /\ \A p \in Objects, u \in Tasks : Contains(osg'.blocked[p], u) =>
             desired'[u] = IF u = t THEN mode ELSE desired[u]
  <2>1. PICK d \in [Tasks -> Modes \cup {"NONE"}] : d = [desired EXCEPT ![t] = mode]
    BY <1>1
  <2>2. /\ Desiring(d, osg') \in [Tasks -> Modes \cup {"NONE"}]
        /\ \A p \in Objects, u \in Tasks : Contains(osg'.blocked[p], u) => Desiring(d, osg')[u] = d[u]
    BY <1>5, DesiringFacts DEF Healthy, Blocking
  <2>. QED  BY <1>1, <2>1, <2>2
<1>9. rwlock[o].readers + rwlock[o].writers > 0
  <2>1. rwlock[o].readers \in Nat /\ rwlock[o].writers \in 0 .. 1
    BY <1>1 DEF Fits
  <2>. QED  BY <2>1 DEF CanEnter
<1>10. Told(osg', rwlock, desired', n)
  <2>. SUFFICES ASSUME NEW p \in Objects, NEW u \in Tasks, Contains(osg'.blocked[p], u)
                PROVE  /\ n[u] = [mode |-> desired'[u], lock |-> p] /\ osg'.ret[u].status = "TO"
                       /\ desired'[u] = "READ" => osg'.status[u] = "WAIT" /\ osg'.delay[u] = Forever
                       /\ rwlock[p].readers + rwlock[p].writers > 0
    BY DEF Told
  <2>1. Contains(osg.blocked[p], u) \/ (p = o /\ u = t)
    <3>1. Joins(osg, osg', o, t)
      BY <1>1, <1>3, <1>5 DEF Joins
    <3>. QED  BY <3>1, JoinedFacts
  <2>2. CASE Contains(osg.blocked[p], u)
    <3>1. u # t /\ n[u] = calling[u] /\ desired'[u] = desired[u]
      BY <1>3, <1>8, <2>2
    <3>2. osg'.ret[u] = osg.ret[u]
      BY <1>1, <1>5, <3>1
    <3>. QED  BY <1>1, <1>5, <2>2, <3>1, <3>2 DEF Told, SleepOn, Disciplined
  <2>3. CASE p = o /\ u = t
    <3>1. osg'.ret[t].status = "TO"
      BY <1>1, <1>5 DEF Returning
    <3>. QED  BY ZenonT(40), <1>2, <1>3, <1>5, <1>8, <1>9, <2>3, <3>1
  <2>. QED  BY <2>1, <2>2, <2>3
<1>. QED  BY <1>1, <1>3, <1>5, <1>6, <1>7, <1>8, <1>10 DEF SafeInvariant, Sound, Typed

\* osi_rwlock_acquire_read and osi_rwlock_acquire_write.
LEMMA AcquireStep ==
    ASSUME Disciplined, SafeInvariant, NEW o \in Objects, NEW mode \in Modes,
           NEW to \in 0 .. Forever, mode = "READ" => to \in {0, Forever}, Acquire(o, mode, to)
    PROVE  SafeInvariant'
<1>1. PICK t \in Tasks : t = osg.running
  BY InThreadFacts, SoundFacts DEF Acquire, InTask
<1>2. PICK n : n = calling'
  OBVIOUS
<1>3. /\ InTask /\ calling[t] = None /\ held[t][o]["READ"] + held[t][o]["WRITE"] < MaxNesting
      /\ IsInside(n, t, [mode |-> mode, lock |-> o]) /\ held' = held
      /\ [mode |-> mode, lock |-> o] \in Acquires
      /\ AcquireCase(t, o, mode, to)
  BY <1>1, <1>2, AcquireCases
<1>4. /\ Fits(rwlock, Taken(osg, calling, held)) /\ Returning("SUCCESS") \in Return
      /\ Returning("TO") \in Return /\ "SUCCESS" \in Codes /\ "TO" \in Codes
  BY SoundFacts DEF Returning, Return, Codes
<1>5. ASSUME NEW code \in Codes, osg' = SvcReturn(osg, t, Returning(code))
      PROVE  IsTold(osg', t, code)
  <2>1. /\ Scheduling(osg) /\ Awake(osg) /\ osg.scheduled = None /\ osg.halted = {}
        /\ osg.status[osg.running] \in LeftStatus \cup {"ACTIVE"}
        /\ IdleKept(osg) /\ Blocking(osg, Locks(calling))
    BY <1>3, SoundFacts, HealthyThread DEF Healthy, InTask
  <2>2. Returning(code) \in Return
    BY DEF Returning, Return
  <2>. QED  BY <1>5, <2>1, <2>2, ReturnHealthy DEF IsTold
<1>6. CASE /\ CanEnter(rwlock[o], mode)
           /\ rwlock' = [rwlock EXCEPT ![o] = Entered(rwlock[o], mode, t)]
           /\ osg' = SvcReturn(osg, t, Returning("SUCCESS")) /\ desired' = desired
  <2>1. IsTold(osg', t, "SUCCESS")
    BY <1>4, <1>5, <1>6
  <2>2. /\ Taken(osg, calling, held) \in Numbers /\ Taken(osg', n, held) \in Numbers
        /\ OneMore(Taken(osg, calling, held), Taken(osg', n, held), t, o, mode)
    BY <1>3, <1>4, <2>1, AcquireTaken
  <2>3. Fits(rwlock', Taken(osg', n, held)) /\ rwlock'[o].readers + rwlock'[o].writers > 0
    <3>1. EntersLock(rwlock, rwlock', Taken(osg, calling, held), Taken(osg', n, held), t, o, mode)
      BY <1>4, <1>6, <2>2 DEF EntersLock
    <3>. QED  BY <2>2, <3>1, FitsEnter
  <2>4. \A p \in Objects : rwlock[p].readers + rwlock[p].writers > 0
                               => rwlock'[p].readers + rwlock'[p].writers > 0
    <3>1. \A p \in Objects : p # o => rwlock'[p] = rwlock[p]
      BY <1>4, <1>6 DEF Fits
    <3>. QED  BY <2>3, <3>1
  <2>5. osg' = SvcReturn(osg, t, Returning("SUCCESS")) /\ desired' = desired
    BY <1>6
  <2>. HIDE <1>6
  <2>. QED  BY <1>1, <1>2, <1>3, <1>4, <2>3, <2>4, <2>5, AcquiredAtOnce
<1>7. CASE /\ ~CanEnter(rwlock[o], mode) /\ to = 0 /\ rwlock' = rwlock
           /\ osg' = SvcReturn(osg, t, Returning("TO")) /\ desired' = desired
  <2>1. IsTold(osg', t, "TO")
    BY <1>4, <1>5, <1>7
  <2>2. \A u \in Tasks, p \in Objects, k \in Modes :
            Taken(osg', n, held)[u][p][k] = Taken(osg, calling, held)[u][p][k]
    BY <1>3, <1>4, <2>1, AcquireTaken
  <2>3. Fits(rwlock', Taken(osg', n, held))
    BY <1>4, <1>7, <2>2, FitsAlike
  <2>. QED  BY <1>1, <1>2, <1>3, <1>4, <1>7, <2>3, AcquiredAtOnce
<1>8. CASE /\ ~CanEnter(rwlock[o], mode) /\ to # 0 /\ rwlock' = rwlock
           /\ osg' = SvcReturn(SvcBlock(BlockedAppend(osg, o, t), to, "rwlock"),
                               t, Returning("TO"))
           /\ desired' = Desiring([desired EXCEPT ![t] = mode], osg')
  <2>1. mode = "READ" => to = Forever
    BY <1>8
  <2>. QED  BY <1>1, <1>2, <1>3, <1>8, <2>1, AcquireBlocks
<1>. QED  BY <1>3, <1>6, <1>7, <1>8 DEF AcquireCase

-----------------------------------------------------------------------------

\* An acquire of t is given back.
LessHeld(h, t, o, mode) == h = [held EXCEPT ![t][o][mode] = @ - 1]

\* What is taken has one acquire less.
LEMMA GivenFacts ==
    ASSUME SafeInvariant, NEW t \in Tasks, NEW o \in Objects, NEW mode \in Modes,
           calling[t] = None, held[t][o][mode] > 0, NEW h, LessHeld(h, t, o, mode)
    PROVE  /\ h \in Numbers /\ Nesting(calling, h)
           /\ Taken(osg, calling, held) \in Numbers /\ Taken(osg, calling, h) \in Numbers
           /\ OneMore(Taken(osg, calling, h), Taken(osg, calling, held), t, o, mode)
<1>1. /\ calling \in [Tasks -> Acquires \cup {None}] /\ held \in Numbers /\ Nesting(calling, held)
      /\ MaxNesting \in Nat
  BY SoundFacts, NestingAssumption DEF Typed
<1>2. \A u \in Tasks, p \in Objects, k \in Modes : held[u][p][k] \in 0 .. MaxNesting
  BY <1>1 DEF Numbers
<1>3. held[t][o][mode] - 1 \in 0 .. MaxNesting
  BY <1>1, <1>2
<1>4. \A u \in Tasks, p \in Objects, k \in Modes : h[u][p][k] =
          IF u = t /\ p = o /\ k = mode THEN held[u][p][k] - 1 ELSE held[u][p][k]
  BY <1>1 DEF Numbers, LessHeld
<1>5. h \in Numbers
  BY <1>1, <1>3 DEF Numbers, LessHeld
<1>6. Nesting(calling, h)
  <2>1. \A u \in Tasks : calling[u] # None => u # t /\ calling[u].lock \in Objects
    BY <1>1, LocksFacts
  <2>. QED  BY <1>1, <1>4, <2>1 DEF Nesting, Modes
<1>7. /\ Taken(osg, calling, held) \in Numbers /\ Taken(osg, calling, h) \in Numbers
      /\ \A u \in Tasks, p \in Objects, k \in Modes :
             /\ Taken(osg, calling, h)[u][p][k] = h[u][p][k] + Promised(osg, calling, u, p, k)
             /\ Taken(osg, calling, held)[u][p][k]
                    = held[u][p][k] + Promised(osg, calling, u, p, k)
  BY <1>1, <1>5, <1>6, TakenFacts
<1>8. \A u \in Tasks, p \in Objects, k \in Modes : Promised(osg, calling, u, p, k) \in {0, 1}
  BY DEF Promised
<1>9. OneMore(Taken(osg, calling, h), Taken(osg, calling, held), t, o, mode)
  BY <1>2, <1>4, <1>7, <1>8 DEF OneMore
<1>. QED  BY <1>5, <1>6, <1>7, <1>9

\* What a release makes of its lock before it lets somebody in.
Vacated(o) == [rwlock EXCEPT ![o] = Left(rwlock[o])]

WriterNext(o) ==
    /\ osg.blocked[o] # <<>> /\ Left(rwlock[o]).readers = 0
    /\ desired[Head(osg.blocked[o])] = "WRITE"

\* The cases of osi_rwlock_release: it finds nobody to let in, or f.
LetsNobodyIn(t, o) ==
    /\ ~WriterNext(o) /\ FirstReader(o) = None
    /\ rwlock' = Vacated(o) /\ desired' = desired
    /\ osg' = SvcReturn(osg, t, Returning("SUCCESS"))

LettingIn(x, o, f) ==
    \/ /\ desired[f] = "WRITE" /\ Left(rwlock[o]).readers = 0
       /\ x = DispatchOrQueue(Unlisted(osg, o, f), f)
    \/ /\ desired[f] = "READ"
       /\ x = StatusSet(Unlisted(osg, o, f), f, "IDLE")

LetsIn(t, o, f) ==
    /\ Contains(osg.blocked[o], f)
    /\ rwlock' = [rwlock EXCEPT ![o] = Entered(Left(rwlock[o]), desired[f], f)]
    /\ desired' = Desiring([desired EXCEPT ![f] = "NONE"], osg')
    /\ \E x : LettingIn(x, o, f) /\ osg' = SvcReturn(x, t, Returning("SUCCESS"))

\* t gives o back: what holds then.
GivesBack(t, o, mode, h) ==
    /\ InTask /\ calling[t] = None /\ h \in Numbers /\ Nesting(calling, h)
    /\ Taken(osg, calling, h) \in Numbers /\ Fits(Vacated(o), Taken(osg, calling, h))
    /\ \A p \in Objects : p # o => Vacated(o)[p] = rwlock[p]
    /\ LeftBy(rwlock[o], Vacated(o)[o], t)

\* That is what a release does first.
LEMMA GivesBackFacts ==
    ASSUME SafeInvariant, InTask, NEW t \in Tasks, NEW o \in Objects, NEW mode \in Modes,
           calling[t] = None, held[t][o][mode] > 0, NEW h, LessHeld(h, t, o, mode)
    PROVE  GivesBack(t, o, mode, h)
<1>1. /\ h \in Numbers /\ Nesting(calling, h)
      /\ Taken(osg, calling, held) \in Numbers /\ Taken(osg, calling, h) \in Numbers
      /\ OneMore(Taken(osg, calling, h), Taken(osg, calling, held), t, o, mode)
  BY GivenFacts
<1>2. PICK n \in Numbers, m \in Numbers :
          n = Taken(osg, calling, held) /\ m = Taken(osg, calling, h)
  BY <1>1
<1>3. PICK v : v = Vacated(o)
  OBVIOUS
<1>4. LeavesLock(rwlock, v, n, m, t, o, mode)
  BY <1>1, <1>2, <1>3, SoundFacts DEF LeavesLock, Vacated
<1>5. Fits(v, m) /\ LeftBy(rwlock[o], v[o], t) /\ \A p \in Objects : p # o => v[p] = rwlock[p]
  BY <1>4, FitsLeave
<1>. QED  BY <1>1, <1>2, <1>3, <1>5 DEF GivesBack

\* The task that releases, of a sound system.
LEMMA ReleaseCases ==
    ASSUME SafeInvariant, NEW o \in Objects, Release(o), NEW t \in Tasks, t = osg.running
    PROVE  /\ calling' = calling
           /\ \E mode \in Modes : GivesBack(t, o, mode, held')
           /\ LetsNobodyIn(t, o) \/ \E f \in Tasks : LetsIn(t, o, f)
<1>1. PICK mode \in Modes : mode = IF held[t][o]["READ"] > 0 THEN "READ" ELSE "WRITE"
  BY DEF Modes
<1>2. /\ InTask /\ calling[t] = None /\ held[t][o][mode] > 0 /\ LessHeld(held', t, o, mode)
      /\ calling' = calling
  BY <1>1, Zenon DEF Release, AtACall, LessHeld
<1>3. GivesBack(t, o, mode, held')
  BY <1>2, GivesBackFacts
<1>4. /\ osg.blocked[o] \in Seq(Tasks) /\ None \notin Tasks
      /\ desired \in [Tasks -> Modes \cup {"NONE"}]
  BY SoundFacts, NoneAssumption DEF Typed
<1>5. OsAssert(osg, rwlock[o].readers > 0 \/ rwlock[o].writers = 1, "rwlock.c:88") = osg
  BY <1>3 DEF GivesBack, LeftBy, OsAssert
<1>6. OsAssert(osg, rwlock[o].writers > 0 => rwlock[o].writer = t, "rwlock.c:95") = osg
  BY <1>3 DEF GivesBack, LeftBy, OsAssert
<1>7. PICK next : next = IF WriterNext(o) THEN Head(osg.blocked[o]) ELSE FirstReader(o)
  OBVIOUS
<1>8. \/ /\ next = None
         /\ rwlock' = [rwlock EXCEPT ![o] = Left(rwlock[o])]
         /\ osg' = SvcReturn(osg, t, Returning("SUCCESS"))
         /\ UNCHANGED desired
      \/ /\ next # None
         /\ rwlock' = [rwlock EXCEPT ![o] = Entered(Left(rwlock[o]), desired[next], next)]
         /\ osg' = SvcReturn(IF WriterNext(o) THEN DispatchOrQueue(Unlisted(osg, o, next), next)
                             ELSE StatusSet(Unlisted(osg, o, next), next, "IDLE"),
                             t, Returning("SUCCESS"))
         /\ desired' = Desiring([desired EXCEPT ![next] = "NONE"], osg')
  BY <1>5, <1>6, <1>7, Zenon DEF Release, WriterNext
<1>9. WriterNext(o) => next \in Tasks /\ Contains(osg.blocked[o], next) /\ desired[next] = "WRITE"
  BY <1>4, <1>7 DEF WriterNext, Contains
<1>10. /\ next = None => ~WriterNext(o) /\ FirstReader(o) = None
       /\ next # None /\ ~WriterNext(o) =>
              next \in Tasks /\ Contains(osg.blocked[o], next) /\ desired[next] = "READ"
  <2>1. \/ FirstReader(o) = None
        \/ /\ FirstReader(o) \in Tasks \cap {u \in Tasks : desired[u] = "READ"}
           /\ Contains(osg.blocked[o], FirstReader(o))
    BY <1>4, FirstOfFacts DEF FirstReader
  <2>. QED  BY <1>4, <1>7, <1>9, <2>1
<1>11. ASSUME next = None PROVE LetsNobodyIn(t, o)
  <2>1. /\ rwlock' = Vacated(o) /\ osg' = SvcReturn(osg, t, Returning("SUCCESS"))
        /\ desired' = desired
    BY <1>8, <1>11 DEF Vacated
  <2>. QED  BY <1>10, <1>11, <2>1 DEF LetsNobodyIn
<1>12. ASSUME next # None PROVE \E f \in Tasks : LetsIn(t, o, f)
  <2>1. next \in Tasks /\ Contains(osg.blocked[o], next)
    BY <1>9, <1>10, <1>12
  <2>2. PICK x : x = IF WriterNext(o) THEN DispatchOrQueue(Unlisted(osg, o, next), next)
                     ELSE StatusSet(Unlisted(osg, o, next), next, "IDLE")
    OBVIOUS
  <2>3. LettingIn(x, o, next)
    BY <1>9, <1>10, <1>12, <2>2, Zenon DEF LettingIn, WriterNext
  <2>4. /\ rwlock' = [rwlock EXCEPT ![o] = Entered(Left(rwlock[o]), desired[next], next)]
        /\ osg' = SvcReturn(x, t, Returning("SUCCESS"))
        /\ desired' = Desiring([desired EXCEPT ![next] = "NONE"], osg')
    BY <1>8, <1>12, <2>2
  <2>5. \E y : LettingIn(y, o, next) /\ osg' = SvcReturn(y, t, Returning("SUCCESS"))
    BY <2>3, <2>4
  <2>6. LetsIn(t, o, next)
    BY <2>1, <2>4, <2>5 DEF LetsIn
  <2>. QED  BY <2>1, <2>6
<1>. QED  BY <1>2, <1>3, <1>11, <1>12

\* What letting f in makes of the kernel.
LetInto(x, o, f) ==
    /\ Scheduling(x) /\ Awake(x) /\ x.halted = {} /\ IdleKept(x)
    /\ Blocking(x, Locks(calling))
    /\ x.scheduled # None \/ x.status[x.running] \in LeftStatus \cup {"ACTIVE"}
    /\ SleepOn(osg, x, Tasks \ {f}) /\ f # osg.running
    /\ x.ret = [osg.ret EXCEPT ![f].status = "SUCCESS"]
    /\ \A p \in Objects, u \in Tasks :
           Contains(x.blocked[p], u) => Contains(osg.blocked[p], u) /\ u # f

\* Whoever is let in leaves its list, is told so and gets ready to run.
LEMMA LettingInFacts ==
    ASSUME Disciplined, SafeInvariant, InTask, calling[osg.running] = None, NEW o \in Objects,
           NEW f \in Tasks, Contains(osg.blocked[o], f), NEW x, LettingIn(x, o, f)
    PROVE  LetInto(x, o, f)
<1>0. /\ Told(osg, rwlock, desired, calling) /\ Locks(calling) \in Callers /\ o \in Plain
      /\ \A p \in Objects : osg.blocked[p] \in Seq(Tasks) /\ NoDuplicates(osg.blocked[p])
  BY SoundFacts, LocksPlain
<1>1. /\ Scheduling(osg) /\ Awake(osg) /\ osg.scheduled = None /\ osg.halted = {}
      /\ IdleKept(osg) /\ osg.status[osg.running] \in LeftStatus \cup {"ACTIVE"}
      /\ osg.running \in Tasks
  BY SoundFacts, HealthyThread DEF Healthy, InTask
<1>2. PICK c \in Callers : c = Locks(calling)
  BY <1>0
<1>3. Blocking(osg, c) /\ c[osg.running] # o
  BY <1>1, <1>0, <1>2, SoundFacts, LocksFacts, LocksPlain DEF Healthy, Typed
<1>4. PICK q : q = RemoveFirst(osg.blocked[o], f)
  OBVIOUS
<1>5. /\ q \in Seq(Tasks) /\ NoDuplicates(q)
      /\ \A u \in Tasks : Contains(q, u) <=> Contains(osg.blocked[o], u) /\ u # f
  BY <1>0, <1>4, RemoveFirstFacts
<1>6. PICK g : g = Unlisted(osg, o, f)
  OBVIOUS
<1>7. PICK result \in Return : /\ g = UnlinkedFrom(osg, o, f, q, result)
                               /\ result = [osg.ret[f] EXCEPT !.status = "SUCCESS"]
  <2>. DEFINE told == [osg.ret[f] EXCEPT !.status = "SUCCESS"]
              listed == [osg EXCEPT !.blocked[o] = q]
  <2>1. osg \in Kernel /\ o \in Objects
    BY <1>0, <1>1 DEF Scheduling, KernelInv, Plain
  <2>2. told \in Return
    <3>1. osg.ret[f] \in Return
      BY <2>1 DEF Kernel
    <3>. QED  BY <3>1 DEF Return, Codes
  <2>3. listed.ret = osg.ret
    BY <2>1 DEF Kernel
  <2>4. g = [listed EXCEPT !.ret[f].status = "SUCCESS"]
    BY <1>4, <1>6, <2>1 DEF Unlisted, Kernel
  <2>5. UnlinkedFrom(osg, o, f, q, told) = [listed EXCEPT !.ret[f] = told]
    BY <2>1 DEF UnlinkedFrom, Kernel
  <2>. HIDE DEF listed
  <2>6. g = UnlinkedFrom(osg, o, f, q, told)
    BY <2>3, <2>4, <2>5
  <2>. QED  BY <2>2, <2>6
<1>8. Unlinks(osg, g, c, o, f, q, result) /\ f # osg.running
  <2>1. Unlinks(osg, g, c, o, f, q, result)
    BY <1>1, <1>0, <1>2, <1>3, <1>5, <1>7, UnlinkKept
  <2>2. c[f] = o
    BY <1>0, <1>3 DEF Blocking, Listing, Plain
  <2>. QED  BY <1>3, <2>1, <2>2
<1>9. /\ Scheduling(g) /\ Awake(g) /\ g.scheduled = None /\ g.halted = {} /\ IdleKept(g)
      /\ g.running = osg.running /\ g.status = osg.status /\ g.delay = osg.delay
      /\ Flagging(g, c) /\ Listing(g, c) /\ Inside(g, c)
      /\ \A u \in Tasks : u # f => ListedAsleep(g, c, u)
      /\ g.blocked = [osg.blocked EXCEPT ![o] = q]
      /\ g.ret = [osg.ret EXCEPT ![f].status = "SUCCESS"]
      /\ c[f] = o /\ c[f] # None /\ f # g.running /\ g.status[f] \in {"WAIT", "IDLE"}
      /\ g.status[g.running] \in LeftStatus \cup {"ACTIVE"}
  BY <1>1, <1>7, <1>8, LocksPlain DEF Unlinks
<1>10. ToBeGranted(g, c, f)
  BY <1>9 DEF ToBeGranted
<1>11. /\ Scheduling(x) /\ Awake(x) /\ x.halted = {} /\ IdleKept(x) /\ Blocking(x, c)
       /\ x.scheduled # None \/ x.status[x.running] \in LeftStatus \cup {"ACTIVE"}
       /\ OneLeaves(g, x) /\ x.ret = g.ret /\ SleepOn(g, x, Tasks \ {f})
  <2>1. CASE desired[f] = "WRITE" /\ x = DispatchOrQueue(g, f)
    <3>1. Grants(g, x, f)
      BY <1>9, <2>1, DispatchOrQueueInv DEF RunningStatus
    <3>. QED  BY <1>10, <3>1, GrantsKept DEF IsGranted
  <2>2. CASE desired[f] = "READ" /\ x = StatusSet(g, f, "IDLE")
    <3>1. g.status[f] = "WAIT"
      BY <1>0, <1>9, <2>2 DEF Told
    <3>. QED  BY <1>9, <1>10, <2>2, <3>1, WakeKept DEF IsGranted
  <2>. QED  BY <1>6, <2>1, <2>2 DEF LettingIn
<1>12. ASSUME NEW p \in Objects, NEW u \in Tasks, Contains(x.blocked[p], u)
       PROVE  Contains(osg.blocked[p], u) /\ u # f
  <2>1. g.blocked[p] = (IF p = o THEN q ELSE osg.blocked[p]) /\ g.blocked[p] \in Seq(Tasks)
    <3>1. osg.blocked \in [Objects -> Seq(Tasks)]
      BY SoundFacts
    <3>. QED  BY <1>5, <1>9, <3>1
  <2>2. Contains(g.blocked[p], u)
    <3>1. x.blocked[p] \in {g.blocked[p]} \cup
                             {RemoveAt(g.blocked[p], i) : i \in 1 .. Len(g.blocked[p])}
      BY <1>11 DEF OneLeaves
    <3>. QED  BY <1>12, <2>1, <3>1, LeavingFacts
  <2>3. Contains(osg.blocked[p], u)
    BY <1>5, <2>1, <2>2
  <2>4. CASE p = o
    BY <1>5, <2>1, <2>2, <2>3, <2>4
  <2>5. CASE p # o
    BY <1>3, <1>9, <2>3, <2>5 DEF Blocking, Listing
  <2>. QED  BY <2>3, <2>4, <2>5
<1>13. SleepOn(osg, x, Tasks \ {f})
  BY <1>9, <1>11 DEF SleepOn
<1>. QED  BY <1>2, <1>9, <1>11, <1>12, <1>13 DEF LetInto

\* What is promised to others than t stays so, and t is promised nothing.
LEMMA PromisesStand ==
    ASSUME SafeInvariant, NEW t \in Tasks, calling[t] = None, NEW gn, NEW u \in Tasks,
           u = t \/ gn.ret[u] = osg.ret[u], NEW o \in Objects, NEW mode \in Modes
    PROVE  /\ Promised(gn, calling, u, o, mode) = Promised(osg, calling, u, o, mode)
           /\ u = t => Promised(osg, calling, u, o, mode) = 0
<1>1. PICK e \in Acquires : e = [mode |-> mode, lock |-> o]
  BY DEF Acquires
<1>2. e # None
  BY NoAcquireAssumption
<1>. QED  BY <1>1, <1>2 DEF Promised

\* If a release finds nobody it leaves a reader in, or nobody waits.
LEMMA NobodyFound ==
    ASSUME SafeInvariant, NEW o \in Objects, ~WriterNext(o), FirstReader(o) = None,
           Left(rwlock[o]).readers \in Nat, osg.blocked[o] # <<>>
    PROVE  Left(rwlock[o]).readers > 0
<1>1. /\ osg.blocked[o] \in Seq(Tasks) /\ None \notin Tasks
      /\ Told(osg, rwlock, desired, calling) /\ calling \in [Tasks -> Acquires \cup {None}]
  BY SoundFacts, NoneAssumption DEF Typed
<1>2. PICK f \in Tasks : f = Head(osg.blocked[o])
  BY <1>1
<1>3. Contains(osg.blocked[o], f) /\ osg.blocked[o][1] = f /\ 1 \in 1 .. Len(osg.blocked[o])
  BY <1>1, <1>2 DEF Contains
<1>4. desired[f] # "READ"
  <2>1. \A j \in 1 .. Len(osg.blocked[o]) :
            osg.blocked[o][j] \notin {u \in Tasks : desired[u] = "READ"}
    BY <1>1, FirstOfIsFirst DEF FirstReader
  <2>. QED  BY <1>3, <2>1
<1>5. desired[f] \in Modes
  <2>1. calling[f] = [mode |-> desired[f], lock |-> o]
    BY <1>1, <1>3 DEF Told
  <2>2. calling[f] = None \/ calling[f].mode \in Modes
    BY <1>1 DEF Acquires
  <2>3. calling[f] # None
    <3>1. Locks(calling)[f] = o /\ o # None
      BY <1>1, <1>3, SoundFacts, LocksPlain DEF Healthy, Blocking, Listing
    <3>. QED  BY <1>1, <3>1, LocksFacts
  <2>. QED  BY <2>1, <2>2, <2>3
<1>. QED  BY <1>2, <1>4, <1>5 DEF WriterNext, Modes

\* A release that lets nobody in.
LEMMA ReleasedAlone ==
    ASSUME Disciplined, SafeInvariant, NEW t \in Tasks, t = osg.running, NEW o \in Objects,
           NEW mode \in Modes, NEW h, h = held', GivesBack(t, o, mode, h), calling' = calling,
           LetsNobodyIn(t, o)
    PROVE  SafeInvariant'
<1>1. /\ InTask /\ calling[t] = None /\ h \in Numbers /\ Nesting(calling, h)
      /\ Taken(osg, calling, h) \in Numbers /\ Fits(Vacated(o), Taken(osg, calling, h))
      /\ \A p \in Objects : p # o => Vacated(o)[p] = rwlock[p]
      /\ LeftBy(rwlock[o], Vacated(o)[o], t)
  BY DEF GivesBack
<1>2. /\ rwlock' = Vacated(o) /\ desired' = desired /\ ~WriterNext(o) /\ FirstReader(o) = None
      /\ osg' = SvcReturn(osg, t, Returning("SUCCESS"))
  BY DEF LetsNobodyIn
<1>3. /\ Healthy(osg', Locks(calling)) /\ Invariant' /\ osg'.blocked = osg.blocked
      /\ osg'.status = osg.status /\ osg'.delay = osg.delay
      /\ osg'.ret = [osg.ret EXCEPT ![t] = Returning("SUCCESS")]
  <2>1. Healthy(osg, Locks(calling)) /\ Returning("SUCCESS") \in Return
    BY SoundFacts DEF Returning, Return, Codes
  <2>. QED  BY <1>1, <1>2, <2>1, ReturnsFacts
<1>4. /\ Told(osg, rwlock, desired, calling) /\ osg.ret \in [Tasks -> Return]
      /\ osg.blocked \in [Objects -> Seq(Tasks)] /\ Typed(desired, calling, held)
  BY SoundFacts
<1>5. \A u \in Tasks : u # t => osg'.ret[u] = osg.ret[u]
  BY <1>3, <1>4
<1>6. Fits(rwlock', Taken(osg', calling, h))
  <2>1. \A u \in Tasks, p \in Objects, k \in Modes :
            Promised(osg', calling, u, p, k) = Promised(osg, calling, u, p, k)
    BY <1>1, <1>5, PromisesStand
  <2>2. \A u \in Tasks, p \in Objects, k \in Modes :
            Taken(osg', calling, h)[u][p][k] = Taken(osg, calling, h)[u][p][k]
    <3>1. calling \in [Tasks -> Acquires \cup {None}]
      BY <1>4 DEF Typed
    <3>2. /\ \A u \in Tasks, p \in Objects, k \in Modes :
                 Taken(osg, calling, h)[u][p][k] = h[u][p][k] + Promised(osg, calling, u, p, k)
          /\ \A u \in Tasks, p \in Objects, k \in Modes :
                 Taken(osg', calling, h)[u][p][k] = h[u][p][k] + Promised(osg', calling, u, p, k)
      BY <1>1, <3>1, TakenFacts
    <3>. QED  BY <2>1, <3>2
  <2>. QED  BY <1>1, <1>2, <2>2, FitsAlike
<1>7. Told(osg', rwlock', desired, calling)
  <2>. SUFFICES ASSUME NEW p \in Objects, NEW u \in Tasks, Contains(osg.blocked[p], u)
                PROVE  /\ calling[u] = [mode |-> desired[u], lock |-> p]
                       /\ osg'.ret[u].status = "TO"
                       /\ desired[u] = "READ" => osg.status[u] = "WAIT" /\ osg.delay[u] = Forever
                       /\ rwlock'[p].readers + rwlock'[p].writers > 0
    BY <1>3 DEF Told
  <2>1. u # t
    <3>1. \A q \in Objects : ~Contains(osg.blocked[q], t)
      <4>1. IsInside(calling, t, None)
        BY <1>1, <1>4 DEF IsInside, Typed
      <4>. QED  BY <1>1, <4>1, CallerFacts
    <3>. QED  BY <3>1
  <2>2. rwlock'[p].readers + rwlock'[p].writers > 0
    <3>1. CASE p # o
      BY <1>1, <1>2, <1>4, <3>1 DEF Told
    <3>2. CASE p = o
      <4>1. rwlock'[o] = Left(rwlock[o])
        BY <1>1, <1>2 DEF LeftBy
      <4>2. rwlock'[o].readers \in Nat /\ rwlock'[o].writers \in 0 .. 1
        BY <1>6 DEF Fits
      <4>3. osg.blocked[o] # <<>>
        BY <3>2 DEF Contains
      <4>4. Left(rwlock[o]).readers > 0
        BY <1>2, <4>1, <4>2, <4>3, NobodyFound
      <4>. QED  BY <3>2, <4>1, <4>2, <4>4
    <3>. QED  BY <3>1, <3>2
  <2>. QED  BY ZenonT(40), <1>4, <1>5, <2>1, <2>2 DEF Told
<1>. QED  BY <1>1, <1>2, <1>3, <1>4, <1>6, <1>7 DEF SafeInvariant, Sound, Typed

\* f is told that it is in, t that it is out, and nobody else anything.
TellsBoth(gn, t, f) ==
    /\ gn.ret[f].status = "SUCCESS"
    /\ \A u \in Tasks : u \notin {f, t} => gn.ret[u] = osg.ret[u]

\* What is taken has one acquire more, the one of the task let in.
LEMMA LetInTaken ==
    ASSUME SafeInvariant, NEW t \in Tasks, calling[t] = None, NEW o \in Objects,
           NEW f \in Tasks, NEW k \in Modes, calling[f] = [mode |-> k, lock |-> o],
           osg.ret[f].status = "TO", NEW h \in Numbers, Nesting(calling, h),
           NEW gn, TellsBoth(gn, t, f)
    PROVE  /\ Taken(osg, calling, h) \in Numbers /\ Taken(gn, calling, h) \in Numbers
           /\ OneMore(Taken(osg, calling, h), Taken(gn, calling, h), f, o, k)
<1>1. calling \in [Tasks -> Acquires \cup {None}]
  BY SoundFacts DEF Typed
<1>2. /\ Taken(osg, calling, h) \in Numbers /\ Taken(gn, calling, h) \in Numbers
      /\ \A u \in Tasks, p \in Objects, m \in Modes :
             /\ Taken(osg, calling, h)[u][p][m] = h[u][p][m] + Promised(osg, calling, u, p, m)
             /\ Taken(gn, calling, h)[u][p][m] = h[u][p][m] + Promised(gn, calling, u, p, m)
             /\ h[u][p][m] \in 0 .. MaxNesting
  BY <1>1, TakenFacts
<1>3. \A u \in Tasks, p \in Objects, m \in Modes :
          Promised(gn, calling, u, p, m) =
              IF u = f /\ p = o /\ m = k THEN Promised(osg, calling, u, p, m) + 1
              ELSE Promised(osg, calling, u, p, m)
  <2>. SUFFICES ASSUME NEW u \in Tasks, NEW p \in Objects, NEW m \in Modes
                PROVE  Promised(gn, calling, u, p, m) =
                           IF u = f /\ p = o /\ m = k THEN Promised(osg, calling, u, p, m) + 1
                           ELSE Promised(osg, calling, u, p, m)
    OBVIOUS
  <2>1. CASE u # f
    <3>1. u = t \/ gn.ret[u] = osg.ret[u]
      BY <2>1 DEF TellsBoth
    <3>2. Promised(gn, calling, u, p, m) = Promised(osg, calling, u, p, m)
      BY <3>1, PromisesStand
    <3>. QED  BY <2>1, <3>2
  <2>2. CASE u = f
    <3>1. calling[f] = [mode |-> m, lock |-> p] <=> p = o /\ m = k
      BY DEF Acquires
    <3>. QED  BY <2>2, <3>1 DEF Promised, TellsBoth
  <2>. QED  BY <2>1, <2>2
<1>4. \A u \in Tasks, p \in Objects, m \in Modes : Promised(osg, calling, u, p, m) \in {0, 1}
  BY DEF Promised
<1>. QED  BY <1>2, <1>3, <1>4 DEF OneMore

\* A release that lets somebody in: the kernel, once it has returned.
LetsInKernel(t, o, f) ==
    /\ Healthy(osg', Locks(calling)) /\ Invariant' /\ f # t
    /\ SleepOn(osg, osg', Tasks \ {f}) /\ TellsBoth(osg', t, f)
    /\ \A p \in Objects, u \in Tasks :
           Contains(osg'.blocked[p], u) => Contains(osg.blocked[p], u) /\ u # f

\* The kernel record is sound after such a release.
LEMMA LetsInKernelFacts ==
    ASSUME Disciplined, SafeInvariant, InTask, NEW t \in Tasks, t = osg.running,
           calling[t] = None, NEW o \in Objects, NEW f \in Tasks, Contains(osg.blocked[o], f),
           NEW x, LettingIn(x, o, f), osg' = SvcReturn(x, t, Returning("SUCCESS"))
    PROVE  LetsInKernel(t, o, f)
<1>1. LetInto(x, o, f)
  BY LettingInFacts
<1>2. /\ Scheduling(x) /\ Awake(x) /\ x.halted = {} /\ IdleKept(x)
      /\ Blocking(x, Locks(calling))
      /\ x.scheduled # None \/ x.status[x.running] \in LeftStatus \cup {"ACTIVE"}
      /\ SleepOn(osg, x, Tasks \ {f}) /\ f # osg.running
      /\ x.ret = [osg.ret EXCEPT ![f].status = "SUCCESS"]
      /\ \A p \in Objects, u \in Tasks :
             Contains(x.blocked[p], u) => Contains(osg.blocked[p], u) /\ u # f
  BY <1>1 DEF LetInto
<1>3. Returning("SUCCESS") \in Return
  BY DEF Returning, Return, Codes
<1>4. /\ Healthy(osg', Locks(calling)) /\ Scheduling(osg') /\ Awake(osg')
      /\ osg'.blocked = x.blocked /\ osg'.status = x.status /\ osg'.delay = x.delay
      /\ osg'.ret = [x.ret EXCEPT ![t] = Returning("SUCCESS")]
  BY <1>2, <1>3, ReturnHealthy
<1>5. Invariant'
  BY <1>4 DEF Invariant, Scheduling
<1>6. TellsBoth(osg', t, f)
  <2>1. osg.ret \in [Tasks -> Return]
    BY SoundFacts
  <2>2. x.ret[f].status = "SUCCESS" /\ \A u \in Tasks : u # f => x.ret[u] = osg.ret[u]
    BY <1>2, <2>1 DEF Return
  <2>3. x.ret \in [Tasks -> Return]
    BY <1>2 DEF Scheduling, KernelInv, Kernel
  <2>. QED  BY <1>2, <1>4, <2>2, <2>3 DEF TellsBoth
<1>7. SleepOn(osg, osg', Tasks \ {f})
  BY <1>2, <1>4 DEF SleepOn
<1>. QED  BY <1>2, <1>4, <1>5, <1>6, <1>7 DEF LetsInKernel

\* The lock o once its caller has left it and f has entered it.
FollowedBy(s, o, k, f) == s = [rwlock EXCEPT ![o] = Entered(Left(rwlock[o]), k, f)]

\* The writer or the reader let in finds the lock as it may enter it.
LEMMA LetInFits ==
    ASSUME Disciplined, SafeInvariant, NEW t \in Tasks, NEW o \in Objects, NEW mode \in Modes,
           NEW h, GivesBack(t, o, mode, h), NEW f \in Tasks, NEW k \in Modes,
           calling[f] = [mode |-> k, lock |-> o], osg.ret[f].status = "TO",
           k = "WRITE" => Left(rwlock[o]).readers = 0,
           NEW gn, TellsBoth(gn, t, f),
           NEW s, FollowedBy(s, o, k, f)
    PROVE  /\ Fits(s, Taken(gn, calling, h)) /\ s[o].readers + s[o].writers > 0
           /\ \A p \in Objects : p # o => s[p] = rwlock[p]
<1>1. /\ calling[t] = None /\ h \in Numbers /\ Nesting(calling, h)
      /\ Taken(osg, calling, h) \in Numbers /\ Fits(Vacated(o), Taken(osg, calling, h))
      /\ \A p \in Objects : p # o => Vacated(o)[p] = rwlock[p]
      /\ LeftBy(rwlock[o], Vacated(o)[o], t)
  BY DEF GivesBack
<1>2. PICK n \in Numbers, m \in Numbers :
          n = Taken(osg, calling, h) /\ m = Taken(gn, calling, h)
  BY <1>1, LetInTaken
<1>3. OneMore(n, m, f, o, k)
  BY <1>1, <1>2, LetInTaken
<1>4. PICK v : v = Vacated(o)
  OBVIOUS
<1>5. v[o] = Left(rwlock[o]) /\ v[o].writers = 0
  BY <1>1, <1>4 DEF LeftBy
<1>6. EntersLock(v, s, n, m, f, o, k)
  <2>1. CanEnter(v[o], k)
    BY <1>5 DEF CanEnter
  <2>2. s = [v EXCEPT ![o] = Entered(v[o], k, f)]
    <3>1. v = [rwlock EXCEPT ![o] = Left(rwlock[o])] /\ rwlock = [p \in Objects |-> rwlock[p]]
      BY <1>4, SoundFacts DEF Vacated, Fits
    <3>. QED  BY <1>5, <3>1 DEF FollowedBy
  <2>. QED  BY <1>1, <1>2, <1>3, <1>4, <2>1, <2>2 DEF EntersLock
<1>7. Fits(s, m) /\ s[o].readers + s[o].writers > 0
  BY <1>6, FitsEnter
<1>8. \A p \in Objects : p # o => s[p] = rwlock[p]
  BY SoundFacts DEF Fits, FollowedBy
<1>. QED  BY <1>2, <1>7, <1>8

\* A release that lets somebody in.
LEMMA ReleaseLetsIn ==
    ASSUME Disciplined, SafeInvariant, NEW t \in Tasks, t = osg.running, NEW o \in Objects,
           NEW mode \in Modes, NEW h, h = held', GivesBack(t, o, mode, h), calling' = calling,
           NEW f \in Tasks, LetsIn(t, o, f)
    PROVE  SafeInvariant'
<1>1. /\ InTask /\ calling[t] = None /\ h \in Numbers /\ Nesting(calling, h)
  BY DEF GivesBack
<1>2. PICK x : LettingIn(x, o, f) /\ osg' = SvcReturn(x, t, Returning("SUCCESS"))
  BY DEF LetsIn
<1>3. /\ Contains(osg.blocked[o], f)
      /\ rwlock' = [rwlock EXCEPT ![o] = Entered(Left(rwlock[o]), desired[f], f)]
      /\ desired' = Desiring([desired EXCEPT ![f] = "NONE"], osg')
  BY DEF LetsIn
<1>4. LetsInKernel(t, o, f)
  BY <1>1, <1>2, <1>3, LetsInKernelFacts
<1>5. /\ Healthy(osg', Locks(calling)) /\ Invariant' /\ f # t
      /\ SleepOn(osg, osg', Tasks \ {f}) /\ TellsBoth(osg', t, f)
      /\ \A p \in Objects, u \in Tasks :
             Contains(osg'.blocked[p], u) => Contains(osg.blocked[p], u) /\ u # f
  BY <1>4 DEF LetsInKernel
<1>6. /\ Told(osg, rwlock, desired, calling) /\ Typed(desired, calling, held)
      /\ desired \in [Tasks -> Modes \cup {"NONE"}]
      /\ calling \in [Tasks -> Acquires \cup {None}]
  BY SoundFacts DEF Typed
<1>7. PICK k : k = desired[f]
  OBVIOUS
<1>8. calling[f] = [mode |-> k, lock |-> o] /\ osg.ret[f].status = "TO"
  BY <1>3, <1>6, <1>7 DEF Told
<1>9. k \in Modes /\ (k = "WRITE" => Left(rwlock[o]).readers = 0)
  BY <1>2, <1>7 DEF LettingIn, Modes
<1>10. /\ Fits(rwlock', Taken(osg', calling, h)) /\ rwlock'[o].readers + rwlock'[o].writers > 0
       /\ \A p \in Objects : p # o => rwlock'[p] = rwlock[p]
  <2>1. PICK s : s = rwlock'
    OBVIOUS
  <2>2. FollowedBy(s, o, k, f) /\ TellsBoth(osg', t, f)
    BY <1>3, <1>5, <1>7, <2>1 DEF FollowedBy
  <2>3. /\ Fits(s, Taken(osg', calling, h)) /\ s[o].readers + s[o].writers > 0
        /\ \A p \in Objects : p # o => s[p] = rwlock[p]
    BY SMTT(40), <1>8, <1>9, <2>2, LetInFits
  <2>. QED  BY <2>1, <2>3
<1>11. /\ desired' \in [Tasks -> Modes \cup {"NONE"}]
       /\ \A p \in Objects, u \in Tasks : Contains(osg'.blocked[p], u) => desired'[u] = desired[u]
  <2>1. PICK d \in [Tasks -> Modes \cup {"NONE"}] : d = [desired EXCEPT ![f] = "NONE"]
    BY <1>6
  <2>2. /\ Desiring(d, osg') \in [Tasks -> Modes \cup {"NONE"}]
        /\ \A p \in Objects, u \in Tasks :
               Contains(osg'.blocked[p], u) => Desiring(d, osg')[u] = d[u]
    BY <1>5, DesiringFacts DEF Healthy, Blocking
  <2>3. \A u \in Tasks : u # f => d[u] = desired[u]
    BY <1>6, <2>1
  <2>. QED  BY <1>3, <1>5, <2>1, <2>2, <2>3
<1>12. Told(osg', rwlock', desired', calling)
  <2>. SUFFICES ASSUME NEW p \in Objects, NEW u \in Tasks, Contains(osg'.blocked[p], u)
                PROVE  /\ calling[u] = [mode |-> desired'[u], lock |-> p]
                       /\ osg'.ret[u].status = "TO"
                       /\ desired'[u] = "READ" => osg'.status[u] = "WAIT" /\ osg'.delay[u] = Forever
                       /\ rwlock'[p].readers + rwlock'[p].writers > 0
    BY DEF Told
  <2>1. Contains(osg.blocked[p], u) /\ u # f /\ desired'[u] = desired[u]
    BY <1>5, <1>11
  <2>2. u # t
    <3>1. IsInside(calling, t, None)
      BY <1>1, <1>6 DEF IsInside
    <3>2. \A q \in Objects : ~Contains(osg.blocked[q], t)
      BY <1>1, <3>1, CallerFacts
    <3>. QED  BY <2>1, <3>2
  <2>3. osg'.ret[u] = osg.ret[u]
    BY <1>5, <2>1, <2>2 DEF TellsBoth
  <2>4. /\ calling[u] = [mode |-> desired[u], lock |-> p] /\ osg.ret[u].status = "TO"
        /\ desired[u] = "READ" => osg.status[u] = "WAIT" /\ osg.delay[u] = Forever
        /\ rwlock[p].readers + rwlock[p].writers > 0
    BY <1>6, <2>1 DEF Told
  <2>5. desired[u] = "READ" => osg'.status[u] = "WAIT" /\ osg'.delay[u] = Forever
    BY <1>5, <2>1, <2>4 DEF SleepOn, Disciplined
  <2>6. rwlock'[p].readers + rwlock'[p].writers > 0
    BY <1>10, <2>4
  <2>. QED  BY <2>1, <2>3, <2>4, <2>5, <2>6
<1>. QED  BY <1>1, <1>5, <1>6, <1>10, <1>11, <1>12 DEF SafeInvariant, Sound, Typed

\* osi_rwlock_release.
LEMMA ReleaseStep ==
    ASSUME Disciplined, SafeInvariant, NEW o \in Objects, Release(o)
    PROVE  SafeInvariant'
<1>1. PICK t \in Tasks : t = osg.running
  BY InThreadFacts, SoundFacts DEF Release, InTask
<1>2. /\ calling' = calling
      /\ \E mode \in Modes : GivesBack(t, o, mode, held')
      /\ LetsNobodyIn(t, o) \/ \E f \in Tasks : LetsIn(t, o, f)
  BY <1>1, ReleaseCases
<1>3. PICK h : h = held'
  OBVIOUS
<1>4. PICK mode \in Modes : GivesBack(t, o, mode, h)
  BY <1>2, <1>3
<1>5. CASE LetsNobodyIn(t, o)
  BY <1>1, <1>2, <1>3, <1>4, <1>5, ReleasedAlone
<1>6. CASE \E f \in Tasks : LetsIn(t, o, f)
  BY <1>1, <1>2, <1>3, <1>4, <1>6, ReleaseLetsIn
<1>. QED  BY <1>2, <1>5, <1>6

-----------------------------------------------------------------------------
(***************************************************************************)
(* The theorems.                                                           *)
(***************************************************************************)

\* Every step of the specification keeps the invariant.
LEMMA NextSound ==
    ASSUME Disciplined, SafeInvariant, [Next]_vars
    PROVE  SafeInvariant'
<1>1. CASE \E o \in Objects, to \in ReadTimeouts : Acquire(o, "READ", to)
  <2>1. PICK o \in Objects, to \in ReadTimeouts : Acquire(o, "READ", to)
    BY <1>1
  <2>2. to \in 0 .. Forever /\ to \in {0, Forever} /\ "READ" \in Modes
    BY TimeoutsAssumption DEF Disciplined, Modes
  <2>. QED  BY <2>1, <2>2, AcquireStep
<1>2. CASE \E o \in Objects, to \in WriteTimeouts : Acquire(o, "WRITE", to)
  <2>1. PICK o \in Objects, to \in WriteTimeouts : Acquire(o, "WRITE", to)
    BY <1>2
  <2>2. to \in 0 .. Forever /\ "WRITE" \in Modes /\ "WRITE" # "READ"
    BY TimeoutsAssumption DEF Modes
  <2>. QED  BY <2>1, <2>2, AcquireStep
<1>3. CASE UNCHANGED vars
  <2>1. osg' = osg /\ UNCHANGED <<rwlock, calling, held>> /\ desired' = desired
    BY <1>3 DEF vars
  <2>2. Invariant'
    BY <2>1, SoundFacts, StutterStep
  <2>3. /\ Healthy(osg', Locks(calling)) /\ Undisturbed(osg, osg', Locks(calling))
        /\ SleepOn(osg, osg', {t \in Tasks : calling[t] # None})
    BY <2>1, SoundFacts DEF Undisturbed, OneLeaves, SleepOn
  <2>. QED  BY <2>1, <2>2, <2>3, UnconcernedStep
<1>. QED  BY <1>1, <1>2, <1>3, BackgroundStep, OtherCallStep, AcquireReturnsStep, ReleaseStep
          DEF Next, Elsewhere

\* The inductive invariant holds.
LEMMA SafeHolds == ASSUME Disciplined PROVE Spec => []SafeInvariant
<1>1. Init => SafeInvariant
  BY InitSound
<1>2. SafeInvariant /\ [Next]_vars => SafeInvariant'
  BY NextSound
<1>. QED  BY <1>1, <1>2, PTL DEF Spec

\* No OS_ASSERT of os.c, service.c, utilities.h or rwlock.c fails, the one
\* about a writer's being alone among them, and the queues stay in order
\* although a release moves a reader between them itself.
THEOREM KernelSurvivesRwLocks == ASSUME Disciplined PROVE Spec => []KernelSurvives
<1>1. SafeInvariant => KernelSurvives
  <2>. SUFFICES ASSUME SafeInvariant PROVE KernelSurvives
    OBVIOUS
  <2>1. osg \in Kernel
    BY SoundFacts DEF Invariant, KernelInv
  <2>2. osg.halted = {}
    BY SoundFacts DEF Healthy
  <2>. QED  BY <2>1, <2>2, SoundFacts DEF KernelSurvives, TypeOK, Typed, Fits, Numbers
<1>. QED  BY <1>1, SafeHolds, PTL

\* readers and writers of struct os_rwlock_t are exactly the entries of the
\* tasks that are in, or that osi_rwlock_release has let in and that do not
\* know yet, however acquires, releases and time-outs interleave.
THEOREM LocksAreCounted == ASSUME Disciplined PROVE Spec => []Agreement
<1>1. SafeInvariant => Agreement
  <2>. SUFFICES ASSUME SafeInvariant, NEW o \in Objects
                PROVE  /\ rwlock[o].readers = Cardinality(Reads(o))
                       /\ \A t \in Tasks : Holds(t, o, "WRITE") =
                              IF rwlock[o].writer = t THEN rwlock[o].writers ELSE 0
    BY DEF Agreement
  <2>1. Counts(rwlock[o], Taken(osg, calling, held), o)
    BY SoundFacts DEF Fits
  <2>2. \A t \in Tasks, mode \in Modes : Taken(osg, calling, held)[t][o][mode] = Holds(t, o, mode)
    <3>1. /\ calling \in [Tasks -> Acquires \cup {None}] /\ held \in Numbers
          /\ Nesting(calling, held)
      BY SoundFacts DEF Typed
    <3>2. \A t \in Tasks, mode \in Modes : Taken(osg, calling, held)[t][o][mode]
              = held[t][o][mode] + Promised(osg, calling, t, o, mode)
      BY <3>1, TakenFacts
    <3>. QED  BY <3>2 DEF Holds, Promised
  <2>3. Entries(Taken(osg, calling, held), o) = Reads(o)
    BY <2>2 DEF Entries, Reads, Modes
  <2>. QED  BY <2>1, <2>2, <2>3 DEF Counts, Modes
<1>. QED  BY <1>1, SafeHolds, PTL

\* From the moment osi_rwlock_release or osi_rwlock_acquire_write lets a
\* writer in until its release, no reader is counted.
THEOREM WritersAreAlone == ASSUME Disciplined PROVE Spec => []Exclusion
<1>1. SafeInvariant => Exclusion
  BY SoundFacts DEF Exclusion, Fits, Sane
<1>. QED  BY <1>1, SafeHolds, PTL

\* osi_rwlock_release looks at one writer or one reader only, and yet a task
\* that waits always has somebody in the lock to wait for.
THEOREM NobodyWaitsAtFreeLocks == ASSUME Disciplined PROVE Spec => []NobodyWaitsOutside
<1>1. SafeInvariant => NobodyWaitsOutside
  <2>. SUFFICES ASSUME SafeInvariant, NEW o \in Objects, osg.blocked[o] # <<>>
                PROVE  rwlock[o].readers + rwlock[o].writers > 0
    BY DEF NobodyWaitsOutside
  <2>1. osg.blocked[o] \in Seq(Tasks)
    BY SoundFacts
  <2>2. Head(osg.blocked[o]) \in Tasks /\ Contains(osg.blocked[o], Head(osg.blocked[o]))
    BY <2>1 DEF Contains
  <2>. QED  BY <2>2, SoundFacts DEF Told
<1>. QED  BY <1>1, SafeHolds, PTL

\* A task asleep in osi_rwlock_acquire_* is in the list a release searches,
\* with c.desired telling what it asked for, and nobody else is in a list.
THEOREM NoRwLockWaiterIsLost == ASSUME Disciplined PROVE Spec => []WaitersAreListed
<1>1. SafeInvariant => WaitersAreListed
  <2>. SUFFICES ASSUME SafeInvariant, NEW o \in Objects, NEW t \in Tasks
                PROVE  /\ calling[t] # None /\ osg.status[t] = "WAIT" =>
                              Contains(osg.blocked[calling[t].lock], t)
                       /\ Contains(osg.blocked[o], t) =>
                              /\ calling[t] = [mode |-> desired[t], lock |-> o]
                              /\ osg.ret[t].status = "TO" /\ osg.waits[t] = {o}
    BY DEF WaitersAreListed
  <2>1. /\ Blocking(osg, Locks(calling)) /\ Told(osg, rwlock, desired, calling)
        /\ calling \in [Tasks -> Acquires \cup {None}]
    BY SoundFacts DEF Healthy, Typed
  <2>2. calling[t] # None => Locks(calling)[t] = calling[t].lock /\ calling[t].lock # None
    BY <2>1, LocksFacts, LocksPlain
  <2>3. calling[t] # None /\ osg.status[t] = "WAIT" => Contains(osg.blocked[calling[t].lock], t)
    BY <2>1, <2>2 DEF Blocking, ListedAsleep
  <2>4. Contains(osg.blocked[o], t) => osg.waits[t] = {o}
    BY <2>1 DEF Blocking, Listing, Flagging
  <2>. QED  BY <2>1, <2>3, <2>4 DEF Told
<1>. QED  BY <1>1, SafeHolds, PTL

=============================================================================
