--------------------------- MODULE HandlersProofs ---------------------------
(***************************************************************************)
(* Lemmas about the operators of Kernel and the actions of Handlers, for   *)
(* every set of tasks, their priorities and delays, and whatever calls the *)
(* application makes.  First what the walks along a list return; then that *)
(* each C function of the scheduler, and each action, keeps Invariant; and *)
(* last what keeps the assertions of the scheduler true.                   *)
(***************************************************************************)
EXTENDS Handlers, SequenceTheorems, WellFoundedInduction, TLAPS

-----------------------------------------------------------------------------
(***************************************************************************)
(* Lists.                                                                  *)
(***************************************************************************)

\* Linking a task in before position i (the pointer updates of runqueue_add
\* and waitqueue_add) shifts the tail by one and changes nothing else.
LEMMA InsertAtFacts ==
    ASSUME NEW S, NEW s \in Seq(S), NEW i \in 1 .. Len(s) + 1, NEW e \in S
    PROVE  /\ InsertAt(s, i, e) \in Seq(S)
           /\ Len(InsertAt(s, i, e)) = Len(s) + 1
           /\ \A k \in 1 .. Len(s) + 1 : InsertAt(s, i, e)[k] =
                  IF k < i THEN s[k] ELSE IF k = i THEN e ELSE s[k - 1]
<1>0. Len(s) \in Nat
  BY LenProperties
<1>. DEFINE a == SubSeq(s, 1, i - 1)
            c == SubSeq(s, i, Len(s))
<1>1. /\ a \in Seq(S) /\ Len(a) = i - 1
      /\ \A k \in 1 .. i - 1 : a[k] = s[k]
  BY SubSeqProperties
<1>2. /\ c \in Seq(S) /\ Len(c) = Len(s) - i + 1
      /\ \A k \in 1 .. Len(s) - i + 1 : c[k] = s[i + k - 1]
  BY SubSeqProperties
<1>3. /\ <<e>> \in Seq(S) /\ Len(<<e>>) = 1 /\ <<e>>[1] = e
  OBVIOUS
<1>. HIDE DEF a, c
<1>4. /\ a \o <<e>> \in Seq(S) /\ Len(a \o <<e>>) = i
      /\ \A k \in 1 .. i : (a \o <<e>>)[k] = IF k < i THEN s[k] ELSE e
  <2>1. /\ a \o <<e>> \in Seq(S) /\ Len(a \o <<e>>) = i
        /\ \A k \in 1 .. i : (a \o <<e>>)[k] = IF k <= i - 1 THEN a[k] ELSE <<e>>[k - (i - 1)]
    BY <1>1, <1>3, ConcatProperties
  <2>. QED  BY <2>1, <1>1, <1>3
<1>. DEFINE d == a \o <<e>>
<1>. HIDE DEF d
<1>5. /\ d \o c \in Seq(S) /\ Len(d \o c) = Len(s) + 1
      /\ \A k \in 1 .. Len(s) + 1 : (d \o c)[k] = IF k <= i THEN d[k] ELSE c[k - i]
  <2>1. d \in Seq(S) /\ Len(d) = i
    BY <1>4 DEF d
  <2>. QED  BY <2>1, <1>2, ConcatProperties
<1>6. \A k \in 1 .. Len(s) + 1 : (d \o c)[k] =
          IF k < i THEN s[k] ELSE IF k = i THEN e ELSE s[k - 1]
  <2>. SUFFICES ASSUME NEW k \in 1 .. Len(s) + 1
                PROVE  (d \o c)[k] = IF k < i THEN s[k] ELSE IF k = i THEN e ELSE s[k - 1]
    OBVIOUS
  <2>1. CASE k <= i
    BY <2>1, <1>4, <1>5 DEF d
  <2>2. CASE k > i
    <3>1. k - i \in 1 .. Len(s) - i + 1 /\ i + (k - i) - 1 = k - 1
      BY <2>2
    <3>. QED  BY <3>1, <2>2, <1>2, <1>5
  <2>3. k <= i \/ k > i
    BY <1>0
  <2>. QED  BY <2>1, <2>2, <2>3
<1>. QED  BY <1>5, <1>6 DEF InsertAt, a, c, d

\* Unlinking position i closes the gap.
LEMMA RemoveAtFacts ==
    ASSUME NEW S, NEW s \in Seq(S), NEW i \in 1 .. Len(s)
    PROVE  /\ RemoveAt(s, i) \in Seq(S)
           /\ Len(RemoveAt(s, i)) = Len(s) - 1
           /\ \A k \in 1 .. Len(s) - 1 : RemoveAt(s, i)[k] =
                  IF k < i THEN s[k] ELSE s[k + 1]
<1>0. Len(s) \in Nat
  BY LenProperties
<1>. DEFINE a == SubSeq(s, 1, i - 1)
            c == SubSeq(s, i + 1, Len(s))
<1>1. /\ a \in Seq(S) /\ Len(a) = i - 1
      /\ \A k \in 1 .. i - 1 : a[k] = s[k]
  BY SubSeqProperties
<1>2. /\ c \in Seq(S) /\ Len(c) = Len(s) - i
      /\ \A k \in 1 .. Len(s) - i : c[k] = s[i + k]
  BY SubSeqProperties
<1>. HIDE DEF a, c
<1>3. /\ a \o c \in Seq(S) /\ Len(a \o c) = Len(s) - 1
      /\ \A k \in 1 .. Len(s) - 1 : (a \o c)[k] = IF k <= i - 1 THEN a[k] ELSE c[k - (i - 1)]
  <2>1. /\ a \o c \in Seq(S) /\ Len(a \o c) = Len(a) + Len(c)
        /\ \A k \in 1 .. Len(a) + Len(c) : (a \o c)[k] =
              IF k <= Len(a) THEN a[k] ELSE c[k - Len(a)]
    BY <1>1, <1>2, ConcatProperties
  <2>2. Len(a) + Len(c) = Len(s) - 1
    BY <1>0, <1>1, <1>2
  <2>. QED  BY <2>1, <2>2, <1>1
<1>4. \A k \in 1 .. Len(s) - 1 : (a \o c)[k] = IF k < i THEN s[k] ELSE s[k + 1]
  <2>. SUFFICES ASSUME NEW k \in 1 .. Len(s) - 1
                PROVE  (a \o c)[k] = IF k < i THEN s[k] ELSE s[k + 1]
    OBVIOUS
  <2>1. CASE k < i
    BY <2>1, <1>1, <1>3
  <2>2. CASE k >= i
    <3>1. k - (i - 1) \in 1 .. Len(s) - i /\ i + (k - (i - 1)) = k + 1
      BY <2>2
    <3>. QED  BY <3>1, <2>2, <1>2, <1>3
  <2>3. k < i \/ k >= i
    BY <1>0
  <2>. QED  BY <2>1, <2>2, <2>3
<1>. QED  BY <1>3, <1>4 DEF RemoveAt, a, c

\* A walk stops at the first element it looks for.
LEMMA FirstIndexFacts ==
    ASSUME NEW S, NEW s \in Seq(S), NEW T
    PROVE  /\ FirstIndex(s, T) \in 0 .. Len(s)
           /\ FirstIndex(s, T) # 0 => s[FirstIndex(s, T)] \in T
           /\ \A j \in 1 .. Len(s) : s[j] \in T =>
                  FirstIndex(s, T) # 0 /\ FirstIndex(s, T) <= j
<1>0. Len(s) \in Nat
  BY LenProperties
<1>. DEFINE I == {i \in 1 .. Len(s) : s[i] \in T}
<1>1. FirstIndex(s, T) = IF I # {} THEN CHOOSE x \in I : \A y \in I : x <= y ELSE 0
  BY DEF FirstIndex, SelectInSeq, Min
<1>2. I # {} => \E x \in I : \A y \in I : x <= y
  <2>. SUFFICES ASSUME I # {} PROVE \E x \in I : \A y \in I : x <= y
    OBVIOUS
  <2>1. I \subseteq Nat
    OBVIOUS
  <2>2. PICK x \in I : \A y \in I : ~(<<y, x>> \in OpToRel(<, Nat))
    BY <2>1, NatLessThanWellFounded, WFMin
  <2>3. \A n, m \in Nat : n < m => <<n, m>> \in OpToRel(<, Nat)
    BY Zenon DEF OpToRel
  <2>4. \A y \in I : ~(y < x)
    <3>. HIDE DEF I
    <3>. QED  BY <2>1, <2>2, <2>3, Zenon
  <2>5. \A y \in I : x <= y
    BY <2>1, <2>4
  <2>. QED  BY <2>5
<1>3. CASE I = {}
  BY <1>0, <1>1, <1>3
<1>4. CASE I # {}
  <2>1. PICK n \in I : \A y \in I : n <= y
    BY <1>2, <1>4
  <2>2. FirstIndex(s, T) \in I /\ \A y \in I : FirstIndex(s, T) <= y
    <3>. HIDE DEF I
    <3>. QED  BY <1>1, <1>4, <2>1
  <2>. QED  BY <1>0, <2>2
<1>. QED  BY <1>3, <1>4

\* In a list without duplicates the walk unlinks the one link of the task.
LEMMA RemoveFirstAt ==
    ASSUME NEW S, NEW s \in Seq(S), NoDuplicates(s), NEW n \in 1 .. Len(s)
    PROVE  RemoveFirst(s, s[n]) = RemoveAt(s, n)
<1>1. {j \in 1 .. Len(s) : s[j] = s[n]} = {n}
  BY DEF NoDuplicates
<1>2. (CHOOSE x \in {n} : \A y \in {n} : x <= y) = n
  OBVIOUS
<1>. QED  BY <1>1, <1>2 DEF RemoveFirst, SelectInSeq, Min

\* r keeps the order of s: what stands in r in some order stands so in s.
KeepsOrder(r, s) ==
    \A i, j \in 1 .. Len(r) : i <= j =>
        \E k, l \in 1 .. Len(s) : k <= l /\ r[i] = s[k] /\ r[j] = s[l]

\* runqueue_remove and waitqueue_remove: the task is gone, the others stay in
\* their order.
LEMMA RemoveFirstFacts ==
    ASSUME NEW S, NEW s \in Seq(S), NoDuplicates(s), NEW e \in S
    PROVE  /\ RemoveFirst(s, e) \in Seq(S)
           /\ NoDuplicates(RemoveFirst(s, e))
           /\ \A x \in S : Contains(RemoveFirst(s, e), x) <=> Contains(s, x) /\ x # e
           /\ KeepsOrder(RemoveFirst(s, e), s)
<1>0. Len(s) \in Nat
  BY LenProperties
<1>1. CASE ~Contains(s, e)
  <2>1. RemoveFirst(s, e) = s
    BY <1>1 DEF RemoveFirst, Contains
  <2>. QED  BY <2>1, <1>1 DEF Contains, KeepsOrder
<1>2. CASE Contains(s, e)
  <2>1. PICK n \in 1 .. Len(s) : s[n] = e
    BY <1>2 DEF Contains
  <2>. DEFINE r == RemoveAt(s, n)
  <2>2. RemoveFirst(s, e) = r
    BY <2>1, RemoveFirstAt
  <2>3. /\ r \in Seq(S) /\ Len(r) = Len(s) - 1
        /\ \A k \in 1 .. Len(s) - 1 : r[k] = IF k < n THEN s[k] ELSE s[k + 1]
    BY RemoveAtFacts
  <2>. HIDE DEF r
  <2>. DEFINE old(k) == IF k < n THEN k ELSE k + 1
  <2>4. \A k \in 1 .. Len(r) : old(k) \in 1 .. Len(s) /\ old(k) # n /\ r[k] = s[old(k)]
    BY <1>0, <2>3
  <2>5. \A k, l \in 1 .. Len(r) : /\ k <= l => old(k) <= old(l)
                                  /\ old(k) = old(l) => k = l
    BY <1>0, <2>3
  <2>6. \A m \in 1 .. Len(s) : m # n => \E k \in 1 .. Len(r) : old(k) = m
    <3>. SUFFICES ASSUME NEW m \in 1 .. Len(s), m # n
                  PROVE  \E k \in 1 .. Len(r) : old(k) = m
      OBVIOUS
    <3>1. CASE m < n
      <4>1. m \in 1 .. Len(r) /\ old(m) = m
        BY <1>0, <2>3, <3>1
      <4>. QED  BY <4>1
    <3>2. CASE m > n
      <4>1. m - 1 \in 1 .. Len(r) /\ old(m - 1) = m
        BY <1>0, <2>3, <3>2
      <4>. QED  BY <4>1
    <3>3. m < n \/ m > n
      BY <1>0
    <3>. QED  BY <3>1, <3>2, <3>3
  <2>. HIDE DEF old
  <2>7. NoDuplicates(r)
    BY <2>4, <2>5 DEF NoDuplicates
  <2>8. \A x \in S : Contains(r, x) <=> Contains(s, x) /\ x # e
    <3>. SUFFICES ASSUME NEW x \in S
                  PROVE  Contains(r, x) <=> Contains(s, x) /\ x # e
      OBVIOUS
    <3>1. ASSUME Contains(r, x) PROVE Contains(s, x) /\ x # e
      <4>1. PICK k \in 1 .. Len(r) : r[k] = x
        BY <3>1 DEF Contains
      <4>2. old(k) \in 1 .. Len(s) /\ old(k) # n /\ x = s[old(k)]
        BY <4>1, <2>4
      <4>3. x # e
        BY <4>2, <2>1 DEF NoDuplicates
      <4>. QED  BY <4>2, <4>3 DEF Contains
    <3>2. ASSUME Contains(s, x), x # e PROVE Contains(r, x)
      <4>1. PICK m \in 1 .. Len(s) : s[m] = x
        BY <3>2 DEF Contains
      <4>2. m # n
        BY <4>1, <3>2, <2>1
      <4>3. PICK k \in 1 .. Len(r) : old(k) = m
        BY <4>2, <2>6
      <4>4. r[k] = x
        BY <4>3, <4>1, <2>4
      <4>. QED  BY <4>4 DEF Contains
    <3>. QED  BY <3>1, <3>2
  <2>9. KeepsOrder(r, s)
    BY <2>4, <2>5 DEF KeepsOrder
  <2>. QED  BY <2>2, <2>3, <2>7, <2>8, <2>9
<1>. QED  BY <1>1, <1>2

\* Linking in a task that is not in the list yet.
LEMMA InsertNew ==
    ASSUME NEW S, NEW s \in Seq(S), NoDuplicates(s),
           NEW i \in 1 .. Len(s) + 1, NEW e \in S, ~Contains(s, e)
    PROVE  /\ NoDuplicates(InsertAt(s, i, e))
           /\ \A x \in S : Contains(InsertAt(s, i, e), x) <=> Contains(s, x) \/ x = e
<1>0. Len(s) \in Nat
  BY LenProperties
<1>. DEFINE r == InsertAt(s, i, e)
<1>1. /\ Len(r) = Len(s) + 1
      /\ \A k \in 1 .. Len(s) + 1 : r[k] = IF k < i THEN s[k] ELSE IF k = i THEN e ELSE s[k - 1]
  BY InsertAtFacts, SMTT(40)
<1>. HIDE DEF r
<1>. DEFINE old(k) == IF k < i THEN k ELSE k - 1
<1>2. \A k \in 1 .. Len(r) : k # i => old(k) \in 1 .. Len(s) /\ r[k] = s[old(k)]
  BY <1>0, <1>1
<1>3. i \in 1 .. Len(r) /\ r[i] = e
  BY <1>0, <1>1
<1>4. \A k, l \in 1 .. Len(r) : k # i /\ l # i /\ old(k) = old(l) => k = l
  BY <1>0, <1>1
<1>5. \A m \in 1 .. Len(s) : \E k \in 1 .. Len(r) : k # i /\ old(k) = m
  <2>. SUFFICES ASSUME NEW m \in 1 .. Len(s)
                PROVE  \E k \in 1 .. Len(r) : k # i /\ old(k) = m
    OBVIOUS
  <2>1. CASE m < i
    <3>1. m \in 1 .. Len(r) /\ m # i /\ old(m) = m
      BY <1>0, <1>1, <2>1
    <3>. QED  BY <3>1
  <2>2. CASE m >= i
    <3>1. m + 1 \in 1 .. Len(r) /\ m + 1 # i /\ old(m + 1) = m
      BY <1>0, <1>1, <2>2
    <3>. QED  BY <3>1
  <2>3. m < i \/ m >= i
    BY <1>0
  <2>. QED  BY <2>1, <2>2, <2>3
<1>. HIDE DEF old
<1>6. NoDuplicates(r)
  BY <1>2, <1>3, <1>4 DEF NoDuplicates, Contains
<1>7. \A x \in S : Contains(r, x) <=> Contains(s, x) \/ x = e
  BY <1>2, <1>3, <1>5 DEF Contains
<1>. QED  BY <1>6, <1>7 DEF r

\* The lists are ordered by a rank: the priority, or the delay negated.
SortedBy(s, rank) == \A i, j \in 1 .. Len(s) : i <= j => rank[s[i]] >= rank[s[j]]

\* A walk that stops before the first task that must not precede the new one
\* keeps the list in order.
LEMMA InsertSorted ==
    ASSUME NEW S, NEW rank \in [S -> Int], NEW s \in Seq(S), NEW e \in S,
           SortedBy(s, rank), NEW B, \A x \in S : x \in B <=> rank[x] < rank[e]
    PROVE  /\ Slot(s, B) \in 1 .. Len(s) + 1
           /\ SortedBy(InsertAt(s, Slot(s, B), e), rank)
<1>0. Len(s) \in Nat /\ \A k \in 1 .. Len(s) : s[k] \in S
  BY LenProperties, ElementOfSeq
<1>. DEFINE n == Slot(s, B)
<1>1. /\ n \in 1 .. Len(s) + 1
      /\ \A j \in 1 .. Len(s) : j < n => s[j] \notin B
      /\ n <= Len(s) => s[n] \in B
  BY <1>0, FirstIndexFacts DEF Slot
<1>. HIDE DEF n
<1>. DEFINE r == InsertAt(s, n, e)
<1>2. /\ Len(r) = Len(s) + 1
      /\ \A k \in 1 .. Len(s) + 1 : r[k] = IF k < n THEN s[k] ELSE IF k = n THEN e ELSE s[k - 1]
  BY <1>1, InsertAtFacts
<1>. HIDE DEF r
<1>3. \A j \in 1 .. Len(s) : j < n => rank[s[j]] >= rank[e]
  <2>. SUFFICES ASSUME NEW j \in 1 .. Len(s), j < n PROVE rank[s[j]] >= rank[e]
    OBVIOUS
  <2>1. s[j] \in S /\ s[j] \notin B
    BY <1>0, <1>1
  <2>. QED  BY <2>1
<1>4. \A j \in 1 .. Len(s) : j >= n => rank[e] >= rank[s[j]]
  <2>. SUFFICES ASSUME NEW j \in 1 .. Len(s), j >= n PROVE rank[e] >= rank[s[j]]
    OBVIOUS
  <2>1. n \in 1 .. Len(s) /\ s[n] \in B /\ s[n] \in S /\ s[j] \in S
    BY <1>0, <1>1
  <2>2. rank[s[n]] >= rank[s[j]]
    BY <2>1 DEF SortedBy
  <2>. QED  BY <2>1, <2>2
<1>5. rank[e] >= rank[e]
  OBVIOUS
<1>6. ASSUME NEW i \in 1 .. Len(r), NEW j \in 1 .. Len(r), i <= j
      PROVE  rank[r[i]] >= rank[r[j]]
  <2>1. CASE i < n /\ j < n
    <3>1. r[i] = s[i] /\ r[j] = s[j] /\ i \in 1 .. Len(s) /\ j \in 1 .. Len(s)
      BY <2>1, <1>0, <1>1, <1>2
    <3>. QED  BY <3>1, <1>6 DEF SortedBy
  <2>2. CASE i < n /\ j = n
    BY <2>2, <1>0, <1>1, <1>2, <1>3
  <2>3. CASE i < n /\ j > n
    <3>1. r[i] = s[i] /\ r[j] = s[j - 1] /\ i \in 1 .. Len(s) /\ j - 1 \in 1 .. Len(s) /\ i <= j - 1
      BY <2>3, <1>0, <1>1, <1>2
    <3>. QED  BY <3>1 DEF SortedBy
  <2>4. CASE i = n /\ j = n
    BY <2>4, <1>0, <1>1, <1>2, <1>5
  <2>5. CASE i = n /\ j > n
    <3>1. r[i] = e /\ r[j] = s[j - 1] /\ j - 1 \in 1 .. Len(s) /\ j - 1 >= n
      BY <2>5, <1>0, <1>1, <1>2
    <3>. QED  BY <3>1, <1>4
  <2>6. CASE i > n
    <3>1. /\ i \in 1 .. Len(s) + 1 /\ j \in 1 .. Len(s) + 1 /\ n \in 1 .. Len(s) + 1
          /\ ~(i < n) /\ i # n /\ ~(j < n) /\ j # n
      BY <2>6, <1>0, <1>1, <1>2, <1>6
    <3>2. r[i] = s[i - 1] /\ r[j] = s[j - 1]
      BY <1>2, <3>1
    <3>3. i - 1 \in 1 .. Len(s) /\ j - 1 \in 1 .. Len(s) /\ i - 1 <= j - 1
      BY <1>0, <1>6, <2>6, <3>1
    <3>. QED  BY <3>2, <3>3 DEF SortedBy
  <2>7. \/ i < n /\ (j < n \/ j = n \/ j > n)
        \/ i = n /\ (j = n \/ j > n)
        \/ i > n
    BY <1>0, <1>1, <1>6
  <2>. QED  BY <2>1, <2>2, <2>3, <2>4, <2>5, <2>6, <2>7
<1>7. SortedBy(r, rank)
  BY <1>6 DEF SortedBy
<1>. QED  BY <1>1, <1>7 DEF n, r

\* Removing the first occurrence, duplicates or not.
LEMMA RemoveFirstType ==
    ASSUME NEW S, NEW s \in Seq(S), NEW e
    PROVE  RemoveFirst(s, e) \in Seq(S)
<1>0. Len(s) \in Nat
  BY LenProperties
<1>1. {i \in 1 .. Len(s) : s[i] = e} = {i \in 1 .. Len(s) : s[i] \in {e}}
  OBVIOUS
<1>2. RemoveFirst(s, e) = IF FirstIndex(s, {e}) = 0 THEN s ELSE RemoveAt(s, FirstIndex(s, {e}))
  <2>1. SelectInSeq(s, LAMBDA v : v = e) = FirstIndex(s, {e})
    BY <1>1 DEF SelectInSeq, FirstIndex
  <2>2. (\E i \in 1 .. Len(s) : s[i] = e) <=> FirstIndex(s, {e}) # 0
    BY <1>0, FirstIndexFacts
  <2>. QED  BY <2>1, <2>2 DEF RemoveFirst
<1>3. FirstIndex(s, {e}) \in 0 .. Len(s)
  BY FirstIndexFacts
<1>. QED  BY <1>0, <1>2, <1>3, RemoveAtFacts

-----------------------------------------------------------------------------
(***************************************************************************)
(* The scheduler lists of a kernel record.                                 *)
(***************************************************************************)

\* h differs from g at most in the lists, the statuses and what has halted.
Frame(g, h) ==
    /\ h.state = g.state /\ h.running = g.running /\ h.scheduled = g.scheduled
    /\ h.idle = g.idle /\ h.tasks = g.tasks /\ h.priority = g.priority
    /\ h.delay = g.delay /\ h.flags = g.flags /\ h.waits = g.waits
    /\ h.blocked = g.blocked /\ h.ret = g.ret

\* A failed OS_ASSERT changes nothing but what has halted.
LEMMA HaltedFacts ==
    ASSUME NEW g \in Kernel, NEW where \in Halts
    PROVE  LET h == [g EXCEPT !.halted = @ \cup {where}]
           IN  /\ h \in Kernel /\ Frame(g, h) /\ h.status = g.status
               /\ h.runqueue = g.runqueue /\ h.waitqueue = g.waitqueue
BY DEF Kernel, Frame

\* runqueue_remove
LEMMA RunqueueRemoveFacts ==
    ASSUME NEW g \in Kernel, NEW t \in Tasks, NoDuplicates(g.runqueue), RunqueueSorted(g)
    PROVE  LET h == RunqueueRemove(g, t)
           IN  /\ h \in Kernel /\ Frame(g, h)
               /\ h.status = g.status /\ h.waitqueue = g.waitqueue /\ h.halted = g.halted
               /\ NoDuplicates(h.runqueue) /\ RunqueueSorted(h)
               /\ \A x \in Tasks : Contains(h.runqueue, x) <=> Contains(g.runqueue, x) /\ x # t
<1>. DEFINE r == RemoveFirst(g.runqueue, t)
            h == RunqueueRemove(g, t)
<1>1. g.runqueue \in Seq(Tasks) /\ g.priority \in [Tasks -> 0 .. MaxPriority]
  BY DEF Kernel
<1>2. /\ r \in Seq(Tasks) /\ NoDuplicates(r)
      /\ \A x \in Tasks : Contains(r, x) <=> Contains(g.runqueue, x) /\ x # t
      /\ KeepsOrder(r, g.runqueue)
  BY <1>1, RemoveFirstFacts
<1>. HIDE DEF r
<1>3. /\ h \in Kernel /\ Frame(g, h) /\ h.status = g.status
      /\ h.waitqueue = g.waitqueue /\ h.runqueue = r /\ h.halted = g.halted
  BY <1>2 DEF Kernel, Frame, RunqueueRemove, r
<1>. HIDE DEF h
<1>4. RunqueueSorted(h)
  BY ZenonT(40), <1>2, <1>3 DEF RunqueueSorted, Frame, KeepsOrder
<1>. QED  BY <1>2, <1>3, <1>4 DEF h

\* A list in order of the given delays.
InOrder(s, delay) ==
    \A i, j \in 1 .. Len(s) : i <= j => delay[s[i]] <= delay[s[j]]

\* waitqueue_remove; the delay of the task that leaves may have changed.
LEMMA WaitqueueRemoveFacts ==
    ASSUME NEW g \in Kernel, NEW t \in Tasks, NoDuplicates(g.waitqueue),
           NEW delay, InOrder(g.waitqueue, delay),
           \A x \in Tasks : x # t => delay[x] = g.delay[x]
    PROVE  LET h == WaitqueueRemove(g, t)
           IN  /\ h \in Kernel /\ Frame(g, h)
               /\ h.status = g.status /\ h.runqueue = g.runqueue /\ h.halted = g.halted
               /\ NoDuplicates(h.waitqueue) /\ WaitqueueSorted(h)
               /\ \A x \in Tasks : Contains(h.waitqueue, x) <=> Contains(g.waitqueue, x) /\ x # t
<1>. DEFINE r == RemoveFirst(g.waitqueue, t)
            h == WaitqueueRemove(g, t)
<1>1. g.waitqueue \in Seq(Tasks)
  BY DEF Kernel
<1>2. /\ r \in Seq(Tasks) /\ NoDuplicates(r)
      /\ \A x \in Tasks : Contains(r, x) <=> Contains(g.waitqueue, x) /\ x # t
      /\ KeepsOrder(r, g.waitqueue)
  BY <1>1, RemoveFirstFacts
<1>. HIDE DEF r
<1>3. /\ h \in Kernel /\ Frame(g, h) /\ h.status = g.status
      /\ h.runqueue = g.runqueue /\ h.waitqueue = r /\ h.halted = g.halted
  BY <1>2 DEF Kernel, Frame, WaitqueueRemove, r
<1>. HIDE DEF h
<1>4. \A i \in 1 .. Len(r) : r[i] \in Tasks /\ r[i] # t
  BY <1>2, ElementOfSeq DEF Contains
<1>5. WaitqueueSorted(h)
  <2>. SUFFICES ASSUME NEW i \in 1 .. Len(r), NEW j \in 1 .. Len(r), i <= j
                PROVE  g.delay[r[i]] <= g.delay[r[j]]
    BY <1>3 DEF WaitqueueSorted, Frame
  <2>1. delay[r[i]] <= delay[r[j]]
    BY ZenonT(40), <1>2 DEF KeepsOrder, InOrder
  <2>. QED  BY <1>4, <2>1
<1>. QED  BY <1>2, <1>3, <1>5 DEF h

\* runqueue_add of a task that is not queued
LEMMA RunqueueAddFacts ==
    ASSUME NEW g \in Kernel, NEW t \in Tasks, NoDuplicates(g.runqueue),
           RunqueueSorted(g), ~Contains(g.runqueue, t)
    PROVE  LET h == RunqueueAdd(g, t)
           IN  /\ h \in Kernel /\ Frame(g, h)
               /\ h.status = g.status /\ h.waitqueue = g.waitqueue
               /\ NoDuplicates(h.runqueue) /\ RunqueueSorted(h)
               /\ \A x \in Tasks : Contains(h.runqueue, x) <=> Contains(g.runqueue, x) \/ x = t
               /\ g.status[t] \notin {"WAIT", "FINISHED"} => h.halted = g.halted
<1>. DEFINE q == g.runqueue
            r == InsertAt(q, Slot(q, Lower(g, t)), t)
            h == RunqueueAdd(g, t)
            w == OsAssert(g, q = <<>> \/ g.status[t] \notin {"WAIT", "FINISHED"}, "os.c:946")
<1>1. q \in Seq(Tasks) /\ g.priority \in [Tasks -> Int]
  BY MaxPriorityAssumption DEF Kernel
<1>2. SortedBy(q, g.priority)
  BY DEF SortedBy, RunqueueSorted
<1>3. \A x \in Tasks : x \in Lower(g, t) <=> g.priority[x] < g.priority[t]
  BY <1>1 DEF Lower
<1>5. Slot(q, Lower(g, t)) \in 1 .. Len(q) + 1 /\ SortedBy(r, g.priority)
  BY <1>1, <1>2, <1>3, InsertSorted
<1>6. r \in Seq(Tasks)
  BY <1>1, <1>5, InsertAtFacts
<1>7. /\ NoDuplicates(r)
      /\ \A x \in Tasks : Contains(r, x) <=> Contains(q, x) \/ x = t
  BY <1>1, <1>5, InsertNew
<1>. HIDE DEF r
<1>8. /\ w \in Kernel /\ Frame(g, w) /\ w.status = g.status /\ w.waitqueue = g.waitqueue
      /\ g.status[t] \notin {"WAIT", "FINISHED"} => w.halted = g.halted
  <2>. DEFINE failed == [g EXCEPT !.halted = @ \cup {"os.c:946"}]
  <2>1. /\ w = g \/ w = failed
        /\ g.status[t] \notin {"WAIT", "FINISHED"} => w = g
    BY DEF OsAssert
  <2>. HIDE DEF failed, w, q, h
  <2>2. /\ failed \in Kernel /\ Frame(g, failed) /\ failed.status = g.status
        /\ failed.waitqueue = g.waitqueue
    <3>1. "os.c:946" \in Halts
      BY DEF Halts
    <3>. QED  BY <3>1, HaltedFacts, Zenon DEF failed
  <2>. QED  BY <2>1, <2>2 DEF Frame
<1>. HIDE DEF w
<1>9. /\ h \in Kernel /\ Frame(g, h) /\ h.status = g.status
      /\ h.waitqueue = g.waitqueue /\ h.runqueue = r /\ h.halted = w.halted
  <2>1. h = [w EXCEPT !.runqueue = r]
    BY DEF RunqueueAdd, w, r
  <2>. QED  BY <1>6, <1>8, <2>1 DEF Kernel, Frame
<1>. HIDE DEF h
<1>10. RunqueueSorted(h)
  BY <1>5, <1>9 DEF SortedBy, RunqueueSorted, Frame
<1>. QED  BY <1>7, <1>8, <1>9, <1>10 DEF h

\* waitqueue_add of a task that is not queued
LEMMA WaitqueueAddFacts ==
    ASSUME NEW g \in Kernel, NEW t \in Tasks, NoDuplicates(g.waitqueue),
           WaitqueueSorted(g), ~Contains(g.waitqueue, t)
    PROVE  LET h == WaitqueueAdd(g, t)
           IN  /\ h \in Kernel /\ Frame(g, h)
               /\ h.status = g.status /\ h.runqueue = g.runqueue /\ h.halted = g.halted
               /\ NoDuplicates(h.waitqueue) /\ WaitqueueSorted(h)
               /\ \A x \in Tasks : Contains(h.waitqueue, x) <=> Contains(g.waitqueue, x) \/ x = t
<1>. DEFINE q == g.waitqueue
            rank == [u \in Tasks |-> 0 - g.delay[u]]
            r == InsertAt(q, Slot(q, Later(g, t)), t)
            h == WaitqueueAdd(g, t)
            w == OsAssert(g, ~Contains(q, t), "os.c:1042")
<1>1. q \in Seq(Tasks) /\ g.delay \in [Tasks -> Int]
  BY ForeverAssumption DEF Kernel
<1>2. /\ rank \in [Tasks -> Int]
      /\ \A x, y \in Tasks : /\ rank[x] >= rank[y] <=> g.delay[x] <= g.delay[y]
                             /\ rank[x] < rank[y] <=> g.delay[y] < g.delay[x]
  BY <1>1
<1>. HIDE DEF rank
<1>3. SortedBy(q, rank)
  BY <1>1, <1>2, ElementOfSeq DEF SortedBy, WaitqueueSorted
<1>4. \A x \in Tasks : x \in Later(g, t) <=> rank[x] < rank[t]
  BY <1>2 DEF Later
<1>5. Slot(q, Later(g, t)) \in 1 .. Len(q) + 1 /\ SortedBy(r, rank)
  BY <1>1, <1>2, <1>3, <1>4, InsertSorted
<1>6. r \in Seq(Tasks)
  BY <1>1, <1>5, InsertAtFacts
<1>7. /\ NoDuplicates(r)
      /\ \A x \in Tasks : Contains(r, x) <=> Contains(q, x) \/ x = t
  BY <1>1, <1>5, InsertNew
<1>. HIDE DEF r
<1>8. /\ w \in Kernel /\ Frame(g, w) /\ w.status = g.status /\ w.runqueue = g.runqueue
      /\ w.halted = g.halted
  BY DEF OsAssert, Kernel, Frame
<1>. HIDE DEF w
<1>9. /\ h \in Kernel /\ Frame(g, h) /\ h.status = g.status
      /\ h.runqueue = g.runqueue /\ h.waitqueue = r /\ h.halted = g.halted
  <2>1. h = [w EXCEPT !.waitqueue = r]
    BY DEF WaitqueueAdd, w, r
  <2>. QED  BY <1>6, <1>8, <2>1 DEF Kernel, Frame
<1>. HIDE DEF h
<1>10. WaitqueueSorted(h)
  BY <1>2, <1>5, <1>6, <1>9, ElementOfSeq DEF SortedBy, WaitqueueSorted, Frame
<1>. QED  BY <1>7, <1>9, <1>10 DEF h

-----------------------------------------------------------------------------
(***************************************************************************)
(* The kernel invariant, and that each handler keeps it.                   *)
(***************************************************************************)
\* osi_task_status_set, called for a change its callers make: a task becomes
\* IDLE that was not running, WAIT that was not waiting, and no waiting task
\* finishes.
LEMMA StatusSetInv ==
    ASSUME NEW g, KernelInv(g), NEW t \in Tasks,
           NEW new \in {"WAIT", "SUSPENDED", "IDLE"} \cup LeftStatus,
           new = "IDLE" => g.status[t] \notin RunningStatus,
           new = "WAIT" \/ new \in LeftStatus => g.status[t] # "WAIT"
    PROVE  LET h == StatusSet(g, t, new)
           IN  /\ KernelInv(h) /\ Frame(g, h) /\ h.halted = g.halted
               /\ h.status = [g.status EXCEPT ![t] = new]
<1>. DEFINE set == [g EXCEPT !.status[t] = new]
            st == [g.status EXCEPT ![t] = new]
            h == StatusSet(g, t, new)
<1>1. /\ g \in Kernel /\ g.status \in [Tasks -> Statuses]
      /\ NoDuplicates(g.runqueue) /\ NoDuplicates(g.waitqueue)
      /\ RunqueueSorted(g) /\ WaitqueueSorted(g)
      /\ \A x \in Tasks : Contains(g.runqueue, x) <=> g.status[x] \in RunningStatus
      /\ \A x \in Tasks : Contains(g.waitqueue, x) <=> g.status[x] = "WAIT"
  BY DEF KernelInv, QueuesMatchStatus, Kernel
<1>2. new \in Statuses
  BY DEF Statuses, RunningStatus, LeftStatus
<1>3. /\ set \in Kernel /\ Frame(g, set) /\ set.status = st
      /\ set.runqueue = g.runqueue /\ set.waitqueue = g.waitqueue /\ set.halted = g.halted
  BY <1>1, <1>2 DEF Kernel, Frame
<1>4. RunqueueSorted(set) /\ WaitqueueSorted(set) /\ InOrder(set.waitqueue, set.delay)
  BY <1>1, <1>3 DEF RunqueueSorted, WaitqueueSorted, Frame, InOrder
<1>5. \A x \in Tasks : st[x] = IF x = t THEN new ELSE g.status[x]
  BY <1>1
<1>. HIDE DEF set, st
<1>6. CASE new = "WAIT"
  <2>. DEFINE k == RunqueueRemove(set, t)
  <2>1. /\ k \in Kernel /\ Frame(set, k) /\ k.status = st /\ k.waitqueue = g.waitqueue
        /\ k.halted = g.halted
        /\ NoDuplicates(k.runqueue) /\ RunqueueSorted(k)
        /\ \A x \in Tasks : Contains(k.runqueue, x) <=> Contains(g.runqueue, x) /\ x # t
    BY <1>1, <1>3, <1>4, RunqueueRemoveFacts
  <2>. HIDE DEF k
  <2>2. WaitqueueSorted(k) /\ ~Contains(k.waitqueue, t)
    BY <1>1, <1>3, <1>4, <1>6, <2>1 DEF WaitqueueSorted, Frame
  <2>. DEFINE l == WaitqueueAdd(k, t)
  <2>3. /\ l \in Kernel /\ Frame(k, l) /\ l.status = st /\ l.runqueue = k.runqueue
        /\ l.halted = g.halted
        /\ NoDuplicates(l.waitqueue) /\ WaitqueueSorted(l)
        /\ \A x \in Tasks : Contains(l.waitqueue, x) <=> Contains(g.waitqueue, x) \/ x = t
    BY <1>1, <2>1, <2>2, WaitqueueAddFacts
  <2>. HIDE DEF l
  <2>4. h = l
    BY <1>6 DEF StatusSet, k, l, set, LeftStatus
  <2>5. RunqueueSorted(l)
    BY <2>1, <2>3 DEF RunqueueSorted, Frame
  <2>6. QueuesMatchStatus(l)
    BY <1>1, <1>5, <1>6, <2>1, <2>3 DEF QueuesMatchStatus, RunningStatus
  <2>7. Frame(g, l)
    BY <1>3, <2>1, <2>3 DEF Frame
  <2>. QED  BY <2>3, <2>4, <2>5, <2>6, <2>7 DEF KernelInv, st
<1>7. CASE new \in LeftStatus
  <2>. DEFINE k == RunqueueRemove(set, t)
  <2>1. /\ k \in Kernel /\ Frame(set, k) /\ k.status = st /\ k.waitqueue = g.waitqueue
        /\ k.halted = g.halted
        /\ NoDuplicates(k.runqueue) /\ RunqueueSorted(k)
        /\ \A x \in Tasks : Contains(k.runqueue, x) <=> Contains(g.runqueue, x) /\ x # t
    BY <1>1, <1>3, <1>4, RunqueueRemoveFacts
  <2>. HIDE DEF k
  <2>2. h = k
    BY <1>7 DEF StatusSet, k, set, LeftStatus
  <2>3. WaitqueueSorted(k) /\ NoDuplicates(k.waitqueue)
    BY <1>1, <1>3, <1>4, <2>1 DEF WaitqueueSorted, Frame
  <2>4. QueuesMatchStatus(k)
    BY <1>1, <1>5, <1>7, <2>1, <2>3 DEF QueuesMatchStatus, RunningStatus, LeftStatus
  <2>5. Frame(g, k)
    BY <1>3, <2>1 DEF Frame
  <2>. QED  BY <2>1, <2>2, <2>3, <2>4, <2>5 DEF KernelInv, st
<1>8. CASE new = "SUSPENDED"
  <2>. DEFINE k == WaitqueueRemove(set, t)
  <2>1. /\ k \in Kernel /\ Frame(set, k) /\ k.status = st /\ k.runqueue = g.runqueue
        /\ k.halted = g.halted
        /\ NoDuplicates(k.waitqueue) /\ WaitqueueSorted(k)
        /\ \A x \in Tasks : Contains(k.waitqueue, x) <=> Contains(g.waitqueue, x) /\ x # t
    BY <1>1, <1>3, <1>4, WaitqueueRemoveFacts
  <2>. HIDE DEF k
  <2>2. RunqueueSorted(k)
    BY <1>1, <1>3, <1>4, <2>1 DEF RunqueueSorted, Frame
  <2>. DEFINE l == RunqueueRemove(k, t)
  <2>3. /\ l \in Kernel /\ Frame(k, l) /\ l.status = st /\ l.waitqueue = k.waitqueue
        /\ l.halted = g.halted
        /\ NoDuplicates(l.runqueue) /\ RunqueueSorted(l)
        /\ \A x \in Tasks : Contains(l.runqueue, x) <=> Contains(g.runqueue, x) /\ x # t
    BY <1>1, <2>1, <2>2, RunqueueRemoveFacts
  <2>. HIDE DEF l
  <2>4. h = l
    BY <1>8 DEF StatusSet, k, l, set, LeftStatus
  <2>5. WaitqueueSorted(l)
    BY <2>1, <2>3 DEF WaitqueueSorted, Frame
  <2>6. QueuesMatchStatus(l)
    BY <1>1, <1>5, <1>8, <2>1, <2>3 DEF QueuesMatchStatus, RunningStatus
  <2>7. Frame(g, l)
    BY <1>3, <2>1, <2>3 DEF Frame
  <2>. QED  BY <2>3, <2>4, <2>5, <2>6, <2>7 DEF KernelInv, st
<1>9. CASE new = "IDLE"
  <2>. DEFINE k == IF g.status[t] = "WAIT" THEN WaitqueueRemove(set, t) ELSE set
  <2>1. /\ k \in Kernel /\ Frame(set, k) /\ k.status = st /\ k.runqueue = g.runqueue
        /\ k.halted = g.halted
        /\ NoDuplicates(k.waitqueue) /\ WaitqueueSorted(k)
        /\ \A x \in Tasks : Contains(k.waitqueue, x) <=> Contains(g.waitqueue, x) /\ x # t
    <3>1. CASE g.status[t] = "WAIT"
      BY SMTT(30), <1>1, <1>3, <1>4, <3>1, WaitqueueRemoveFacts
    <3>2. CASE g.status[t] # "WAIT"
      BY <1>1, <1>3, <1>4, <3>2 DEF Frame
    <3>. QED  BY <3>1, <3>2
  <2>. HIDE DEF k
  <2>2. RunqueueSorted(k) /\ ~Contains(k.runqueue, t) /\ NoDuplicates(k.runqueue)
    BY <1>1, <1>3, <1>4, <1>9, <2>1 DEF RunqueueSorted, Frame
  <2>3. k.status[t] \notin {"WAIT", "FINISHED"}
    BY <1>5, <1>9, <2>1
  <2>. DEFINE l == RunqueueAdd(k, t)
  <2>4. /\ l \in Kernel /\ Frame(k, l) /\ l.status = st /\ l.waitqueue = k.waitqueue
        /\ l.halted = g.halted
        /\ NoDuplicates(l.runqueue) /\ RunqueueSorted(l)
        /\ \A x \in Tasks : Contains(l.runqueue, x) <=> Contains(g.runqueue, x) \/ x = t
    BY <2>1, <2>2, <2>3, RunqueueAddFacts
  <2>. HIDE DEF l
  <2>5. h = l
    BY <1>9 DEF StatusSet, k, l, set, LeftStatus
  <2>6. WaitqueueSorted(l)
    BY <2>1, <2>4 DEF WaitqueueSorted, Frame
  <2>7. QueuesMatchStatus(l)
    BY <1>1, <1>5, <1>9, <2>1, <2>4 DEF QueuesMatchStatus, RunningStatus
  <2>8. Frame(g, l)
    BY <1>3, <2>1, <2>4 DEF Frame
  <2>. QED  BY <2>4, <2>5, <2>6, <2>7, <2>8 DEF KernelInv, st
<1>. QED  BY <1>6, <1>7, <1>8, <1>9

-----------------------------------------------------------------------------
(***************************************************************************)
(* osi_schedule: its search finds a ready task or nothing.                 *)
(***************************************************************************)

\* A walk returns an element of the list that it looked for, or NULL.
LEMMA FirstOfFacts ==
    ASSUME NEW S, NEW s \in Seq(S), NEW T
    PROVE  \/ FirstOf(s, T) = None
           \/ FirstOf(s, T) \in S \cap T /\ Contains(s, FirstOf(s, T))
<1>. DEFINE n == FirstIndex(s, T)
<1>1. n \in 0 .. Len(s) /\ (n # 0 => s[n] \in T)
  BY FirstIndexFacts
<1>2. Len(s) \in Nat
  BY LenProperties
<1>. HIDE DEF n
<1>3. CASE n = 0
  BY <1>3 DEF FirstOf, n
<1>4. CASE n # 0
  <2>1. n \in 1 .. Len(s)
    BY <1>1, <1>2, <1>4
  <2>2. FirstOf(s, T) = s[n]
    BY <1>4 DEF FirstOf, n
  <2>3. s[n] \in S
    BY <2>1, ElementOfSeq
  <2>. QED  BY <1>1, <1>4, <2>1, <2>2, <2>3 DEF Contains
<1>. QED  BY <1>3, <1>4

\* A walk that finds nothing has passed nothing it looked for, and one that
\* finds something stops at the first.
LEMMA FirstOfIsFirst ==
    ASSUME NEW S, NEW s \in Seq(S), None \notin S, NEW T
    PROVE  /\ FirstOf(s, T) = None => \A j \in 1 .. Len(s) : s[j] \notin T
           /\ FirstOf(s, T) # None =>
                  \E n \in 1 .. Len(s) : /\ s[n] = FirstOf(s, T) /\ s[n] \in T
                                         /\ \A j \in 1 .. Len(s) : s[j] \in T => n <= j
<1>. DEFINE n == FirstIndex(s, T)
<1>1. /\ n \in 0 .. Len(s) /\ (n # 0 => s[n] \in T)
      /\ \A j \in 1 .. Len(s) : s[j] \in T => n # 0 /\ n <= j
  BY FirstIndexFacts
<1>2. Len(s) \in Nat /\ \A j \in 1 .. Len(s) : s[j] \in S
  BY LenProperties, ElementOfSeq
<1>3. FirstOf(s, T) = IF n = 0 THEN None ELSE s[n]
  BY DEF FirstOf
<1>. HIDE DEF n
<1>4. n # 0 => n \in 1 .. Len(s)
  BY <1>1, <1>2
<1>5. n # 0 => s[n] # None
  BY <1>2, <1>4
<1>. QED  BY <1>1, <1>3, <1>4, <1>5

\* The walk of find_new_task: the runqueue once around, from behind the
\* running task.
LEMMA WalkFacts ==
    ASSUME NEW g \in Kernel
    PROVE  LET q == g.runqueue
               at == FirstIndex(q, {g.running})
           IN  /\ Walk(g) \in Seq(Tasks) /\ Len(Walk(g)) = Len(q) /\ at \in 0 .. Len(q)
               /\ \A m \in 1 .. Len(q) : Walk(g)[m] =
                      IF m <= Len(q) - at THEN q[m + at] ELSE q[m - (Len(q) - at)]
<1>. DEFINE q == g.runqueue
            n == FirstIndex(q, {g.running})
            a == SubSeq(q, n + 1, Len(q))
            b == SubSeq(q, 1, n)
<1>1. q \in Seq(Tasks) /\ Len(q) \in Nat
  BY LenProperties DEF Kernel
<1>2. n \in 0 .. Len(q)
  BY <1>1, FirstIndexFacts
<1>3. /\ a \in Seq(Tasks) /\ Len(a) = Len(q) - n
      /\ \A k \in 1 .. Len(q) - n : a[k] = q[k + n]
      /\ b \in Seq(Tasks) /\ Len(b) = n
      /\ \A k \in 1 .. n : b[k] = q[k]
  <2>. HIDE DEF q, n
  <2>1. /\ n + 1 \in 1 .. Len(q) + 1 /\ Len(q) \in 0 .. Len(q) /\ 1 \in 1 .. Len(q) + 1
        /\ n + 1 <= Len(q) + 1 /\ Len(q) - (n + 1) + 1 = Len(q) - n /\ n - 1 + 1 = n
        /\ \A k \in 1 .. Len(q) - n : (n + 1) + k - 1 = k + n
    BY <1>1, <1>2
  <2>2. /\ a \in Seq(Tasks) /\ Len(a) = Len(q) - n
        /\ \A k \in 1 .. Len(q) - n : a[k] = q[k + n]
    <3>1. /\ a \in Seq(Tasks)
          /\ Len(a) = IF n + 1 <= Len(q) THEN Len(q) - (n + 1) + 1 ELSE 0
          /\ \A k \in 1 .. Len(q) - (n + 1) + 1 : a[k] = q[(n + 1) + k - 1]
      BY <1>1, <2>1, SubSeqProperties
    <3>2. Len(a) = Len(q) - n
      BY <1>1, <1>2, <3>1
    <3>. QED  BY <2>1, <3>1, <3>2
  <2>3. /\ b \in Seq(Tasks) /\ Len(b) = n
        /\ \A k \in 1 .. n : b[k] = q[k]
    BY <1>1, <1>2, <2>1, SubSeqProperties
  <2>. QED  BY <2>2, <2>3
<1>4. Walk(g) = a \o b
  BY DEF Walk
<1>. HIDE DEF a, b, n, q
<1>5. /\ a \o b \in Seq(Tasks) /\ Len(a \o b) = Len(a) + Len(b)
      /\ \A m \in 1 .. Len(a) + Len(b) :
             (a \o b)[m] = IF m <= Len(a) THEN a[m] ELSE b[m - Len(a)]
  BY <1>3, ConcatProperties
<1>6. Len(a) + Len(b) = Len(q)
  BY <1>1, <1>2, <1>3
<1>7. ASSUME NEW m \in 1 .. Len(q)
      PROVE  (a \o b)[m] = IF m <= Len(q) - n THEN q[m + n] ELSE q[m - (Len(q) - n)]
  <2>1. CASE m <= Len(q) - n
    BY <1>1, <1>2, <1>3, <1>5, <1>6, <2>1
  <2>2. CASE ~(m <= Len(q) - n)
    <3>1. m - (Len(q) - n) \in 1 .. n
      BY <1>1, <1>2, <2>2
    <3>. QED  BY <1>3, <1>5, <1>6, <2>2, <3>1
  <2>. QED  BY <2>1, <2>2
<1>. QED  BY <1>2, <1>4, <1>5, <1>6, <1>7 DEF n, q

\* The walk passes every task of the runqueue.
LEMMA WalkPassesAll ==
    ASSUME NEW g \in Kernel, NEW i \in 1 .. Len(g.runqueue)
    PROVE  \E m \in 1 .. Len(Walk(g)) : Walk(g)[m] = g.runqueue[i]
<1>. DEFINE q == g.runqueue
            n == FirstIndex(q, {g.running})
<1>1. Len(q) \in Nat
  BY LenProperties DEF Kernel
<1>2. /\ Len(Walk(g)) = Len(q) /\ n \in 0 .. Len(q)
      /\ \A m \in 1 .. Len(q) : Walk(g)[m] =
             IF m <= Len(q) - n THEN q[m + n] ELSE q[m - (Len(q) - n)]
  BY WalkFacts
<1>. HIDE DEF n
<1>3. CASE i > n
  <2>1. /\ i - n \in 1 .. Len(q) /\ i - n <= Len(q) - n /\ (i - n) + n = i
    BY <1>1, <1>2, <1>3
  <2>. QED  BY <1>2, <2>1
<1>4. CASE i <= n
  <2>1. /\ i + (Len(q) - n) \in 1 .. Len(q) /\ ~(i + (Len(q) - n) <= Len(q) - n)
        /\ (i + (Len(q) - n)) - (Len(q) - n) = i
    BY <1>1, <1>2, <1>4
  <2>. QED  BY <1>2, <2>1
<1>. QED  BY <1>1, <1>2, <1>3, <1>4

\* Among tasks of the runqueue that are all before the running task, or when
\* that has left the runqueue, the walk finds one of the highest priority.
LEMMA FirstIsBest ==
    ASSUME NEW g, KernelInv(g), NEW T, FirstOf(Walk(g), T) # None,
           LET at == FirstIndex(g.runqueue, {g.running})
           IN  at = 0 \/ \A i \in 1 .. Len(g.runqueue) : g.runqueue[i] \in T => i <= at,
           NEW u \in T, Contains(g.runqueue, u)
    PROVE  g.priority[u] <= g.priority[FirstOf(Walk(g), T)]
<1>. DEFINE q == g.runqueue
            n == FirstIndex(q, {g.running})
            w == Walk(g)
<1>1. g \in Kernel /\ Len(q) \in Nat /\ RunqueueSorted(g)
  BY LenProperties DEF Kernel, KernelInv
<1>2. /\ w \in Seq(Tasks) /\ Len(w) = Len(q) /\ n \in 0 .. Len(q)
      /\ \A m \in 1 .. Len(q) : w[m] =
             IF m <= Len(q) - n THEN q[m + n] ELSE q[m - (Len(q) - n)]
  BY <1>1, WalkFacts
<1>3. n = 0 \/ \A i \in 1 .. Len(q) : q[i] \in T => i <= n
  OBVIOUS
<1>. HIDE DEF w, n
<1>4. PICK k \in 1 .. Len(w) : /\ w[k] = FirstOf(w, T) /\ w[k] \in T
                               /\ \A j \in 1 .. Len(w) : w[j] \in T => k <= j
  BY <1>2, FirstOfIsFirst, NoneAssumption DEF w
<1>5. PICK i \in 1 .. Len(q) : q[i] = u
  BY DEF Contains
<1>. DEFINE back(m) == IF n = 0 THEN m ELSE m + (Len(q) - n)
<1>6. back(i) \in 1 .. Len(w) /\ w[back(i)] = u
  <2>1. CASE n = 0
    BY <1>1, <1>2, <1>5, <2>1
  <2>2. CASE n # 0
    <3>1. i <= n
      BY <1>3, <1>5, <2>2
    <3>2. /\ i + (Len(q) - n) \in 1 .. Len(q) /\ ~(i + (Len(q) - n) <= Len(q) - n)
          /\ (i + (Len(q) - n)) - (Len(q) - n) = i
      BY <1>1, <1>2, <3>1
    <3>. QED  BY <1>2, <1>5, <2>2, <3>2
  <2>. QED  BY <2>1, <2>2
<1>7. PICK j \in 1 .. Len(q) : q[j] = w[k] /\ k = back(j)
  <2>1. CASE n = 0
    BY <1>1, <1>2, <2>1
  <2>2. CASE n # 0
    <3>1. CASE k <= Len(q) - n
      <4>1. k + n \in 1 .. Len(q) /\ q[k + n] = w[k] /\ ~(k + n <= n)
        BY <1>1, <1>2, <3>1
      <4>. QED  BY <1>3, <1>4, <2>2, <4>1
    <3>2. CASE ~(k <= Len(q) - n)
      <4>1. /\ k - (Len(q) - n) \in 1 .. Len(q) /\ q[k - (Len(q) - n)] = w[k]
            /\ k = (k - (Len(q) - n)) + (Len(q) - n)
        BY <1>1, <1>2, <3>2
      <4>. QED  BY <2>2, <4>1
    <3>. QED  BY <3>1, <3>2
  <2>. QED  BY <2>1, <2>2
<1>8. j <= i
  <2>1. back(j) <= back(i)
    BY <1>4, <1>6, <1>7
  <2>. QED  BY <1>1, <1>2, <2>1
<1>9. g.priority[q[j]] >= g.priority[q[i]]
  BY <1>1, <1>8 DEF RunqueueSorted
<1>10. q[j] \in Tasks /\ q[i] \in Tasks /\ g.priority \in [Tasks -> Int]
  BY <1>1, ElementOfSeq, MaxPriorityAssumption DEF Kernel
<1>. QED  BY <1>4, <1>5, <1>7, <1>9, <1>10 DEF w

\* find_new_task finds a ready task of the highest priority, and nothing
\* only if nothing is ready.
LEMMA FindNewTaskFacts ==
    ASSUME NEW g, KernelInv(g), g.running \in Tasks
    PROVE  /\ FindNewTask(g) \in Ready(g) \cup {None}
           /\ FindNewTask(g) # None =>
                  \A u \in Ready(g) : g.priority[u] <= g.priority[FindNewTask(g)]
           /\ FindNewTask(g) = None => Ready(g) = {}
<1>. DEFINE q == g.runqueue
            n == FirstIndex(q, {g.running})
            ours == g.priority[g.running]
            higher == {u \in Ready(g) : g.priority[u] > ours}
            equal == {u \in Ready(g) : g.priority[u] = ours}
            lower == {u \in Ready(g) : g.priority[u] < ours}
            first(T) == FirstOf(Walk(g), T)
<1>1. /\ g \in Kernel /\ g.priority \in [Tasks -> Int] /\ Len(q) \in Nat /\ q \in Seq(Tasks)
      /\ RunqueueSorted(g) /\ \A t \in Tasks : t \in Ready(g) <=> Contains(q, t)
  BY MaxPriorityAssumption, LenProperties DEF KernelInv, Kernel, QueuesMatchStatus, Ready
<1>2. FindNewTask(g) = IF first(higher) # None THEN first(higher)
                       ELSE IF first(equal) # None THEN first(equal)
                       ELSE IF g.running \in Ready(g) THEN None ELSE first(lower)
  BY Zenon DEF FindNewTask
<1>3. \A T : first(T) = None \/ first(T) \in T
  BY <1>1, WalkFacts, FirstOfFacts
<1>4. ASSUME NEW T, first(T) = None PROVE \A u \in T \cap Ready(g) : FALSE
  <2>. SUFFICES ASSUME NEW u \in T, u \in Ready(g) PROVE FALSE
    OBVIOUS
  <2>1. PICK i \in 1 .. Len(q) : q[i] = u
    BY <1>1 DEF Contains, Ready
  <2>2. PICK m \in 1 .. Len(Walk(g)) : Walk(g)[m] = u
    BY <1>1, <2>1, WalkPassesAll
  <2>. QED  BY <1>1, <1>4, <2>2, WalkFacts, FirstOfIsFirst, NoneAssumption
<1>5. \A u \in Ready(g) : u \in Tasks
  BY DEF Ready
<1>6. \A u \in Ready(g) : u \in higher \/ u \in equal \/ u \in lower
  BY <1>1, <1>5
<1>7. n # 0 => n \in 1 .. Len(q) /\ q[n] = g.running
  BY <1>1, FirstIndexFacts
<1>8. \A i \in 1 .. Len(q) : q[i] \in higher => n = 0 \/ i <= n
  <2>. SUFFICES ASSUME NEW i \in 1 .. Len(q), q[i] \in higher, n # 0, i > n
                PROVE  FALSE
    BY SMTT(40), <1>1, FirstIndexFacts
  <2>1. g.priority[q[n]] >= g.priority[q[i]]
    BY <1>1, <1>7 DEF RunqueueSorted
  <2>. QED  BY <1>1, <1>5, <1>7, <2>1
<1>9. g.running \notin Ready(g) => n = 0
  BY <1>1, <1>7 DEF Contains
<1>10. /\ \A u \in higher : u \in Ready(g) /\ g.priority[u] > ours
       /\ \A u \in equal : u \in Ready(g) /\ g.priority[u] = ours
       /\ \A u \in lower : u \in Ready(g) /\ g.priority[u] < ours
  OBVIOUS
<1>11. ours \in Int
  BY <1>1
<1>12. g.running \in Ready(g) => g.running \in equal
  OBVIOUS
<1>13. ASSUME first(higher) # None, NEW u \in higher
       PROVE  g.priority[u] <= g.priority[first(higher)]
  BY <1>1, <1>5, <1>8, <1>10, <1>13, FirstIsBest
<1>14. ASSUME first(lower) # None, g.running \notin Ready(g), NEW u \in lower
       PROVE  g.priority[u] <= g.priority[first(lower)]
  BY <1>1, <1>5, <1>9, <1>10, <1>14, FirstIsBest
<1>. HIDE DEF first, higher, equal, lower, ours, n, q
<1>15. CASE first(higher) # None
  <2>1. first(higher) \in higher
    BY <1>3, <1>15
  <2>2. ASSUME NEW u \in Ready(g) PROVE g.priority[u] <= g.priority[first(higher)]
    <3>1. u \in higher \/ g.priority[u] <= ours
      BY <1>1, <1>5, <1>6, <1>10, <1>11
    <3>. QED  BY <1>1, <1>5, <1>10, <1>11, <1>13, <1>15, <2>1, <3>1
  <2>. QED  BY <1>2, <1>10, <1>15, <2>1, <2>2
<1>16. CASE first(higher) = None /\ first(equal) # None
  <2>1. first(equal) \in equal
    BY <1>3, <1>16
  <2>2. ASSUME NEW u \in Ready(g) PROVE g.priority[u] <= g.priority[first(equal)]
    BY <1>1, <1>4, <1>5, <1>6, <1>10, <1>11, <1>16, <2>1
  <2>. QED  BY <1>2, <1>10, <1>16, <2>1, <2>2
<1>17. CASE first(higher) = None /\ first(equal) = None
  <2>1. g.running \notin Ready(g)
    BY <1>4, <1>12, <1>17
  <2>2. FindNewTask(g) = first(lower)
    BY <1>2, <1>17, <2>1
  <2>3. \A u \in Ready(g) : u \in lower
    BY <1>4, <1>6, <1>17
  <2>4. first(lower) = None => Ready(g) = {}
    BY <1>4, <2>3
  <2>5. first(lower) # None => first(lower) \in Ready(g)
    BY <1>3, <1>10
  <2>. QED  BY <1>14, <2>1, <2>2, <2>3, <2>4, <2>5
<1>. QED  BY <1>15, <1>16, <1>17

\* The wake-up loop of osi_schedule: one task whose time has come, if there
\* is one, becomes IDLE.
LEMMA WakeOneInv ==
    ASSUME NEW g, KernelInv(g)
    PROVE  LET h == WakeOne(g)
           IN  /\ KernelInv(h) /\ Frame(g, h) /\ h.halted = g.halted
               /\ \A t \in Tasks :
                      \/ h.status[t] = g.status[t]
                      \/ g.status[t] = "WAIT" /\ g.delay[t] = 0 /\ h.status[t] = "IDLE"
<1>. DEFINE expired == {u \in Tasks : g.delay[u] = 0}
            t == FirstOf(g.waitqueue, expired)
            h == StatusSet(g, t, "IDLE")
<1>1. /\ g.waitqueue \in Seq(Tasks) /\ g.status \in [Tasks -> Statuses]
      /\ \A x \in Tasks : Contains(g.waitqueue, x) <=> g.status[x] = "WAIT"
  BY DEF KernelInv, Kernel, QueuesMatchStatus
<1>2. \/ t = None
      \/ t \in Tasks /\ t \in expired /\ Contains(g.waitqueue, t)
  BY <1>1, FirstOfFacts
<1>3. WakeOne(g) = IF t = None THEN g ELSE h
  BY DEF WakeOne
<1>. HIDE DEF t
<1>4. CASE t = None
  BY <1>3, <1>4 DEF Frame
<1>5. CASE t # None
  <2>1. t \in Tasks /\ g.status[t] = "WAIT" /\ g.delay[t] = 0
    BY <1>1, <1>2, <1>5
  <2>2. g.status[t] \notin RunningStatus /\ "IDLE" \notin LeftStatus
    BY <2>1 DEF RunningStatus, LeftStatus
  <2>. HIDE DEF expired
  <2>3. /\ KernelInv(h) /\ Frame(g, h) /\ h.halted = g.halted
        /\ h.status = [g.status EXCEPT ![t] = "IDLE"]
    BY <2>1, <2>2, StatusSetInv
  <2>. HIDE DEF h
  <2>. QED  BY <1>1, <1>3, <1>5, <2>1, <2>3
<1>. QED  BY <1>4, <1>5

-----------------------------------------------------------------------------
(***************************************************************************)
(* osi_dispatch.                                                           *)
(***************************************************************************)

\* h differs from g at most in what osi_dispatch undoes of a blocked call.
Unblocked(g, h) ==
    /\ h.state = g.state /\ h.running = g.running /\ h.scheduled = g.scheduled
    /\ h.idle = g.idle /\ h.tasks = g.tasks /\ h.priority = g.priority
    /\ h.delay = g.delay /\ h.status = g.status /\ h.ret = g.ret
    /\ h.runqueue = g.runqueue /\ h.waitqueue = g.waitqueue

\* The kind of object the flag tests of osi_dispatch find t blocked on, the
\* lists when t has left that object's, and what t then still points to.
FlagKind(g, t) == FirstOf(FlagTests, {k \in Kinds : Flag[k] \subseteq g.flags[t]})
Delisted(g, t) ==
    [o \in Objects |-> IF FlagKind(g, t) # None /\ o \in g.waits[t]
                       THEN RemoveFirst(g.blocked[o], t) ELSE g.blocked[o]]
Pointers(g, t) ==
    IF FlagKind(g, t) = None THEN g.waits[t]
    ELSE {o \in g.waits[t] : Kind[o] # FlagKind(g, t)}

\* t is blocked on one object of the kind its flags say, or on none.
FlagsAgree(g, t) ==
    FlagKind(g, t) # None => \E o \in Objects : g.waits[t] = {o} /\ Kind[o] = FlagKind(g, t)

\* The assertions that have failed once osi_dispatch has chosen d, or nobody:
\* that of os.c:465 unless d's flags and pointers agree.
Asserted(g, d) ==
    IF d = None \/ FlagsAgree(g, d) THEN g.halted ELSE g.halted \cup {"os.c:465"}

\* A task leaves the list of the object it was blocked on.
LEMMA UnblockInv ==
    ASSUME NEW g, KernelInv(g), NEW t \in Tasks
    PROVE  LET h == Unblock(g, t)
           IN  /\ KernelInv(h) /\ Unblocked(g, h)
               /\ h.blocked = Delisted(g, t)
               /\ h.waits = [g.waits EXCEPT ![t] = Pointers(g, t)]
               /\ \A x \in Tasks : x # t => h.flags[x] = g.flags[x]
               /\ h.halted = Asserted(g, t)
<1>. DEFINE kind == FlagKind(g, t)
            ok == \E o \in Objects : g.waits[t] = {o} /\ Kind[o] = kind
            w == OsAssert(g, ok, "os.c:465")
            b == [o \in Objects |->
                    IF o \in g.waits[t] THEN RemoveFirst(g.blocked[o], t) ELSE g.blocked[o]]
            h == [w EXCEPT !.blocked = b,
                           !.waits[t] = {o \in @ : Kind[o] # kind}, !.flags[t] = {}]
<1>1. g \in Kernel
  BY DEF KernelInv
<1>2. b \in [Objects -> Seq(Tasks)]
  <2>1. \A o \in Objects : g.blocked[o] \in Seq(Tasks)
    BY <1>1 DEF Kernel
  <2>2. \A o \in Objects : RemoveFirst(g.blocked[o], t) \in Seq(Tasks)
    BY <2>1, RemoveFirstType
  <2>. QED  BY <2>1, <2>2
<1>. HIDE DEF b, kind, ok
<1>3. /\ w \in Kernel /\ Unblocked(g, w)
      /\ w.halted = IF ok THEN g.halted ELSE g.halted \cup {"os.c:465"}
      /\ w.waits = g.waits /\ w.flags = g.flags /\ w.blocked = g.blocked
  <2>. DEFINE failed == [g EXCEPT !.halted = @ \cup {"os.c:465"}]
  <2>1. "os.c:465" \in Halts
    BY DEF Halts
  <2>2. /\ failed \in Kernel /\ Unblocked(g, failed)
        /\ failed.waits = g.waits /\ failed.flags = g.flags /\ failed.blocked = g.blocked
        /\ failed.halted = g.halted \cup {"os.c:465"}
    BY <1>1, <2>1 DEF Kernel, Unblocked
  <2>3. w = IF ok THEN g ELSE failed
    BY DEF OsAssert
  <2>. HIDE DEF failed, w
  <2>. QED  BY <1>1, <2>2, <2>3 DEF Unblocked
<1>4. Unblock(g, t) = IF kind = None THEN g ELSE h
  <2>1. h = [w EXCEPT !.blocked = [o \in Objects |->
                 IF o \in g.waits[t] THEN RemoveFirst(w.blocked[o], t) ELSE w.blocked[o]],
              !.waits[t] = {o \in @ : Kind[o] # kind}, !.flags[t] = {}]
    BY <1>3, Zenon DEF b
  <2>2. Unblock(g, t) = IF kind = None THEN g ELSE
           [w EXCEPT !.blocked = [o \in Objects |->
                 IF o \in g.waits[t] THEN RemoveFirst(w.blocked[o], t) ELSE w.blocked[o]],
              !.waits[t] = {o \in @ : Kind[o] # kind}, !.flags[t] = {}]
    BY Zenon DEF Unblock, kind, FlagKind, ok, w
  <2>. QED  BY <2>1, <2>2, Zenon
<1>. HIDE DEF w
<1>5. /\ h \in Kernel /\ Unblocked(g, h) /\ h.halted = w.halted
      /\ h.blocked = b /\ h.waits = [g.waits EXCEPT ![t] = {o \in @ : Kind[o] # kind}]
      /\ \A x \in Tasks : x # t => h.flags[x] = g.flags[x]
  BY <1>2, <1>3 DEF Kernel, Unblocked
<1>. HIDE DEF h
<1>6. KernelInv(h)
  BY <1>5 DEF KernelInv, Unblocked, QueuesMatchStatus, RunqueueSorted, WaitqueueSorted
<1>7. CASE kind = None
  <2>1. g.blocked = Delisted(g, t)
    BY <1>1, <1>7 DEF Delisted, Kernel, kind
  <2>2. g.waits = [g.waits EXCEPT ![t] = Pointers(g, t)]
    BY <1>1, <1>7 DEF Pointers, Kernel, kind
  <2>3. g.halted = Asserted(g, t)
    BY <1>7 DEF Asserted, FlagsAgree, kind
  <2>. QED  BY <1>4, <1>7, <2>1, <2>2, <2>3 DEF Unblocked
<1>8. CASE kind # None
  <2>1. b = Delisted(g, t)
    BY <1>8 DEF Delisted, b, kind
  <2>2. Pointers(g, t) = {o \in g.waits[t] : Kind[o] # kind}
    BY <1>8 DEF Pointers, kind
  <2>3. h.waits = [g.waits EXCEPT ![t] = Pointers(g, t)]
    BY <1>1, <1>5, <2>2 DEF Kernel
  <2>4. h.halted = Asserted(g, t)
    <3>1. ok <=> FlagsAgree(g, t)
      BY <1>8 DEF FlagsAgree, kind, ok
    <3>. QED  BY <1>3, <1>5, <3>1, NoneAssumption DEF Asserted
  <2>. QED  BY <1>4, <1>5, <1>6, <1>8, <2>1, <2>3, <2>4
<1>. QED  BY <1>7, <1>8

\* The task given up: an ACTIVE one stays queued as IDLE.
LEMMA DemoteInv ==
    ASSUME NEW g, KernelInv(g), g.running \in Tasks
    PROVE  LET h == Demote(g)
           IN  /\ KernelInv(h) /\ Frame(g, h) /\ h.halted = g.halted
               /\ h.status = [g.status EXCEPT ![g.running] =
                                IF @ = "ACTIVE" THEN "IDLE" ELSE @]
<1>. DEFINE t == g.running
            st == [g.status EXCEPT ![t] = IF @ = "ACTIVE" THEN "IDLE" ELSE @]
<1>1. /\ g \in Kernel /\ g.status \in [Tasks -> Statuses] /\ t \in Tasks
      /\ NoDuplicates(g.runqueue) /\ RunqueueSorted(g) /\ WaitqueueSorted(g)
      /\ NoDuplicates(g.waitqueue)
      /\ \A x \in Tasks : Contains(g.runqueue, x) <=> g.status[x] \in RunningStatus
      /\ \A x \in Tasks : Contains(g.waitqueue, x) <=> g.status[x] = "WAIT"
  BY DEF KernelInv, QueuesMatchStatus, Kernel
<1>2. CASE g.status[t] = "ACTIVE"
  <2>. DEFINE h == [g EXCEPT !.status[t] = "IDLE"]
  <2>1. Demote(g) = h
    BY <1>2 DEF Demote
  <2>2. /\ h \in Kernel /\ Frame(g, h) /\ h.status = st
        /\ h.runqueue = g.runqueue /\ h.waitqueue = g.waitqueue /\ h.halted = g.halted
    BY <1>1, <1>2 DEF Kernel, Frame, Statuses, RunningStatus
  <2>. HIDE DEF h
  <2>3. \A x \in Tasks : /\ st[x] \in RunningStatus <=> g.status[x] \in RunningStatus
                         /\ st[x] = "WAIT" <=> g.status[x] = "WAIT"
    BY <1>1, <1>2 DEF RunningStatus
  <2>. HIDE DEF st
  <2>4. KernelInv(h)
    BY <1>1, <2>2, <2>3
       DEF KernelInv, QueuesMatchStatus, RunqueueSorted, WaitqueueSorted, Frame
  <2>. QED  BY <2>1, <2>2, <2>4 DEF st
<1>3. CASE g.status[t] \in LeftStatus \cup {"SUSPENDED"}
  <2>. DEFINE h == RunqueueRemove(g, t)
  <2>1. Demote(g) = h
    BY <1>3 DEF Demote, LeftStatus
  <2>2. /\ h \in Kernel /\ Frame(g, h) /\ h.status = g.status /\ h.waitqueue = g.waitqueue
        /\ h.halted = g.halted
        /\ NoDuplicates(h.runqueue) /\ RunqueueSorted(h)
        /\ \A x \in Tasks : Contains(h.runqueue, x) <=> Contains(g.runqueue, x) /\ x # t
    BY <1>1, RunqueueRemoveFacts
  <2>. HIDE DEF h
  <2>3. g.status[t] \notin RunningStatus
    BY <1>3 DEF LeftStatus, RunningStatus
  <2>4. KernelInv(h)
    BY <1>1, <2>2, <2>3 DEF KernelInv, QueuesMatchStatus, WaitqueueSorted, Frame
  <2>5. st = g.status
    BY <1>1, <1>3 DEF LeftStatus
  <2>. QED  BY <2>1, <2>2, <2>4, <2>5
<1>4. CASE g.status[t] \notin LeftStatus \cup {"SUSPENDED", "ACTIVE"}
  <2>1. Demote(g) = g
    BY <1>4 DEF Demote
  <2>2. st = g.status
    BY <1>1, <1>4
  <2>. QED  BY <2>1, <2>2 DEF Frame
<1>. QED  BY <1>2, <1>3, <1>4

\* What no scheduling step changes.
Steady(g, h) ==
    /\ h.state = g.state /\ h.running = g.running /\ h.idle = g.idle
    /\ h.tasks = g.tasks /\ h.priority = g.priority /\ h.ret = g.ret

\* What osi_dispatch resets in the task it chooses.
Resets(g, h, t) ==
    /\ Steady(g, h) /\ h.waits = g.waits /\ h.blocked = g.blocked
    /\ h.delay = [g.delay EXCEPT ![t] = 0] /\ h.flags = [g.flags EXCEPT ![t] = {}]
    /\ h.status = [g.status EXCEPT ![t] = "ACTIVE"]

\* No other task is ready: the assertion of os.c:582 about the idle task.
Alone(g, t) == \A x \in Tasks : g.status[x] \in RunningStatus => x = t

\* A list of one task.
LEMMA OneTask ==
    ASSUME NEW s \in Seq(Tasks), NoDuplicates(s), NEW t \in Tasks,
           \A x \in Tasks : Contains(s, x) <=> x = t
    PROVE  Len(s) = 1
<1>1. Len(s) \in Nat /\ \A i \in 1 .. Len(s) : s[i] \in Tasks
  BY LenProperties, ElementOfSeq
<1>2. \A i \in 1 .. Len(s) : s[i] = t
  BY <1>1 DEF Contains
<1>3. \A i, j \in 1 .. Len(s) : i = j
  BY <1>2 DEF NoDuplicates
<1>4. \E i \in 1 .. Len(s) : s[i] = t
  BY DEF Contains
<1>5. 1 \in 1 .. Len(s) /\ Len(s) \in 1 .. Len(s)
  BY <1>1, <1>4
<1>. QED  BY <1>3, <1>5

\* The task chosen: a WAIT task changes queues, and only then may its delay,
\* which ordered the waitqueue, be forgotten.
LEMMA ActivateInv ==
    ASSUME NEW g, KernelInv(g), NEW t \in Tasks,
           g.status[t] \in RunningStatus \cup {"WAIT"}
    PROVE  LET h == Activate(g, t)
           IN  /\ KernelInv(h) /\ Resets(g, h, t) /\ h.scheduled = t
               /\ (t = g.idle => Alone(g, t)) => h.halted = g.halted
<1>. DEFINE a == [g EXCEPT !.delay[t] = 0, !.flags[t] = {}, !.status[t] = "ACTIVE"]
            st == [g.status EXCEPT ![t] = "ACTIVE"]
            k == IF g.status[t] = "WAIT" THEN WaitqueueRemove(a, t) ELSE a
            l == IF g.status[t] = "WAIT" THEN RunqueueAdd(WaitqueueRemove(a, t), t) ELSE a
            h == Activate(g, t)
<1>1. /\ g \in Kernel /\ g.status \in [Tasks -> Statuses]
      /\ NoDuplicates(g.runqueue) /\ RunqueueSorted(g) /\ WaitqueueSorted(g)
      /\ NoDuplicates(g.waitqueue)
      /\ \A x \in Tasks : Contains(g.runqueue, x) <=> g.status[x] \in RunningStatus
      /\ \A x \in Tasks : Contains(g.waitqueue, x) <=> g.status[x] = "WAIT"
  BY DEF KernelInv, QueuesMatchStatus, Kernel
<1>2. g.delay \in [Tasks -> 0 .. Forever] /\ 0 \in 0 .. Forever
  BY <1>1, ForeverAssumption DEF Kernel
<1>3. /\ a \in Kernel /\ a.status = st /\ a.runqueue = g.runqueue
      /\ a.waitqueue = g.waitqueue /\ a.priority = g.priority /\ a.halted = g.halted
      /\ Resets(g, a, t)
      /\ \A x \in Tasks : x # t => a.delay[x] = g.delay[x]
  <2>1. /\ a \in Kernel /\ a.status = st /\ a.runqueue = g.runqueue
        /\ a.waitqueue = g.waitqueue /\ a.priority = g.priority /\ a.halted = g.halted
        /\ \A x \in Tasks : x # t => a.delay[x] = g.delay[x]
    BY <1>1, <1>2 DEF Kernel, Statuses, RunningStatus, FlagBits
  <2>2. Resets(g, a, t)
    BY <1>1 DEF Kernel, Resets, Steady
  <2>. QED  BY <2>1, <2>2
<1>4. \A x \in Tasks : st[x] = IF x = t THEN "ACTIVE" ELSE g.status[x]
  BY <1>1
<1>5. RunqueueSorted(a)
  BY <1>1, <1>3 DEF RunqueueSorted
<1>. HIDE DEF a, st
<1>6. /\ k \in Kernel /\ k.status = st /\ k.runqueue = g.runqueue
      /\ k.priority = g.priority /\ k.delay = a.delay /\ k.halted = g.halted
      /\ Resets(g, k, t)
      /\ NoDuplicates(k.waitqueue) /\ WaitqueueSorted(k)
      /\ \A x \in Tasks : Contains(k.waitqueue, x) <=> Contains(g.waitqueue, x) /\ x # t
  <2>1. CASE g.status[t] = "WAIT"
    <3>1. k = WaitqueueRemove(a, t)
      BY <2>1
    <3>2. InOrder(a.waitqueue, g.delay) /\ NoDuplicates(a.waitqueue)
      BY <1>1, <1>3 DEF InOrder, WaitqueueSorted
    <3>3. \A x \in Tasks : x # t => g.delay[x] = a.delay[x]
      BY <1>3
    <3>. HIDE DEF k
    <3>4. /\ k \in Kernel /\ Frame(a, k) /\ k.status = st /\ k.runqueue = g.runqueue
          /\ k.halted = g.halted /\ NoDuplicates(k.waitqueue) /\ WaitqueueSorted(k)
          /\ \A x \in Tasks : Contains(k.waitqueue, x) <=> Contains(g.waitqueue, x) /\ x # t
      BY <1>3, <3>1, <3>2, <3>3, WaitqueueRemoveFacts
    <3>5. Resets(g, k, t)
      BY <1>3, <3>4 DEF Frame, Resets, Steady
    <3>. QED  BY <1>3, <3>4, <3>5 DEF Frame
  <2>2. CASE g.status[t] # "WAIT"
    <3>1. k = a
      BY <2>2
    <3>2. \A i \in 1 .. Len(g.waitqueue) : g.waitqueue[i] \in Tasks /\ g.waitqueue[i] # t
      BY <1>1, <2>2, ElementOfSeq DEF Contains, Kernel
    <3>3. WaitqueueSorted(a)
      BY <1>1, <1>3, <3>2 DEF WaitqueueSorted
    <3>. QED  BY <1>1, <1>3, <2>2, <3>1, <3>3
  <2>. QED  BY <2>1, <2>2
<1>7. /\ g.status[t] # "WAIT" => k = a
      /\ g.status[t] = "WAIT" => l = RunqueueAdd(k, t)
  OBVIOUS
<1>. HIDE DEF k
<1>8. /\ l \in Kernel /\ l.status = st /\ l.waitqueue = k.waitqueue /\ l.delay = k.delay
      /\ Resets(g, l, t) /\ l.halted = g.halted
      /\ NoDuplicates(l.runqueue) /\ RunqueueSorted(l)
      /\ \A x \in Tasks : Contains(l.runqueue, x) <=> Contains(g.runqueue, x) \/ x = t
  <2>1. CASE g.status[t] = "WAIT"
    <3>1. ~Contains(k.runqueue, t)
      BY <1>1, <1>6, <2>1 DEF RunningStatus
    <3>2. RunqueueSorted(k)
      BY <1>1, <1>6 DEF RunqueueSorted
    <3>3. k.status[t] \notin {"WAIT", "FINISHED"}
      BY <1>4, <1>6
    <3>. HIDE DEF l
    <3>4. /\ l \in Kernel /\ Frame(k, l) /\ l.status = st /\ l.waitqueue = k.waitqueue
          /\ l.halted = g.halted /\ NoDuplicates(l.runqueue) /\ RunqueueSorted(l)
          /\ \A x \in Tasks : Contains(l.runqueue, x) <=> Contains(g.runqueue, x) \/ x = t
      BY <1>1, <1>6, <1>7, <2>1, <3>1, <3>2, <3>3, RunqueueAddFacts
    <3>5. Resets(g, l, t)
      BY <1>6, <3>4 DEF Frame, Resets, Steady
    <3>. QED  BY <3>4, <3>5 DEF Frame
  <2>2. CASE g.status[t] # "WAIT"
    <3>1. Contains(g.runqueue, t)
      BY <1>1, <2>2
    <3>. QED  BY <1>1, <1>3, <1>5, <1>7, <2>2, <3>1
  <2>. QED  BY <2>1, <2>2
<1>9. h = [OsAssert(l, t = g.idle => Len(l.runqueue) = 1, "os.c:582") EXCEPT !.scheduled = t]
  BY Zenon DEF Activate, a, l
<1>. HIDE DEF l
<1>10. /\ h \in Kernel /\ h.status = st /\ h.waitqueue = l.waitqueue /\ h.delay = l.delay
       /\ h.runqueue = l.runqueue /\ h.priority = l.priority /\ h.scheduled = t
       /\ Resets(g, h, t)
       /\ (t = g.idle => Len(l.runqueue) = 1) => h.halted = g.halted
  <2>. DEFINE failed == [l EXCEPT !.halted = @ \cup {"os.c:582"}]
              ok == t = g.idle => Len(l.runqueue) = 1
              w == OsAssert(l, ok, "os.c:582")
  <2>1. "os.c:582" \in Halts
    BY DEF Halts
  <2>2. failed \in Kernel /\ Frame(l, failed) /\ failed.status = l.status
          /\ failed.runqueue = l.runqueue /\ failed.waitqueue = l.waitqueue
    BY <1>8, <2>1, HaltedFacts, Zenon
  <2>3. (w = l \/ w = failed) /\ (ok => w = l)
    BY DEF OsAssert
  <2>. HIDE DEF failed, w
  <2>4. w \in Kernel /\ Frame(l, w) /\ w.status = st
          /\ w.runqueue = l.runqueue /\ w.waitqueue = l.waitqueue
          /\ (ok => w.halted = g.halted)
    BY <1>8, <2>2, <2>3 DEF Frame
  <2>5. h = [w EXCEPT !.scheduled = t]
    BY <1>8, <1>9 DEF w, Resets, Steady
  <2>. HIDE DEF h, ok
  <2>6. /\ h \in Kernel /\ h.status = st /\ h.waitqueue = l.waitqueue /\ h.delay = l.delay
        /\ h.runqueue = l.runqueue /\ h.priority = l.priority /\ h.scheduled = t
        /\ h.halted = w.halted
    BY <1>8, <2>4, <2>5 DEF Kernel, Frame
  <2>7. Resets(g, h, t)
    <3>1. /\ h.state = w.state /\ h.running = w.running /\ h.idle = w.idle
          /\ h.tasks = w.tasks /\ h.ret = w.ret /\ h.waits = w.waits
          /\ h.blocked = w.blocked /\ h.flags = w.flags
      BY <2>4, <2>5 DEF Kernel
    <3>. QED  BY <1>8, <2>4, <2>6, <3>1, ZenonT(40) DEF Resets, Steady, Frame
  <2>. QED  BY <2>4, <2>6, <2>7 DEF ok
<1>. HIDE DEF h
<1>11. RunqueueSorted(h) /\ WaitqueueSorted(h)
  BY <1>6, <1>8, <1>10 DEF RunqueueSorted, WaitqueueSorted
<1>12. QueuesMatchStatus(h)
  <2>1. \A x \in Tasks : Contains(h.runqueue, x) <=> h.status[x] \in RunningStatus
    BY <1>1, <1>4, <1>8, <1>10 DEF RunningStatus
  <2>2. \A x \in Tasks : Contains(h.waitqueue, x) <=> h.status[x] = "WAIT"
    BY <1>1, <1>4, <1>6, <1>8, <1>10
  <2>. QED  BY <1>6, <1>8, <1>10, <2>1, <2>2 DEF QueuesMatchStatus
<1>13. Alone(g, t) => Len(l.runqueue) = 1
  <2>. SUFFICES ASSUME Alone(g, t) PROVE Len(l.runqueue) = 1
    OBVIOUS
  <2>1. \A x \in Tasks : Contains(l.runqueue, x) <=> x = t
    BY <1>1, <1>8 DEF Alone
  <2>. QED  BY <1>8, <2>1, OneTask DEF Kernel
<1>. QED  BY <1>10, <1>11, <1>12, <1>13 DEF KernelInv, h, st

\* t may become IDLE in a step that chooses d, another task or nobody: it was
\* running and is given up, or its time-out has passed.
MayBecomeIdle(g, t, d) ==
    \/ d # None /\ t = g.running /\ g.status[t] = "ACTIVE"
    \/ g.status[t] = "WAIT" /\ g.delay[t] = 0

\* h is what a scheduling step that chose d, or nobody (d = None), makes of
\* g, apart from the scheduler's lists.
Picks(g, h, d) ==
    /\ Steady(g, h)
    /\ \A t \in Tasks : t # d =>
           /\ h.flags[t] = g.flags[t] /\ h.waits[t] = g.waits[t] /\ h.delay[t] = g.delay[t]
           /\ h.status[t] = g.status[t] \/ (h.status[t] = "IDLE" /\ MayBecomeIdle(g, t, d))
    /\ d = None => h.scheduled = g.scheduled /\ h.blocked = g.blocked
    /\ d # None =>
           /\ d \in Tasks /\ d # g.running /\ h.scheduled = d
           /\ h.status[d] = "ACTIVE" /\ h.flags[d] = {} /\ h.waits[d] = Pointers(g, d)
           /\ h.blocked = Delisted(g, d)

\* osi_dispatch keeps the lists and the statuses in agreement, whomever it
\* demotes and whatever the chosen task waited for.
LEMMA DispatchInv ==
    ASSUME NEW g, Scheduling(g), g.scheduled = None \/ Interruptible,
           NEW t \in Tasks, g.status[t] \in RunningStatus \cup {"WAIT"}
    PROVE  LET h == Dispatch(g, t)
           IN  /\ Scheduling(h)
               /\ t = g.running => h = g
               /\ t # g.running => /\ h.scheduled # None /\ Picks(g, h, t)
                                   /\ Ready(h) \subseteq Ready(g) \cup {t}
                                   /\ (t = g.idle => Alone(g, t))
                                          => h.halted = Asserted(g, t)
<1>1. KernelInv(g) /\ g.running \in Tasks /\ g.status \in [Tasks -> Statuses] /\ g \in Kernel
  BY DEF Scheduling, KernelInv, Kernel
<1>2. CASE g.running = t
  BY <1>2 DEF Dispatch
<1>3. CASE g.running # t
  <2>. DEFINE a == Unblock(g, t)
              b == Demote(a)
              c == Activate(b, t)
  <2>1. /\ KernelInv(a) /\ Unblocked(g, a)
        /\ a.blocked = Delisted(g, t)
        /\ a.waits = [g.waits EXCEPT ![t] = Pointers(g, t)]
        /\ \A x \in Tasks : x # t => a.flags[x] = g.flags[x]
        /\ a.halted = Asserted(g, t)
    BY <1>1, UnblockInv
  <2>2. a.running = g.running /\ a.status = g.status /\ a.state = g.state
    BY <2>1 DEF Unblocked
  <2>. HIDE DEF a
  <2>3. /\ KernelInv(b) /\ Frame(a, b) /\ b.state = g.state /\ b.running = g.running
        /\ b.halted = a.halted
        /\ b.status = [g.status EXCEPT ![g.running] = IF @ = "ACTIVE" THEN "IDLE" ELSE @]
    BY <1>1, <2>1, <2>2, DemoteInv DEF Frame
  <2>. HIDE DEF b
  <2>4. b.status[t] \in RunningStatus \cup {"WAIT"}
    BY <1>1, <1>3, <2>3
  <2>5. /\ KernelInv(c) /\ Resets(b, c, t) /\ c.scheduled = t
        /\ (t = b.idle => Alone(b, t)) => c.halted = b.halted
    <3>1. KernelInv(b)
      BY <2>3
    <3>. QED  BY <2>4, <3>1, ActivateInv, Zenon
  <2>6. Dispatch(g, t) = c
    BY <1>3 DEF Dispatch, a, b
  <2>. HIDE DEF c
  <2>7. /\ c.state = g.state /\ c.running = g.running
        /\ c.status = [b.status EXCEPT ![t] = "ACTIVE"]
    BY <2>3, <2>5 DEF Resets, Steady
  <2>8. /\ c.status[t] = "ACTIVE"
        /\ \A x \in Tasks : c.status[x] = "ACTIVE" => Interruptible \/ x = t
    <3>1. Interruptible \/ \A x \in Tasks : b.status[x] # "ACTIVE"
      BY <1>1, <2>3 DEF Scheduling
    <3>2. b.status \in [Tasks -> Statuses]
      BY <2>3 DEF KernelInv, Kernel
    <3>. QED  BY <2>7, <3>1, <3>2
  <2>9. t # None
    BY NoneAssumption
  <2>10. Scheduling(c)
    BY <1>1, <1>3, <2>5, <2>7, <2>8, <2>9 DEF Scheduling
  <2>11. Steady(g, c)
    <3>1. Steady(g, b)
      BY <2>1, <2>3 DEF Unblocked, Frame, Steady
    <3>. QED  BY <2>5, <3>1 DEF Resets, Steady
  <2>12. /\ c.flags = [b.flags EXCEPT ![t] = {}] /\ b.flags = a.flags
         /\ c.delay = [b.delay EXCEPT ![t] = 0] /\ b.delay = g.delay
         /\ c.waits = a.waits /\ c.blocked = a.blocked
    BY <2>1, <2>3, <2>5 DEF Resets, Frame, Unblocked
  <2>13. b.flags \in [Tasks -> SUBSET FlagBits] /\ b.delay \in [Tasks -> 0 .. Forever]
         /\ g.waits \in [Tasks -> SUBSET Objects]
    BY <1>1, <2>3 DEF KernelInv, Kernel
  <2>14. \A x \in Tasks : x # t =>
             /\ c.flags[x] = g.flags[x] /\ c.waits[x] = g.waits[x] /\ c.delay[x] = g.delay[x]
             /\ c.status[x] = g.status[x] \/ (c.status[x] = "IDLE" /\ MayBecomeIdle(g, x, t))
    <3>. SUFFICES ASSUME NEW x \in Tasks, x # t
                  PROVE  /\ c.flags[x] = g.flags[x] /\ c.waits[x] = g.waits[x]
                         /\ c.delay[x] = g.delay[x]
                         /\ c.status[x] = g.status[x]
                              \/ (c.status[x] = "IDLE" /\ MayBecomeIdle(g, x, t))
      OBVIOUS
    <3>1. c.flags[x] = g.flags[x] /\ c.waits[x] = g.waits[x] /\ c.delay[x] = g.delay[x]
      BY <2>1, <2>12, <2>13
    <3>2. c.status[x] = b.status[x]
      BY <1>1, <2>3, <2>7
    <3>3. b.status[x] = IF x = g.running /\ g.status[x] = "ACTIVE" THEN "IDLE" ELSE g.status[x]
      BY <1>1, <2>3
    <3>. QED  BY <2>9, <3>1, <3>2, <3>3 DEF MayBecomeIdle
  <2>15. Ready(c) \subseteq Ready(g) \cup {t}
    <3>1. \A x \in Tasks : b.status[x] \in RunningStatus => g.status[x] \in RunningStatus
      BY <1>1, <2>3 DEF RunningStatus
    <3>2. \A x \in Tasks : x # t => c.status[x] = b.status[x]
      BY <1>1, <2>3, <2>7
    <3>. QED  BY <3>1, <3>2 DEF Ready
  <2>16. c.status[t] = "ACTIVE" /\ c.flags[t] = {} /\ c.waits[t] = Pointers(g, t)
    BY <2>1, <2>8, <2>12, <2>13
  <2>17. Picks(g, c, t)
    BY <1>3, <2>1, <2>5, <2>9, <2>11, <2>12, <2>14, <2>16 DEF Picks
  <2>18. (t = g.idle => Alone(g, t)) => c.halted = Asserted(g, t)
    <3>1. b.idle = g.idle
      BY <2>1, <2>3 DEF Unblocked, Frame
    <3>2. Alone(g, t) => Alone(b, t)
      <4>1. \A x \in Tasks : b.status[x] \in RunningStatus => g.status[x] \in RunningStatus
        BY <1>1, <2>3 DEF RunningStatus
      <4>. QED  BY <4>1 DEF Alone
    <3>. QED  BY <2>1, <2>3, <2>5, <3>1, <3>2
  <2>. QED  BY <1>3, <2>5, <2>6, <2>9, <2>10, <2>15, <2>17, <2>18
<1>. QED  BY <1>2, <1>3

\* A failed assertion leaves the invariants as they are.
LEMMA OsAssertInv ==
    ASSUME NEW g, Scheduling(g), NEW condition, NEW where \in Halts
    PROVE  Scheduling(OsAssert(g, condition, where))
<1>. DEFINE failed == [g EXCEPT !.halted = @ \cup {where}]
<1>1. g \in Kernel
  BY DEF Scheduling, KernelInv
<1>2. /\ failed \in Kernel /\ Frame(g, failed) /\ failed.status = g.status
      /\ failed.runqueue = g.runqueue /\ failed.waitqueue = g.waitqueue
  BY <1>1, HaltedFacts, Zenon
<1>3. OsAssert(g, condition, where) = g \/ OsAssert(g, condition, where) = failed
  BY DEF OsAssert
<1>. HIDE DEF failed
<1>4. Scheduling(failed)
  BY <1>2 DEF Scheduling, Frame, KernelInv, QueuesMatchStatus, RunqueueSorted, WaitqueueSorted
<1>. QED  BY <1>3, <1>4

\* The idle task can always run, and every other task that runs, may run or
\* waits outranks it.
IdleReady(g) ==
    /\ g.idle \in Tasks /\ g.status[g.idle] \in RunningStatus /\ g.priority[g.idle] = 0
    /\ \A t \in Tasks :
           t # g.idle /\ (t = g.running \/ g.status[t] \in RunningStatus \cup {"WAIT"})
               => g.priority[t] > 0

\* t can run now, or its time-out has passed.
Due(g, t) == g.status[t] \in RunningStatus \/ (g.status[t] = "WAIT" /\ g.delay[t] = 0)

\* No task that can run outranks the one that runs or that is chosen to.
BestRuns(g) ==
    \A u \in Ready(g) :
        g.priority[u] <= g.priority[IF g.scheduled # None THEN g.scheduled ELSE g.running]

\* A walk begun in the waitqueue meets the idle task and ends there.
LEMMA WalkEnds ==
    ASSUME NEW g, KernelInv(g), IdleReady(g)
    PROVE  ~WalkNeverEnds(g)
<1>. SUFFICES ASSUME WalkNeverEnds(g) PROVE FALSE
  OBVIOUS
<1>. DEFINE at == FirstIndex(g.waitqueue, {g.running})
<1>1. g.waitqueue \in Seq(Tasks) /\ g.runqueue \in Seq(Tasks) /\ Len(g.waitqueue) \in Nat
  BY LenProperties DEF KernelInv, Kernel
<1>2. at \in 1 .. Len(g.waitqueue) /\ g.waitqueue[at] = g.running
  BY <1>1, FirstIndexFacts DEF WalkNeverEnds
<1>3. g.running \in Tasks /\ Contains(g.waitqueue, g.running)
  BY <1>1, <1>2, ElementOfSeq DEF Contains
<1>4. g.status[g.running] = "WAIT"
  BY <1>3 DEF KernelInv, QueuesMatchStatus
<1>5. g.running # g.idle /\ g.priority[g.running] > 0
  BY <1>3, <1>4 DEF IdleReady, RunningStatus
<1>6. Contains(g.runqueue, g.idle) /\ g.idle \in Ready(g)
  BY DEF IdleReady, KernelInv, QueuesMatchStatus, Ready
<1>7. g.idle \in ToSet(g.runqueue)
  BY <1>6 DEF Contains, ToSet
<1>8. g.priority[g.idle] = g.priority[g.running]
  BY <1>6, <1>7 DEF WalkNeverEnds
<1>. QED  BY <1>3, <1>5, <1>8 DEF IdleReady

\* h is what osi_schedule makes of g.
Schedules(g, h) ==
    /\ Scheduling(h) /\ (Awake(g) => Awake(h)) /\ (g.scheduled # None => h = g)
    /\ \E d \in Tasks \cup {None} : Picks(g, h, d) /\ (d # None => Due(g, d))
    /\ IdleReady(g) /\ (\A t \in Tasks : FlagsAgree(g, t)) => h.halted = g.halted
    /\ IdleReady(g) => \E d \in Tasks \cup {None} :
           Picks(g, h, d) /\ (d # None => Due(g, d)) /\ h.halted = Asserted(g, d)
    /\ IdleReady(g) /\ ~Due(g, g.running) => h.scheduled # None
    /\ IdleReady(g) /\ g.scheduled = None /\ g.status[g.running] # "IDLE" => BestRuns(h)

\* osi_schedule, whatever the running task's status.
LEMMA ScheduleInv ==
    ASSUME NEW g, Scheduling(g)
    PROVE  Schedules(g, Schedule(g))
<1>. DEFINE h == Schedule(g)
<1>0. None \notin Tasks
  BY NoneAssumption
<1>1. CASE g.status[g.running] = "IDLE" \/ g.scheduled # None
  <2>1. h = g
    BY <1>1 DEF Schedule
  <2>2. Picks(g, h, None)
    BY <1>0, <2>1 DEF Picks, Steady
  <2>3. h.halted = Asserted(g, None)
    BY <2>1 DEF Asserted
  <2>. QED  BY <1>1, <2>1, <2>2, <2>3 DEF Due, RunningStatus, Schedules
<1>2. CASE ~(g.status[g.running] = "IDLE" \/ g.scheduled # None)
  <2>. DEFINE woken == WakeOne(g)
              new == FindNewTask(woken)
              stuck == OsAssert(woken, FALSE, "os.c:624 endless walk")
  <2>1. /\ KernelInv(woken) /\ Frame(g, woken) /\ woken.halted = g.halted
        /\ \A t \in Tasks :
               \/ woken.status[t] = g.status[t]
               \/ g.status[t] = "WAIT" /\ g.delay[t] = 0 /\ woken.status[t] = "IDLE"
    BY WakeOneInv DEF Scheduling
  <2>2. h = IF WalkNeverEnds(woken) THEN stuck
            ELSE IF new \in {None, g.running} THEN woken ELSE Dispatch(woken, new)
    BY <1>2, Zenon DEF Schedule
  <2>3. stuck = [woken EXCEPT !.halted = @ \cup {"os.c:624 endless walk"}]
    BY Zenon DEF OsAssert
  <2>. HIDE DEF woken, h
  <2>4. /\ Scheduling(woken) /\ woken.scheduled = None /\ woken.running = g.running
        /\ g.running \in Tasks
    BY <1>2, <2>1 DEF Scheduling, Frame
  <2>5. Awake(g) => Awake(woken)
    BY <1>2, <2>1, <2>4 DEF Awake, Scheduling
  <2>6. Picks(g, woken, None)
    BY <1>0, <2>1 DEF Picks, Steady, Frame, MayBecomeIdle
  <2>7. ASSUME NEW x, NEW d, Picks(woken, x, d) PROVE Picks(g, x, d)
    <3>1. Steady(g, x)
      BY <2>1, <2>7 DEF Picks, Steady, Frame
    <3>2. Pointers(woken, d) = Pointers(g, d) /\ Delisted(woken, d) = Delisted(g, d)
      BY <2>1 DEF Pointers, Delisted, FlagKind, Frame
    <3>3. \A t \in Tasks : MayBecomeIdle(woken, t, d) => MayBecomeIdle(g, t, d)
      BY <2>1 DEF MayBecomeIdle, Frame
    <3>4. \A t \in Tasks : woken.status[t] = g.status[t] \/
                              (woken.status[t] = "IDLE" /\ MayBecomeIdle(g, t, d))
      BY <2>1 DEF MayBecomeIdle
    <3>5. \A t \in Tasks : t # d =>
              x.status[t] = g.status[t] \/ (x.status[t] = "IDLE" /\ MayBecomeIdle(g, t, d))
      BY <2>7, <3>3, <3>4 DEF Picks
    <3>. QED  BY <2>1, <2>7, <3>1, <3>2, <3>5 DEF Picks, Frame
  <2>8. IdleReady(g) => IdleReady(woken)
    BY <2>1 DEF IdleReady, Frame, RunningStatus
  <2>9. ~Due(g, g.running) => g.running \notin Ready(woken)
    BY <2>1 DEF Due, Ready
  <2>10. /\ new \in Ready(woken) \cup {None}
         /\ new # None => \A u \in Ready(woken) : woken.priority[u] <= woken.priority[new]
         /\ new = None => Ready(woken) = {}
    BY <2>1, <2>4, FindNewTaskFacts DEF Scheduling
  <2>11. \A t \in Ready(woken) : t \in Tasks /\ Due(g, t) /\ woken.status[t] \in RunningStatus
    BY <2>1 DEF Ready, Due
  <2>. HIDE DEF new, stuck
  <2>12. CASE WalkNeverEnds(woken)
    <3>1. h = stuck /\ ~IdleReady(g)
      BY <2>1, <2>2, <2>8, <2>12, WalkEnds
    <3>2. Scheduling(stuck)
      BY <2>4, OsAssertInv DEF Halts, stuck
    <3>3. woken \in Kernel
      BY <2>4 DEF Scheduling, KernelInv
    <3>4. Frame(woken, stuck) /\ stuck.status = woken.status
      BY <2>3, <3>3 DEF Kernel, Frame
    <3>5. Awake(woken) => Awake(stuck)
      BY <3>4 DEF Awake, Frame
    <3>6. Picks(woken, stuck, None)
      BY <1>0, <3>4 DEF Picks, Steady, Frame
    <3>7. Picks(g, h, None)
      BY <2>7, <3>1, <3>6
    <3>. QED  BY <1>2, <2>5, <3>1, <3>2, <3>5, <3>7 DEF Schedules, h
  <2>13. CASE ~WalkNeverEnds(woken) /\ new \in {None, g.running}
    <3>1. h = woken
      BY <2>2, <2>13
    <3>2. IdleReady(g) => g.idle \in Ready(woken)
      BY <2>1, <2>8 DEF Ready, IdleReady, Frame
    <3>3. IdleReady(g) => new = g.running
      BY <2>10, <2>13, <3>2
    <3>4. IdleReady(g) => Due(g, g.running)
      BY <1>0, <2>4, <2>9, <2>10, <3>3
    <3>5. IdleReady(g) => BestRuns(h)
      BY <1>0, <2>4, <2>10, <3>1, <3>3 DEF BestRuns
    <3>6. h.halted = Asserted(g, None)
      BY <2>1, <3>1 DEF Asserted
    <3>. QED  BY <1>2, <2>1, <2>4, <2>5, <2>6, <3>1, <3>4, <3>5, <3>6 DEF Schedules, h
  <2>14. CASE ~WalkNeverEnds(woken) /\ new \notin {None, g.running}
    <3>. DEFINE c == Dispatch(woken, new)
    <3>1. new \in Ready(woken) /\ new \in Tasks /\ new # woken.running
            /\ woken.status[new] \in RunningStatus
      BY <2>4, <2>10, <2>11, <2>14
    <3>2. /\ Scheduling(c) /\ c.scheduled # None /\ Picks(woken, c, new)
          /\ Ready(c) \subseteq Ready(woken) \cup {new}
          /\ (new = woken.idle => Alone(woken, new)) => c.halted = Asserted(woken, new)
      BY <2>4, <3>1, DispatchInv
    <3>3. h = c
      BY <2>2, <2>14
    <3>. HIDE DEF c
    <3>4. Picks(g, c, new) /\ Due(g, new)
      BY <2>7, <2>11, <3>1, <3>2
    <3>5. Asserted(woken, new) = Asserted(g, new)
      BY <2>1 DEF Asserted, FlagsAgree, FlagKind, Frame
    <3>6. IdleReady(woken) /\ new = woken.idle => Alone(woken, new)
      <4>. SUFFICES ASSUME IdleReady(woken), new = woken.idle, NEW x \in Tasks,
                           woken.status[x] \in RunningStatus, x # new
                    PROVE  FALSE
        BY DEF Alone
      <4>1. x \in Ready(woken)
        BY DEF Ready
      <4>2. woken.priority[x] <= woken.priority[new] /\ woken.priority[new] = 0
        BY <2>10, <2>14, <4>1 DEF IdleReady
      <4>3. woken.priority[x] > 0
        BY DEF IdleReady
      <4>4. woken.priority[x] \in Int
        BY <2>1, MaxPriorityAssumption DEF KernelInv, Kernel
      <4>. QED  BY <4>2, <4>3, <4>4
    <3>7. /\ IdleReady(g) => c.halted = Asserted(g, new)
          /\ (\A t \in Tasks : FlagsAgree(g, t)) => Asserted(g, new) = g.halted
      BY <2>8, <3>1, <3>2, <3>5, <3>6 DEF Asserted
    <3>8. BestRuns(c)
      <4>1. c.scheduled = new /\ c.priority = woken.priority
        BY <3>1, <3>2, NoneAssumption DEF Picks, Steady
      <4>2. Ready(c) \subseteq Ready(woken)
        BY <3>1, <3>2
      <4>. QED  BY <2>10, <2>14, <4>1, <4>2 DEF BestRuns
    <3>9. Awake(c)
      BY <3>2 DEF Awake
    <3>. QED  BY <1>2, <3>1, <3>2, <3>3, <3>4, <3>7, <3>8, <3>9 DEF Schedules, h
  <2>. QED  BY <2>12, <2>13, <2>14
<1>. QED  BY <1>1, <1>2

\* The check for a pending switch in front of it (svc_delay, SysTick).
LEMMA ScheduleIfNoneInv ==
    ASSUME NEW g, Scheduling(g)
    PROVE  Schedules(g, ScheduleIfNone(g))
<1>1. CASE g.scheduled = None
  BY <1>1, ScheduleInv DEF ScheduleIfNone
<1>2. CASE g.scheduled # None
  <2>1. ScheduleIfNone(g) = g
    BY <1>2 DEF ScheduleIfNone
  <2>2. Picks(g, g, None)
    BY NoneAssumption DEF Picks, Steady
  <2>3. g.halted = Asserted(g, None)
    BY DEF Asserted
  <2>. QED  BY <1>2, <2>1, <2>2, <2>3 DEF Schedules
<1>. QED  BY <1>1, <1>2

-----------------------------------------------------------------------------
(***************************************************************************)
(* The service calls and the exception exits.                              *)
(***************************************************************************)

\* What is left when t's status became new.
Changes(g, h, t, new) ==
    /\ Scheduling(h)
    /\ Frame(g, h) /\ h.halted = g.halted
    /\ h.status = [g.status EXCEPT ![t] = new]

\* A status change of any task but the one a switch to is pending.
LEMMA StatusChange ==
    ASSUME NEW g, Scheduling(g), NEW t \in Tasks, g.scheduled = None \/ t # g.scheduled,
           NEW new \in {"WAIT", "SUSPENDED", "IDLE"} \cup LeftStatus,
           new = "IDLE" => g.status[t] \notin RunningStatus,
           new = "WAIT" \/ new \in LeftStatus => g.status[t] # "WAIT"
    PROVE  Changes(g, StatusSet(g, t, new), t, new)
<1>. DEFINE h == StatusSet(g, t, new)
<1>1. KernelInv(g) /\ g.status \in [Tasks -> Statuses]
  BY DEF Scheduling, KernelInv, Kernel
<1>2. /\ KernelInv(h) /\ Frame(g, h) /\ h.halted = g.halted
      /\ h.status = [g.status EXCEPT ![t] = new]
  BY <1>1, StatusSetInv
<1>. HIDE DEF h
<1>3. new # "ACTIVE"
  BY DEF LeftStatus
<1>4. \A x \in Tasks : h.status[x] = "ACTIVE" => g.status[x] = "ACTIVE"
  BY <1>1, <1>2, <1>3
<1>5. Scheduling(h)
  BY <1>2, <1>4 DEF Scheduling, Frame
<1>. QED  BY <1>2, <1>5 DEF Changes, h

\* The assertion that ends svc_delay, svc_panic and svc_abort.
LEMMA AssertSwitchingInv ==
    ASSUME NEW g, Scheduling(g), NEW where \in Halts
    PROVE  LET h == AssertSwitching(g, where)
           IN  /\ Scheduling(h) /\ (h.halted # {} \/ h.scheduled # None)
               /\ Frame(g, h) /\ h.status = g.status
               /\ g.scheduled # None => h = g
<1>. DEFINE failed == [g EXCEPT !.halted = @ \cup {where}]
<1>1. Scheduling(AssertSwitching(g, where))
  BY OsAssertInv DEF AssertSwitching
<1>2. AssertSwitching(g, where) = IF g.scheduled \notin {None, g.running} THEN g ELSE failed
  BY DEF AssertSwitching, OsAssert
<1>3. g \in Kernel /\ g.scheduled # g.running
  BY DEF Scheduling, KernelInv
<1>4. failed.halted # {}
  <2>1. failed.halted = g.halted \cup {where}
    BY <1>3 DEF Kernel
  <2>. HIDE DEF failed
  <2>. QED  BY <2>1
<1>5. Frame(g, failed) /\ failed.status = g.status
  BY <1>3 DEF Kernel, Frame
<1>6. Frame(g, g)
  BY DEF Frame
<1>. HIDE DEF failed
<1>. QED  BY <1>1, <1>2, <1>3, <1>4, <1>5, <1>6

\* w is g with another status and delay of t, apart from the scheduler's lists.
Moved(g, w, t, new, ms) ==
    /\ Steady(g, w) /\ w.scheduled = g.scheduled /\ w.halted = g.halted
    /\ w.flags = g.flags /\ w.waits = g.waits /\ w.blocked = g.blocked
    /\ w.delay = [g.delay EXCEPT ![t] = ms] /\ w.status = [g.status EXCEPT ![t] = new]

\* h is what becomes of g when its running task gives the processor up.
GivesUp(g, h, new, ms) ==
    /\ Scheduling(h) /\ (h.halted # {} \/ h.scheduled # None)
    /\ \E w : \E d \in Tasks \cup {None} :
           /\ Moved(g, w, g.running, new, ms)
           /\ Picks(w, h, d) /\ (d # None => Due(w, d)) /\ (h.halted # {} \/ d # None)
    /\ IdleReady(g) /\ g.running # g.idle /\ (\A t \in Tasks : FlagsAgree(g, t))
           /\ (new = "WAIT" => ms # 0) => h.halted = g.halted
    /\ IdleReady(g) /\ g.running # g.idle /\ (new = "WAIT" => ms # 0) =>
           \E w : \E d \in Tasks :
               /\ Moved(g, w, g.running, new, ms)
               /\ Picks(w, h, d) /\ Due(w, d) /\ h.halted = Asserted(g, d)
    /\ IdleReady(g) /\ g.running # g.idle => BestRuns(h)

\* The search for another task and the assertion that one was found.
LEMMA GivesUpInv ==
    ASSUME NEW g, Scheduling(g), g.scheduled = None, NEW new \in LeftStatus \cup {"WAIT"},
           NEW ms \in 0 .. Forever, NEW w, Scheduling(w), Moved(g, w, g.running, new, ms),
           NEW where \in Halts
    PROVE  GivesUp(g, AssertSwitching(ScheduleIfNone(w), where), new, ms)
<1>. DEFINE t == g.running
            c == ScheduleIfNone(w)
            h == AssertSwitching(c, where)
<1>0. /\ g.status \in [Tasks -> Statuses] /\ g.delay \in [Tasks -> 0 .. Forever] /\ t \in Tasks
      /\ None \notin Tasks
  BY NoneAssumption DEF Scheduling, KernelInv, Kernel
<1>1. Schedules(w, c)
  BY ScheduleIfNoneInv
<1>2. PICK d \in Tasks \cup {None} : Picks(w, c, d) /\ (d # None => Due(w, d))
  BY <1>1 DEF Schedules
<1>. HIDE DEF c
<1>3. /\ Scheduling(h) /\ (h.halted # {} \/ h.scheduled # None)
      /\ Frame(c, h) /\ h.status = c.status /\ (c.scheduled # None => h = c)
  BY <1>1, AssertSwitchingInv DEF Schedules
<1>. HIDE DEF h
<1>4. Picks(w, h, d)
  BY <1>2, <1>3 DEF Picks, Steady, Frame
<1>5. h.halted # {} \/ d # None
  <2>1. d = None => h.scheduled = None
    BY <1>4 DEF Picks, Moved
  <2>. QED  BY <1>3, <2>1
<1>6. /\ w.idle = g.idle /\ w.running = t /\ w.priority = g.priority /\ w.halted = g.halted
      /\ \A x \in Tasks : x # t => w.status[x] = g.status[x]
      /\ w.status[t] = new /\ w.delay[t] = ms /\ w.scheduled = None
  BY <1>0 DEF Moved, Steady
<1>7. new \notin RunningStatus
  BY DEF RunningStatus, LeftStatus
<1>8. ASSUME IdleReady(g), t # g.idle PROVE IdleReady(w)
  <2>1. CASE new = "WAIT"
    <3>1. g.priority[t] > 0
      BY <1>0, <1>8 DEF IdleReady
    <3>. QED  BY <1>0, <1>6, <1>7, <1>8, <2>1, <3>1 DEF IdleReady
  <2>2. CASE new \in LeftStatus
    BY <1>6, <1>7, <1>8, <2>2 DEF IdleReady, LeftStatus
  <2>. QED  BY <2>1, <2>2
<1>9. ASSUME IdleReady(g), t # g.idle, \A x \in Tasks : FlagsAgree(g, x), new = "WAIT" => ms # 0
      PROVE  h.halted = g.halted
  <2>1. ~Due(w, t)
    BY <1>6, <1>7, <1>9 DEF Due, LeftStatus
  <2>2. \A x \in Tasks : FlagsAgree(w, x)
    BY <1>9 DEF FlagsAgree, FlagKind, Moved
  <2>. QED  BY <1>1, <1>3, <1>6, <1>8, <1>9, <2>1, <2>2 DEF Schedules
<1>10. ASSUME IdleReady(g), t # g.idle PROVE BestRuns(h)
  <2>1. BestRuns(c)
    BY <1>1, <1>6, <1>7, <1>8, <1>10 DEF Schedules, RunningStatus
  <2>. QED  BY <1>3, <2>1 DEF BestRuns, Frame, Ready
<1>11. ASSUME IdleReady(g), t # g.idle, new = "WAIT" => ms # 0
       PROVE  \E e \in Tasks : Picks(w, h, e) /\ Due(w, e) /\ h.halted = Asserted(g, e)
  <2>1. ~Due(w, t)
    BY <1>6, <1>7, <1>11 DEF Due, LeftStatus
  <2>2. c.scheduled # None /\ h = c
    BY <1>1, <1>3, <1>6, <1>8, <1>11, <2>1 DEF Schedules
  <2>3. PICK e \in Tasks \cup {None} :
            Picks(w, c, e) /\ (e # None => Due(w, e)) /\ c.halted = Asserted(w, e)
    BY <1>1, <1>8, <1>11 DEF Schedules
  <2>4. e # None
    BY <1>6, <2>2, <2>3 DEF Picks
  <2>5. Asserted(w, e) = Asserted(g, e)
    BY <1>6 DEF Asserted, FlagsAgree, FlagKind, Moved
  <2>. QED  BY <2>2, <2>3, <2>4, <2>5
<1>. QED  BY <1>2, <1>3, <1>4, <1>5, <1>9, <1>10, <1>11 DEF GivesUp, h, c

\* svc_delay of a task that runs
LEMMA SvcDelayInv ==
    ASSUME NEW g, Scheduling(g), g.scheduled = None, g.status[g.running] # "WAIT",
           NEW ms \in 0 .. Forever
    PROVE  GivesUp(g, SvcDelay(g, ms), "WAIT", ms)
<1>. DEFINE t == g.running
            w == OsAssert(g, g.scheduled # g.running, "service.c:21")
            timed == [w EXCEPT !.delay[g.running] = ms]
            waiting == StatusSet(timed, g.running, "WAIT")
            delay == [g.delay EXCEPT ![t] = ms]
<1>1. w = g /\ t \in Tasks
  BY DEF OsAssert, Scheduling
<1>2. /\ g \in Kernel /\ g.delay \in [Tasks -> 0 .. Forever]
      /\ g.waitqueue \in Seq(Tasks)
      /\ \A x \in Tasks : Contains(g.waitqueue, x) <=> g.status[x] = "WAIT"
  BY DEF Scheduling, KernelInv, Kernel, QueuesMatchStatus
<1>3. delay \in [Tasks -> 0 .. Forever] /\ \A x \in Tasks : x # t => delay[x] = g.delay[x]
  BY <1>1, <1>2
<1>4. timed = [g EXCEPT !.delay = delay]
  BY <1>1
<1>5. SvcDelay(g, ms) = AssertSwitching(ScheduleIfNone(waiting), "service.c:40")
  BY Zenon DEF SvcDelay
<1>. HIDE DEF w, delay, timed
<1>6. /\ timed \in Kernel /\ timed.status = g.status /\ timed.scheduled = g.scheduled
      /\ timed.runqueue = g.runqueue /\ timed.waitqueue = g.waitqueue
      /\ timed.delay = delay /\ timed.halted = g.halted
  BY <1>2, <1>3, <1>4 DEF Kernel
<1>7. /\ Steady(g, timed) /\ timed.flags = g.flags /\ timed.waits = g.waits
      /\ timed.blocked = g.blocked
  BY <1>2, <1>4 DEF Kernel, Steady
<1>8. WaitqueueSorted(timed)
  <2>1. \A i \in 1 .. Len(g.waitqueue) : g.waitqueue[i] \in Tasks /\ g.waitqueue[i] # t
    BY <1>1, <1>2, ElementOfSeq DEF Contains
  <2>. QED  BY <1>3, <1>6, <2>1 DEF WaitqueueSorted, Scheduling, KernelInv
<1>9. Scheduling(timed) /\ timed.scheduled = None /\ timed.running = t
  BY <1>6, <1>7, <1>8 DEF Scheduling, KernelInv, QueuesMatchStatus, RunqueueSorted, Steady
<1>10. Changes(timed, waiting, t, "WAIT")
  <2>1. "WAIT" \notin LeftStatus /\ t # timed.scheduled
    BY <1>1, <1>9, NoneAssumption DEF LeftStatus
  <2>. QED  BY <1>1, <1>6, <1>9, <2>1, StatusChange
<1>. HIDE DEF waiting
<1>11. Scheduling(waiting)
  BY <1>10 DEF Changes
<1>12. Moved(g, waiting, t, "WAIT", ms)
  <2>1. waiting.status = [g.status EXCEPT ![t] = "WAIT"] /\ waiting.delay = delay
    BY <1>6, <1>10 DEF Changes, Frame
  <2>. QED  BY <1>6, <1>7, <1>10, <2>1 DEF Changes, Frame, Steady, Moved, delay
<1>. QED  BY <1>5, <1>11, <1>12, GivesUpInv DEF Halts

\* svc_panic and svc_abort
LEMMA SvcLeaveInv ==
    ASSUME NEW g, Scheduling(g), g.scheduled = None, g.status[g.running] # "WAIT",
           NEW new \in LeftStatus
    PROVE  GivesUp(g, SvcLeave(g, new), new, g.delay[g.running])
<1>. DEFINE t == g.running
            left == StatusSet(g, g.running, new)
<1>1. t \in Tasks /\ g.delay \in [Tasks -> 0 .. Forever]
  BY DEF Scheduling, KernelInv, Kernel
<1>2. Changes(g, left, t, new)
  <2>1. new \in {"WAIT", "SUSPENDED", "IDLE"} \cup LeftStatus /\ new # "IDLE"
          /\ t # g.scheduled
    BY <1>1, NoneAssumption DEF LeftStatus
  <2>. QED  BY <1>1, <2>1, StatusChange
<1>3. SvcLeave(g, new) = AssertSwitching(ScheduleIfNone(left), "service.c:56")
  BY Zenon DEF SvcLeave
<1>. HIDE DEF left
<1>4. Scheduling(left)
  BY <1>2 DEF Changes
<1>5. Moved(g, left, t, new, g.delay[t])
  <2>1. g.delay = [g.delay EXCEPT ![t] = g.delay[t]]
    BY <1>1
  <2>. QED  BY <1>2, <2>1 DEF Changes, Frame, Steady, Moved
<1>6. g.delay[t] \in 0 .. Forever /\ new \in LeftStatus \cup {"WAIT"}
  BY <1>1
<1>. QED  BY <1>3, <1>4, <1>5, <1>6, GivesUpInv DEF Halts

\* h is what becomes of g when a service grants something to the task t.
Grants(g, h, t) ==
    /\ Scheduling(h) /\ (Awake(g) => Awake(h))
    /\ \E w, new : \E d \in Tasks \cup {None} :
           /\ Moved(g, w, t, new, g.delay[t])
           /\ new # g.status[t] => g.status[t] = "WAIT" /\ new = "IDLE"
           /\ new = "WAIT" /\ t # g.running => d = t
           /\ Picks(w, h, d) /\ (d \notin {None, t} => Due(w, d))
    /\ IdleReady(g) /\ t # g.idle /\ (\A x \in Tasks : FlagsAgree(g, x)) => h.halted = g.halted
    /\ IdleReady(g) /\ t # g.idle =>
           \E w, new : \E d \in Tasks \cup {None} :
               /\ Moved(g, w, t, new, g.delay[t])
               /\ new # g.status[t] => g.status[t] = "WAIT" /\ new = "IDLE"
               /\ Picks(w, h, d) /\ (d \notin {None, t} => Due(w, d))
               /\ h.halted = Asserted(g, d)

\* The last step of a grant, for the task that was first in a list.
LEMMA DispatchOrQueueInv ==
    ASSUME NEW g, Scheduling(g), g.scheduled = None \/ Interruptible, NEW t \in Tasks,
           g.status[t] \in RunningStatus \cup {"WAIT"}
    PROVE  Grants(g, DispatchOrQueue(g, t), t)
<1>. DEFINE h == DispatchOrQueue(g, t)
            set == StatusSet(g, t, "IDLE")
            w == IF t \in Ready(g) THEN g ELSE set
<1>0. /\ g.status \in [Tasks -> Statuses] /\ g.delay \in [Tasks -> 0 .. Forever]
      /\ None \notin Tasks /\ g.running \in Tasks
  BY NoneAssumption DEF Scheduling, KernelInv, Kernel
<1>1. Moved(g, g, t, g.status[t], g.delay[t])
  BY <1>0 DEF Moved, Steady
<1>2. CASE ~HasHigherPriority(g, t)
  <2>1. h = Dispatch(g, t)
    BY <1>2 DEF DispatchOrQueue
  <2>. HIDE DEF h
  <2>2. CASE t = g.running
    <3>1. h = g
      BY <2>1, <2>2 DEF Dispatch
    <3>2. Picks(g, h, None)
      BY <1>0, <3>1 DEF Picks, Steady
    <3>3. h.halted = Asserted(g, None)
      BY <3>1 DEF Asserted
    <3>. QED  BY <1>1, <2>2, <3>1, <3>2, <3>3 DEF Grants, h
  <2>3. CASE t # g.running
    <3>1. /\ Scheduling(h) /\ h.scheduled # None /\ Picks(g, h, t)
          /\ (t = g.idle => Alone(g, t)) => h.halted = Asserted(g, t)
      BY <2>1, <2>3, DispatchInv
    <3>2. Awake(h)
      BY <3>1 DEF Awake
    <3>3. \E new : \E d \in Tasks \cup {None} :
             /\ Moved(g, g, t, new, g.delay[t])
             /\ new # g.status[t] => g.status[t] = "WAIT" /\ new = "IDLE"
             /\ new = "WAIT" /\ t # g.running => d = t
             /\ Picks(g, h, d) /\ (d \notin {None, t} => Due(g, d))
      BY <1>1, <3>1
    <3>4. t # g.idle =>
             \E new : \E d \in Tasks \cup {None} :
                 /\ Moved(g, g, t, new, g.delay[t])
                 /\ new # g.status[t] => g.status[t] = "WAIT" /\ new = "IDLE"
                 /\ Picks(g, h, d) /\ (d \notin {None, t} => Due(g, d))
                 /\ h.halted = Asserted(g, d)
      BY <1>1, <3>1
    <3>5. FlagsAgree(g, t) => Asserted(g, t) = g.halted
      BY DEF Asserted
    <3>. QED  BY <3>1, <3>2, <3>3, <3>4, <3>5 DEF Grants, h
  <2>. QED  BY <2>2, <2>3
<1>3. CASE HasHigherPriority(g, t)
  <2>1. h = ScheduleIfNone(w)
    BY <1>3 DEF DispatchOrQueue
  <2>2. PICK new : /\ Scheduling(w) /\ Moved(g, w, t, new, g.delay[t])
                   /\ new # g.status[t] => g.status[t] = "WAIT" /\ new = "IDLE"
                   /\ new # "WAIT"
    <3>1. CASE t \in Ready(g)
      BY <1>1, <3>1 DEF Ready, RunningStatus
    <3>2. CASE t \notin Ready(g)
      <4>1. g.status[t] = "WAIT" /\ "IDLE" \notin LeftStatus /\ t # g.scheduled
        BY <1>0, <3>2 DEF Ready, LeftStatus, Scheduling
      <4>2. Changes(g, set, t, "IDLE")
        BY <4>1, StatusChange DEF RunningStatus
      <4>. HIDE DEF set
      <4>3. g.delay = [g.delay EXCEPT ![t] = g.delay[t]]
        BY <1>0
      <4>4. Scheduling(set) /\ Moved(g, set, t, "IDLE", g.delay[t])
        BY <4>2, <4>3 DEF Changes, Frame, Steady, Moved
      <4>. QED  BY <3>2, <4>1, <4>4
    <3>. QED  BY <3>1, <3>2
  <2>. HIDE DEF w
  <2>3. Schedules(w, h)
    BY <2>1, <2>2, ScheduleIfNoneInv
  <2>4. PICK d \in Tasks \cup {None} : Picks(w, h, d) /\ (d # None => Due(w, d))
    BY <2>3 DEF Schedules
  <2>. HIDE DEF h
  <2>5. \A x \in Tasks : w.status[x] = IF x = t THEN new ELSE g.status[x]
    BY <1>0, <2>2 DEF Moved
  <2>6. Awake(g) => Awake(w)
    BY <1>0, <2>2, <2>5 DEF Awake, Moved, Steady
  <2>7. IdleReady(g) => IdleReady(w)
    BY <2>2, <2>5 DEF IdleReady, Moved, Steady, RunningStatus
  <2>8. (\A x \in Tasks : FlagsAgree(g, x)) => (\A x \in Tasks : FlagsAgree(w, x))
    BY <2>2 DEF FlagsAgree, FlagKind, Moved
  <2>9. w.halted = g.halted
    BY <2>2 DEF Moved
  <2>10. IdleReady(g) => \E e \in Tasks \cup {None} :
             Picks(w, h, e) /\ (e # None => Due(w, e)) /\ h.halted = Asserted(g, e)
    <3>1. \A e : Asserted(w, e) = Asserted(g, e)
      BY <2>2 DEF Asserted, FlagsAgree, FlagKind, Moved
    <3>. QED  BY <2>3, <2>7, <3>1 DEF Schedules
  <2>. QED  BY <2>2, <2>3, <2>4, <2>6, <2>7, <2>8, <2>9, <2>10 DEF Schedules, Grants, h
<1>. QED  BY <1>2, <1>3

\* h is g after the switch: nothing else changes.
Switched(g, h) ==
    /\ h.running = (IF g.scheduled # None THEN g.scheduled ELSE g.running)
    /\ h.scheduled = None
    /\ h.state = g.state /\ h.idle = g.idle /\ h.tasks = g.tasks
    /\ h.priority = g.priority /\ h.status = g.status /\ h.delay = g.delay
    /\ h.flags = g.flags /\ h.waits = g.waits /\ h.blocked = g.blocked
    /\ h.halted = g.halted

\* The switch itself (PendSV, and the end of SVC_Handler).
LEMMA SwitchInv ==
    ASSUME NEW g, Scheduling(g)
    PROVE  LET h == Switch(g)
           IN  /\ Scheduling(h) /\ (Awake(g) => Awake(h))
               /\ Switched(g, h) /\ h.ret = g.ret
<1>1. CASE g.scheduled = None
  BY <1>1 DEF Switch, Switched
<1>2. CASE g.scheduled # None
  <2>. DEFINE h == [g EXCEPT !.running = g.scheduled, !.scheduled = None]
  <2>1. g \in Kernel /\ g.scheduled \in Tasks
    BY <1>2 DEF Scheduling, KernelInv, Kernel
  <2>2. Switch(g) = h
    BY <1>2 DEF Switch, Scheduling
  <2>3. /\ h \in Kernel /\ h.running = g.scheduled /\ h.scheduled = None
        /\ h.status = g.status /\ h.runqueue = g.runqueue /\ h.waitqueue = g.waitqueue
        /\ h.priority = g.priority /\ h.delay = g.delay /\ h.state = g.state
        /\ h.halted = g.halted
    BY <2>1 DEF Kernel
  <2>4. Switched(g, h) /\ h.ret = g.ret
    BY <1>2, <2>1 DEF Kernel, Switched
  <2>. HIDE DEF h
  <2>5. h.scheduled # h.running
    BY <1>2, <2>3
  <2>6. Awake(h)
    BY <1>2, <2>3 DEF Awake, Scheduling
  <2>7. Scheduling(h)
    BY <1>2, <2>1, <2>3, <2>5
       DEF Scheduling, KernelInv, QueuesMatchStatus, RunqueueSorted, WaitqueueSorted
  <2>. QED  BY <2>2, <2>3, <2>4, <2>6, <2>7
<1>. QED  BY <1>1, <1>2

\* SVC_Handler stores a result and switches.
LEMMA SvcReturnInv ==
    ASSUME NEW g, Scheduling(g), NEW t \in Tasks, NEW result \in Return
    PROVE  LET h == SvcReturn(g, t, result)
           IN  /\ Scheduling(h) /\ (Awake(g) => Awake(h))
               /\ Switched(g, h) /\ h.ret = [g.ret EXCEPT ![t] = result]
<1>. DEFINE h == [g EXCEPT !.ret[t] = result]
            after == Switch(h)
<1>1. g \in Kernel
  BY DEF Scheduling, KernelInv
<1>2. /\ h \in Kernel /\ h.running = g.running /\ h.scheduled = g.scheduled
      /\ h.status = g.status /\ h.runqueue = g.runqueue /\ h.waitqueue = g.waitqueue
      /\ h.priority = g.priority /\ h.delay = g.delay /\ h.state = g.state
      /\ h.halted = g.halted
  BY <1>1 DEF Kernel
<1>3. /\ h.ret = [g.ret EXCEPT ![t] = result]
      /\ h.idle = g.idle /\ h.tasks = g.tasks /\ h.flags = g.flags
      /\ h.waits = g.waits /\ h.blocked = g.blocked
  BY <1>1 DEF Kernel
<1>. HIDE DEF h
<1>4. Scheduling(h) /\ (Awake(g) => Awake(h))
  BY <1>2 DEF Awake, Scheduling, KernelInv, QueuesMatchStatus, RunqueueSorted, WaitqueueSorted
<1>5. /\ Scheduling(after) /\ (Awake(h) => Awake(after))
      /\ Switched(h, after) /\ after.ret = h.ret
  BY <1>4, SwitchInv
<1>6. SvcReturn(g, t, result) = after
  BY DEF SvcReturn, h
<1>. HIDE DEF after
<1>7. Switched(g, after)
  BY <1>2, <1>3, <1>5 DEF Switched
<1>. QED  BY <1>3, <1>4, <1>5, <1>6, <1>7

-----------------------------------------------------------------------------
(***************************************************************************)
(* The steps that are not calls of the kernel's operators alone.           *)
(***************************************************************************)

\* The zeroed structures.
LEMMA InitInvariant == Zeroed => Invariant
<1>. SUFFICES ASSUME Zeroed PROVE Invariant
  OBVIOUS
<1>1. \A x : ~Contains(<<>>, x)
  BY DEF Contains
<1>2. /\ osg.state = "DEFAULT" /\ osg.running = None /\ osg.scheduled = None
      /\ osg.idle = None
      /\ osg.runqueue = <<>> /\ osg.waitqueue = <<>>
      /\ \A t \in Tasks : osg.status[t] = "NEW"
  BY DEF Zeroed, ZeroKernel
<1>3. osg \in Kernel
  <2>1. "NEW" \in Statuses /\ "DEFAULT" \in OsStates /\ Returning("SUCCESS") \in Return
    BY DEF Statuses, OsStates, Returning, Return, Codes
  <2>2. 0 \in 0 .. MaxPriority /\ 0 \in 0 .. Forever
    BY MaxPriorityAssumption, ForeverAssumption
  <2>. QED  BY <2>1, <2>2 DEF Zeroed, ZeroKernel, Kernel
<1>4. KernelInv(osg)
  BY <1>1, <1>2, <1>3
     DEF KernelInv, QueuesMatchStatus, NoDuplicates, RunqueueSorted, WaitqueueSorted, RunningStatus
<1>. QED  BY <1>2, <1>4 DEF Invariant

\* What initialising t with the status new and the priority p makes of g.
Initializes(g, h, t, new, p) ==
    /\ KernelInv(h)
    /\ h.state = "TASKS_INITIALIZED"
    /\ h.running = g.running /\ h.scheduled = g.scheduled
    /\ h.tasks = g.tasks \cup {t}
    /\ h.idle = IF g.idle = None THEN t ELSE g.idle
    /\ h.status = [g.status EXCEPT ![t] = new]
    /\ h.priority = [g.priority EXCEPT ![t] = IF g.idle = None THEN IdlePriority ELSE p]
    /\ h.flags = [g.flags EXCEPT ![t] = {}] /\ h.waits = [g.waits EXCEPT ![t] = {}]
    /\ h.blocked = g.blocked /\ h.halted = g.halted

\* os_task_initialize_options of a task that is not queued yet.
LEMMA InitializedInv ==
    ASSUME NEW g, KernelInv(g), NEW t \in Tasks, g.status[t] = "NEW",
           NEW new \in {"IDLE", "SUSPENDED"}, NEW p \in 0 .. MaxPriority
    PROVE  Initializes(g, Initialized(g, t, new, p), t, new, p)
<1>. DEFINE first == g.idle = None
            set == [g EXCEPT
                       !.status[t] = new, !.delay[t] = 0, !.flags[t] = {},
                       !.waits[t] = {}, !.tasks = @ \cup {t},
                       !.priority[t] = IF first THEN IdlePriority ELSE p,
                       !.idle = IF first THEN t ELSE @,
                       !.state = "TASKS_INITIALIZED"]
            st == [g.status EXCEPT ![t] = new]
            h == Initialized(g, t, new, p)
<1>1. /\ g \in Kernel /\ g.status \in [Tasks -> Statuses]
      /\ g.runqueue \in Seq(Tasks) /\ g.waitqueue \in Seq(Tasks)
      /\ NoDuplicates(g.runqueue) /\ RunqueueSorted(g) /\ WaitqueueSorted(g)
      /\ NoDuplicates(g.waitqueue)
      /\ \A x \in Tasks : Contains(g.runqueue, x) <=> g.status[x] \in RunningStatus
      /\ \A x \in Tasks : Contains(g.waitqueue, x) <=> g.status[x] = "WAIT"
  BY DEF KernelInv, QueuesMatchStatus, Kernel
<1>2. ~Contains(g.runqueue, t) /\ ~Contains(g.waitqueue, t)
  BY <1>1 DEF RunningStatus
<1>3. /\ set \in Kernel /\ set.status = st /\ set.state = "TASKS_INITIALIZED"
      /\ set.running = g.running /\ set.scheduled = g.scheduled
      /\ set.tasks = g.tasks \cup {t} /\ set.idle = IF first THEN t ELSE g.idle
      /\ set.runqueue = g.runqueue /\ set.waitqueue = g.waitqueue
      /\ \A x \in Tasks : x # t => set.priority[x] = g.priority[x] /\ set.delay[x] = g.delay[x]
      /\ set.priority = [g.priority EXCEPT ![t] = IF first THEN IdlePriority ELSE p]
      /\ set.flags = [g.flags EXCEPT ![t] = {}] /\ set.waits = [g.waits EXCEPT ![t] = {}]
      /\ set.blocked = g.blocked /\ set.halted = g.halted
  <2>1. 0 \in 0 .. Forever /\ IdlePriority \in 0 .. MaxPriority /\ "TASKS_INITIALIZED" \in OsStates
    BY MaxPriorityAssumption, ForeverAssumption DEF IdlePriority, OsStates
  <2>2. new \in Statuses
    BY DEF Statuses, RunningStatus
  <2>. QED  BY ZenonT(40), <1>1, <2>1, <2>2 DEF Kernel
<1>4. h = IF new = "IDLE" THEN RunqueueAdd(set, t) ELSE set
  BY Zenon DEF Initialized
<1>. HIDE DEF set
<1>5. RunqueueSorted(set) /\ WaitqueueSorted(set)
  <2>1. \A i \in 1 .. Len(g.runqueue) : g.runqueue[i] \in Tasks /\ g.runqueue[i] # t
    BY <1>1, <1>2, ElementOfSeq DEF Contains
  <2>2. \A i \in 1 .. Len(g.waitqueue) : g.waitqueue[i] \in Tasks /\ g.waitqueue[i] # t
    BY <1>1, <1>2, ElementOfSeq DEF Contains
  <2>3. RunqueueSorted(set)
    BY <1>1, <1>3, <2>1 DEF RunqueueSorted
  <2>4. WaitqueueSorted(set)
    BY <1>1, <1>3, <2>2, SMTT(30) DEF WaitqueueSorted
  <2>. QED  BY <2>3, <2>4
<1>6. \A x \in Tasks : st[x] = IF x = t THEN new ELSE g.status[x]
  BY <1>1
<1>. HIDE DEF st, h
<1>7. CASE new = "IDLE"
  <2>1. /\ h \in Kernel /\ Frame(set, h) /\ h.status = st /\ h.waitqueue = g.waitqueue
        /\ NoDuplicates(h.runqueue) /\ RunqueueSorted(h)
        /\ \A x \in Tasks : Contains(h.runqueue, x) <=> Contains(g.runqueue, x) \/ x = t
        /\ h.halted = g.halted
    BY <1>1, <1>2, <1>3, <1>4, <1>5, <1>6, <1>7, RunqueueAddFacts
  <2>2. WaitqueueSorted(h)
    BY <1>3, <1>5, <2>1 DEF WaitqueueSorted, Frame
  <2>3. QueuesMatchStatus(h)
    BY <1>1, <1>2, <1>6, <1>7, <2>1 DEF QueuesMatchStatus, RunningStatus
  <2>. QED  BY <1>3, <2>1, <2>2, <2>3 DEF KernelInv, Frame, st, h, Initializes
<1>8. CASE new = "SUSPENDED"
  <2>1. QueuesMatchStatus(set)
    BY <1>1, <1>2, <1>3, <1>6, <1>8 DEF QueuesMatchStatus, RunningStatus
  <2>. QED  BY <1>3, <1>4, <1>5, <1>8, <2>1 DEF KernelInv, st, h, Initializes
<1>. QED  BY <1>7, <1>8

\* os_start: the idle task is given the processor.
LEMMA StartInv ==
    ASSUME NEW g, KernelInv(g), g.running = None, g.scheduled = None,
           g.idle \in Tasks, g.status[g.idle] = "IDLE",
           \A t \in Tasks : g.status[t] # "ACTIVE"
    PROVE  LET h == [OsAssert(g, g.runqueue # <<>>, "os.c:370") EXCEPT
                        !.running = g.idle, !.status[g.idle] = "ACTIVE",
                        !.state = "STARTED"]
           IN  /\ Scheduling(h) /\ Awake(h)
               /\ h = [g EXCEPT !.running = g.idle, !.status[g.idle] = "ACTIVE",
                                !.state = "STARTED"]
<1>. DEFINE t == g.idle
            w == OsAssert(g, g.runqueue # <<>>, "os.c:370")
            h == [w EXCEPT !.running = t, !.status[t] = "ACTIVE", !.state = "STARTED"]
            st == [g.status EXCEPT ![t] = "ACTIVE"]
<1>1. /\ g \in Kernel /\ g.status \in [Tasks -> Statuses]
      /\ NoDuplicates(g.runqueue) /\ RunqueueSorted(g) /\ WaitqueueSorted(g)
      /\ NoDuplicates(g.waitqueue)
      /\ \A x \in Tasks : Contains(g.runqueue, x) <=> g.status[x] \in RunningStatus
      /\ \A x \in Tasks : Contains(g.waitqueue, x) <=> g.status[x] = "WAIT"
  BY DEF KernelInv, QueuesMatchStatus, Kernel
<1>2. w = g
  <2>1. Contains(g.runqueue, t)
    BY <1>1 DEF RunningStatus
  <2>2. g.runqueue # <<>>
    BY <2>1 DEF Contains
  <2>. QED  BY <2>2 DEF OsAssert
<1>3. /\ h \in Kernel /\ h.status = st /\ h.state = "STARTED" /\ h.running = t
      /\ h.scheduled = None /\ h.runqueue = g.runqueue /\ h.waitqueue = g.waitqueue
      /\ h.priority = g.priority /\ h.delay = g.delay
  <2>. HIDE DEF w
  <2>. QED  BY <1>1, <1>2 DEF Kernel, Statuses, RunningStatus, OsStates
<1>4. \A x \in Tasks : st[x] = IF x = t THEN "ACTIVE" ELSE g.status[x]
  BY <1>1
<1>. HIDE DEF st, h
<1>5. QueuesMatchStatus(h)
  BY <1>1, <1>3, <1>4 DEF QueuesMatchStatus, RunningStatus
<1>6. RunqueueSorted(h) /\ WaitqueueSorted(h)
  BY <1>1, <1>3 DEF RunqueueSorted, WaitqueueSorted
<1>7. t # None
  BY NoneAssumption
<1>8. Scheduling(h) /\ Awake(h)
  BY <1>3, <1>4, <1>5, <1>6, <1>7 DEF Scheduling, Awake, KernelInv
<1>. QED  BY <1>2, <1>8 DEF h, w, t

\* Ticking brings every deadline one nearer and keeps their order: a delay
\* stops at 0, and UINT32_MAX never comes nearer.
LEMMA ElapseInv ==
    ASSUME NEW g, Scheduling(g)
    PROVE  LET h == Elapse(g)
           IN  /\ Scheduling(h) /\ h.halted = g.halted /\ (Awake(g) => Awake(h))
               /\ Steady(g, h) /\ h.scheduled = g.scheduled /\ h.status = g.status
               /\ h.flags = g.flags /\ h.waits = g.waits /\ h.blocked = g.blocked
               /\ \A t \in Tasks : g.delay[t] > 1 => h.delay[t] > 0
               /\ \A t \in Tasks : g.delay[t] = Forever => h.delay[t] = Forever
<1>. DEFINE next == [t \in Tasks |-> IF g.delay[t] \in {0, Forever} THEN g.delay[t]
                                                           ELSE g.delay[t] - 1]
            h == Elapse(g)
<1>1. /\ g \in Kernel /\ g.delay \in [Tasks -> 0 .. Forever]
      /\ g.waitqueue \in Seq(Tasks) /\ WaitqueueSorted(g)
  BY DEF Scheduling, KernelInv, Kernel
<1>2. /\ next \in [Tasks -> 0 .. Forever]
      /\ \A x, y \in Tasks : g.delay[x] <= g.delay[y] => next[x] <= next[y]
  BY <1>1, ForeverAssumption
<1>. HIDE DEF next
<1>3. h = [g EXCEPT !.delay = next]
  BY DEF Elapse, next
<1>. HIDE DEF h
<1>4. /\ h \in Kernel /\ h.running = g.running /\ h.scheduled = g.scheduled
      /\ h.status = g.status /\ h.runqueue = g.runqueue /\ h.waitqueue = g.waitqueue
      /\ h.priority = g.priority /\ h.delay = next /\ h.state = g.state
      /\ h.halted = g.halted
      /\ Steady(g, h) /\ h.flags = g.flags /\ h.waits = g.waits /\ h.blocked = g.blocked
  BY <1>1, <1>2, <1>3 DEF Kernel, Steady
<1>5. WaitqueueSorted(h)
  <2>1. \A i \in 1 .. Len(g.waitqueue) : g.waitqueue[i] \in Tasks
    BY <1>1, ElementOfSeq
  <2>. QED  BY <1>1, <1>2, <1>4, <2>1 DEF WaitqueueSorted
<1>6. Scheduling(h)
  BY <1>4, <1>5 DEF Scheduling, KernelInv, QueuesMatchStatus, RunqueueSorted
<1>7. \A t \in Tasks : g.delay[t] > 1 => next[t] > 0
  BY <1>1, ForeverAssumption DEF next
<1>8. \A t \in Tasks : g.delay[t] = Forever => next[t] = Forever
  BY <1>1 DEF next
<1>. QED  BY <1>4, <1>6, <1>7, <1>8 DEF Awake, h

\* What restarting t makes of g.
Restarts(g, h, t, p) ==
    /\ Scheduling(h) /\ (Awake(g) => Awake(h))
    /\ h.running = g.running /\ h.scheduled = g.scheduled /\ h.halted = g.halted
    /\ h.idle = g.idle /\ h.tasks = g.tasks /\ h.ret = g.ret
    /\ h.status = [g.status EXCEPT ![t] = "IDLE"] /\ h.priority = [g.priority EXCEPT ![t] = p]
    /\ h.flags = [g.flags EXCEPT ![t] = {}] /\ h.delay = [g.delay EXCEPT ![t] = 0]
    /\ h.waits = [g.waits EXCEPT ![t] = {o \in @ : Kind[o] = "semaphore"}]
    /\ \A o \in Objects : ~Contains(g.blocked[o], t) => h.blocked[o] = g.blocked[o]

\* os_task_start of a task that is not running: it leaves the waitqueue if it
\* is there, and is queued with its new priority.
LEMMA StartedInv ==
    ASSUME NEW g, Scheduling(g), g.scheduled = None, NEW t \in Tasks,
           g.status[t] \notin RunningStatus, t # g.running, NEW p \in 0 .. MaxPriority
    PROVE  Restarts(g, Started(g, t, p), t, p)
<1>. DEFINE blocked == [o \in Objects |->
                SubSeq(g.blocked[o], 1, IF Contains(g.blocked[o], t)
                                        THEN FirstIndex(g.blocked[o], {t})
                                        ELSE Len(g.blocked[o]))]
            fresh == [g EXCEPT
                         !.delay[t] = 0, !.flags[t] = {},
                         !.waits[t] = {o \in @ : Kind[o] = "semaphore"},
                         !.blocked = blocked, !.priority[t] = p, !.status[t] = "IDLE"]
            st == [g.status EXCEPT ![t] = "IDLE"]
            k == WaitqueueRemove(fresh, t)
            l == RunqueueRemove(k, t)
            h == Started(g, t, p)
<1>1. /\ g \in Kernel /\ g.status \in [Tasks -> Statuses] /\ g.waits \in [Tasks -> SUBSET Objects]
      /\ g.runqueue \in Seq(Tasks) /\ g.waitqueue \in Seq(Tasks)
      /\ NoDuplicates(g.runqueue) /\ RunqueueSorted(g) /\ WaitqueueSorted(g)
      /\ NoDuplicates(g.waitqueue)
      /\ \A x \in Tasks : Contains(g.runqueue, x) <=> g.status[x] \in RunningStatus
      /\ \A x \in Tasks : Contains(g.waitqueue, x) <=> g.status[x] = "WAIT"
  BY DEF Scheduling, KernelInv, QueuesMatchStatus, Kernel
<1>2. blocked \in [Objects -> Seq(Tasks)]
  <2>. SUFFICES ASSUME NEW o \in Objects PROVE blocked[o] \in Seq(Tasks)
    OBVIOUS
  <2>1. g.blocked[o] \in Seq(Tasks) /\ Len(g.blocked[o]) \in Nat
    BY <1>1, LenProperties DEF Kernel
  <2>2. FirstIndex(g.blocked[o], {t}) \in 0 .. Len(g.blocked[o])
    BY <2>1, FirstIndexFacts
  <2>. DEFINE n == IF Contains(g.blocked[o], t) THEN FirstIndex(g.blocked[o], {t})
                                                ELSE Len(g.blocked[o])
  <2>3. n \in 0 .. Len(g.blocked[o])
    BY <2>1, <2>2
  <2>4. blocked[o] = SubSeq(g.blocked[o], 1, n)
    OBVIOUS
  <2>. HIDE DEF n, blocked
  <2>5. SubSeq(g.blocked[o], 1, n) \in Seq(Tasks)
    BY <2>1, <2>3, SubSeqProperties
  <2>. QED  BY <2>4, <2>5
<1>3. h = RunqueueAdd(l, t)
  BY Zenon DEF Started
<1>15. \A o \in Objects : ~Contains(g.blocked[o], t) => blocked[o] = g.blocked[o]
  <2>. SUFFICES ASSUME NEW o \in Objects, ~Contains(g.blocked[o], t)
                PROVE  SubSeq(g.blocked[o], 1, Len(g.blocked[o])) = g.blocked[o]
    OBVIOUS
  <2>1. g.blocked[o] \in Seq(Tasks)
    BY <1>1 DEF Kernel
  <2>. QED  BY <2>1
<1>. HIDE DEF blocked
<1>4. /\ fresh \in Kernel /\ fresh.status = st /\ fresh.state = g.state
      /\ fresh.running = g.running /\ fresh.scheduled = g.scheduled
      /\ fresh.runqueue = g.runqueue /\ fresh.waitqueue = g.waitqueue
      /\ \A x \in Tasks : x # t => fresh.priority[x] = g.priority[x] /\ fresh.delay[x] = g.delay[x]
      /\ fresh.priority = [g.priority EXCEPT ![t] = p] /\ fresh.flags = [g.flags EXCEPT ![t] = {}]
      /\ fresh.waits = [g.waits EXCEPT ![t] = {o \in @ : Kind[o] = "semaphore"}]
      /\ fresh.blocked = blocked /\ fresh.halted = g.halted /\ fresh.ret = g.ret
      /\ fresh.idle = g.idle /\ fresh.tasks = g.tasks
  <2>1. 0 \in 0 .. Forever /\ "IDLE" \in Statuses
    BY ForeverAssumption DEF Statuses, RunningStatus
  <2>. QED  BY <1>1, <1>2, <2>1 DEF Kernel
<1>19. fresh.delay = [g.delay EXCEPT ![t] = 0]
  BY <1>1 DEF Kernel
<1>5. \A x \in Tasks : st[x] = IF x = t THEN "IDLE" ELSE g.status[x]
  BY <1>1
<1>. HIDE DEF fresh, st
<1>6. /\ k \in Kernel /\ Frame(fresh, k) /\ k.status = st /\ k.runqueue = g.runqueue
      /\ k.halted = g.halted
      /\ NoDuplicates(k.waitqueue) /\ WaitqueueSorted(k)
      /\ \A x \in Tasks : Contains(k.waitqueue, x) <=> Contains(g.waitqueue, x) /\ x # t
  <2>1. InOrder(fresh.waitqueue, g.delay) /\ NoDuplicates(fresh.waitqueue)
    BY <1>1, <1>4 DEF InOrder, WaitqueueSorted
  <2>2. \A x \in Tasks : x # t => g.delay[x] = fresh.delay[x]
    BY <1>4
  <2>. HIDE DEF k
  <2>3. k = WaitqueueRemove(fresh, t)
    BY DEF k
  <2>. QED  BY <1>4, <2>1, <2>2, <2>3, WaitqueueRemoveFacts
<1>. HIDE DEF k
<1>7. RunqueueSorted(k)
  <2>1. \A i \in 1 .. Len(g.runqueue) : g.runqueue[i] \in Tasks /\ g.runqueue[i] # t
    BY <1>1, ElementOfSeq DEF Contains
  <2>. SUFFICES ASSUME NEW i \in 1 .. Len(g.runqueue), NEW j \in 1 .. Len(g.runqueue), i <= j
                PROVE  fresh.priority[g.runqueue[i]] >= fresh.priority[g.runqueue[j]]
    BY <1>6 DEF RunqueueSorted, Frame
  <2>2. g.priority[g.runqueue[i]] >= g.priority[g.runqueue[j]]
    BY <1>1 DEF RunqueueSorted
  <2>. QED  BY <1>4, <2>1, <2>2
<1>8. /\ l \in Kernel /\ Frame(k, l) /\ l.status = st /\ l.waitqueue = k.waitqueue
      /\ l.halted = g.halted
      /\ NoDuplicates(l.runqueue) /\ RunqueueSorted(l)
      /\ \A x \in Tasks : Contains(l.runqueue, x) <=> Contains(g.runqueue, x) /\ x # t
  BY <1>1, <1>6, <1>7, RunqueueRemoveFacts
<1>. HIDE DEF l
<1>9. /\ h \in Kernel /\ Frame(l, h) /\ h.status = st /\ h.waitqueue = k.waitqueue
      /\ h.halted = g.halted
      /\ NoDuplicates(h.runqueue) /\ RunqueueSorted(h)
      /\ \A x \in Tasks : Contains(h.runqueue, x) <=> Contains(g.runqueue, x) \/ x = t
  BY <1>3, <1>5, <1>8, RunqueueAddFacts
<1>. HIDE DEF h
<1>10. WaitqueueSorted(h)
  BY <1>6, <1>8, <1>9 DEF WaitqueueSorted, Frame
<1>11. QueuesMatchStatus(h)
  BY <1>1, <1>5, <1>6, <1>9 DEF QueuesMatchStatus, RunningStatus
<1>12. /\ h.state = g.state /\ h.running = g.running /\ h.scheduled = None
  BY <1>4, <1>6, <1>8, <1>9 DEF Frame
<1>13. Scheduling(h)
  BY <1>5, <1>9, <1>10, <1>11, <1>12 DEF Scheduling, KernelInv
<1>14. Awake(g) => Awake(h)
  BY <1>5, <1>9, <1>12 DEF Awake, Scheduling
<1>16. /\ h.priority = fresh.priority /\ h.flags = fresh.flags /\ h.waits = fresh.waits
       /\ h.blocked = fresh.blocked /\ h.ret = fresh.ret /\ h.delay = fresh.delay
       /\ h.idle = fresh.idle /\ h.tasks = fresh.tasks
  BY <1>6, <1>8, <1>9 DEF Frame
<1>17. h.status = [g.status EXCEPT ![t] = "IDLE"]
  BY <1>9 DEF st
<1>18. h.running = g.running /\ h.scheduled = g.scheduled
  BY <1>12
<1>. QED  BY <1>4, <1>9, <1>13, <1>14, <1>15, <1>16, <1>17, <1>18, <1>19
     DEF Restarts, h

-----------------------------------------------------------------------------
(***************************************************************************)
(* Every action keeps the invariant.                                       *)
(***************************************************************************)

\* What a started system must look like after a step.
LEMMA StartedInvariant ==
    ASSUME Scheduling(osg), osg.halted # {} \/ Awake(osg)
    PROVE  Invariant
BY DEF Invariant, Scheduling

\* What an action of the running task may rely on.
LEMMA InThreadFacts ==
    ASSUME Invariant, InThread
    PROVE  /\ Scheduling(osg) /\ Awake(osg) /\ osg.scheduled = None
           /\ osg.running \in Tasks /\ osg.status[osg.running] # "WAIT"
BY DEF Invariant, InThread, Scheduling, Awake

\* Each action before the system starts.
LEMMA BootStep == Invariant /\ Boot => Invariant'
<1>. SUFFICES ASSUME Invariant, Boot PROVE Invariant'
  OBVIOUS
<1>0. KernelInv(osg) /\ osg \in Kernel
  BY DEF Invariant, KernelInv
<1>1. CASE Initialize
  <2>1. osg.state = "DEFAULT" /\ osg' = [osg EXCEPT !.state = "INITIALIZED"]
    BY <1>1 DEF Initialize
  <2>2. /\ osg' \in Kernel /\ osg'.state = "INITIALIZED"
        /\ osg'.running = osg.running /\ osg'.scheduled = osg.scheduled
        /\ osg'.status = osg.status /\ osg'.tasks = osg.tasks
        /\ osg'.runqueue = osg.runqueue /\ osg'.waitqueue = osg.waitqueue
        /\ osg'.priority = osg.priority /\ osg'.delay = osg.delay
    BY <1>0, <2>1 DEF Kernel, OsStates
  <2>3. KernelInv(osg')
    BY <1>0, <2>2 DEF KernelInv, QueuesMatchStatus, RunqueueSorted, WaitqueueSorted
  <2>. QED  BY <2>1, <2>2, <2>3 DEF Invariant
<1>2. ASSUME NEW t \in Tasks, NEW new \in {"IDLE", "SUSPENDED"}, NEW p \in StartPriorities,
             TaskInitialize(t, new, p)
      PROVE  Invariant'
  <2>. DEFINE h == Initialized(osg, t, new, p)
  <2>1. /\ osg.state \in {"INITIALIZED", "TASKS_INITIALIZED"} /\ t \notin osg.tasks
        /\ osg.idle = None => new = "IDLE"
        /\ osg' = h
    BY <1>2 DEF TaskInitialize
  <2>2. osg.status[t] = "NEW" /\ p \in 0 .. MaxPriority /\ osg.status \in [Tasks -> Statuses]
    BY <1>0, <2>1, PrioritiesAssumption DEF Invariant, Kernel
  <2>3. /\ KernelInv(h) /\ h.state = "TASKS_INITIALIZED"
        /\ h.running = osg.running /\ h.scheduled = osg.scheduled
        /\ h.tasks = osg.tasks \cup {t}
        /\ h.idle = IF osg.idle = None THEN t ELSE osg.idle
        /\ h.status = [osg.status EXCEPT ![t] = new]
    <3>1. Initializes(osg, h, t, new, p)
      BY <1>0, <2>2, InitializedInv, Zenon
    <3>. HIDE DEF h
    <3>. QED  BY <3>1 DEF Initializes
  <2>. HIDE DEF h
  <2>4. /\ osg.running = None /\ osg.scheduled = None
        /\ \A x \in Tasks : osg.status[x] # "ACTIVE"
        /\ \A x \in Tasks \ osg.tasks : osg.status[x] = "NEW"
    BY <2>1 DEF Invariant
  <2>5. /\ \A x \in Tasks : h.status[x] # "ACTIVE"
        /\ \A x \in Tasks \ h.tasks : h.status[x] = "NEW"
    BY <2>2, <2>3, <2>4
  <2>6. h.idle \in h.tasks /\ h.status[h.idle] = "IDLE"
    <3>1. CASE osg.idle = None
      BY <2>1, <2>2, <2>3, <3>1
    <3>2. CASE osg.idle # None
      <4>1. osg.idle \in osg.tasks /\ osg.status[osg.idle] = "IDLE"
        BY <2>1, <3>2 DEF Invariant
      <4>. QED  BY <2>1, <2>2, <2>3, <3>2, <4>1
    <3>. QED  BY <3>1, <3>2
  <2>. QED  BY <2>1, <2>3, <2>4, <2>5, <2>6 DEF Invariant
<1>3. CASE Start
  <2>. DEFINE h == [OsAssert(osg, osg.runqueue # <<>>, "os.c:370") EXCEPT
                       !.running = osg.idle, !.status[osg.idle] = "ACTIVE",
                       !.state = "STARTED"]
  <2>1. osg' = h
    BY <1>3 DEF Start
  <2>2. /\ osg.running = None /\ osg.scheduled = None
        /\ osg.idle \in Tasks /\ osg.status[osg.idle] = "IDLE"
        /\ \A t \in Tasks : osg.status[t] # "ACTIVE"
    BY <1>0, <1>3 DEF Invariant, Start, Kernel
  <2>3. Scheduling(h) /\ Awake(h)
    BY <1>0, <2>2, StartInv, Zenon
  <2>. HIDE DEF h
  <2>. QED  BY <2>1, <2>3 DEF Invariant, Scheduling
<1>4. CASE Teardown
  <2>1. Zeroed'
    BY <1>4 DEF Teardown, Zeroed
  <2>. QED  BY <2>1, InitInvariant, PTL
<1>. QED  BY <1>1, <1>2, <1>3, <1>4 DEF Boot

\* The exceptions: a tick schedules, PendSV switches.
LEMMA ExceptionStep == Invariant /\ (SysTick \/ PendSV) => Invariant'
<1>. SUFFICES ASSUME Invariant, SysTick \/ PendSV PROVE Invariant'
  OBVIOUS
<1>1. ASSUME SysTick PROVE Scheduling(osg') /\ Awake(osg')
  <2>1. osg' = ScheduleIfNone(Elapse(osg)) /\ Scheduling(osg) /\ Awake(osg)
    BY <1>1 DEF SysTick, Invariant
  <2>2. Scheduling(Elapse(osg)) /\ Awake(Elapse(osg))
    BY <2>1, ElapseInv
  <2>3. Schedules(Elapse(osg), osg')
    BY <2>1, <2>2, ScheduleIfNoneInv
  <2>. QED  BY <2>2, <2>3 DEF Schedules
<1>2. ASSUME PendSV PROVE Scheduling(osg') /\ Awake(osg')
  <2>1. osg' = Switch(osg) /\ Scheduling(osg) /\ Awake(osg)
    BY <1>2 DEF PendSV, Invariant
  <2>. QED  BY <2>1, SwitchInv
<1>3. Scheduling(osg') /\ Awake(osg')
  BY <1>1, <1>2
<1>. QED  BY <1>3 DEF Invariant, Scheduling

\* The service calls of the running task.
LEMMA ServiceStep ==
    Invariant /\ ((\E ms \in Delays : Delay(ms)) \/ Panic \/ Abort \/ Finish) => Invariant'
<1>. SUFFICES ASSUME Invariant, (\E ms \in Delays : Delay(ms)) \/ Panic \/ Abort \/ Finish
              PROVE  Invariant'
  OBVIOUS
<1>1. InThread
  BY DEF Delay, Panic, Abort, Finish, InTask
<1>2. /\ Scheduling(osg) /\ Awake(osg) /\ osg.scheduled = None
      /\ osg.running \in Tasks /\ osg.status[osg.running] # "WAIT"
  BY <1>1, InThreadFacts
<1>3. \A code \in Codes : Returning(code) \in Return
  BY DEF Returning, Return
<1>4. ASSUME NEW g, Scheduling(g), g.halted # {} \/ g.scheduled # None,
             NEW code \in Codes, osg' = SvcReturn(g, osg.running, Returning(code))
      PROVE  Invariant'
  <2>1. /\ Scheduling(osg') /\ osg'.halted = g.halted
        /\ Awake(g) => Awake(osg')
    <3>1. /\ Scheduling(osg') /\ Switched(g, osg')
          /\ Awake(g) => Awake(osg')
      BY <1>2, <1>3, <1>4, SvcReturnInv
    <3>. QED  BY <3>1 DEF Switched
  <2>2. osg'.halted # {} \/ Awake(osg')
    BY <1>4, <2>1 DEF Awake
  <2>. QED  BY <2>1, <2>2 DEF Invariant, Scheduling
<1>5. ASSUME NEW ms \in Delays, Delay(ms) PROVE Invariant'
  <2>1. osg' = SvcReturn(SvcDelay(osg, ms), osg.running, Returning("TO")) /\ "TO" \in Codes
    BY <1>5 DEF Delay, Codes
  <2>2. ms \in 0 .. Forever
    BY DelaysAssumption
  <2>3. Scheduling(SvcDelay(osg, ms))
          /\ (SvcDelay(osg, ms).halted # {} \/ SvcDelay(osg, ms).scheduled # None)
    BY <1>2, <2>2, SvcDelayInv DEF GivesUp
  <2>. QED  BY <1>4, <2>1, <2>3
<1>6. ASSUME NEW new \in LeftStatus,
             osg' = SvcReturn(SvcLeave(osg, new), osg.running, Returning("SUCCESS"))
      PROVE  Invariant'
  <2>1. Scheduling(SvcLeave(osg, new))
          /\ (SvcLeave(osg, new).halted # {} \/ SvcLeave(osg, new).scheduled # None)
    BY <1>2, SvcLeaveInv DEF GivesUp
  <2>. QED  BY <1>4, <1>6, <2>1 DEF Codes
<1>7. CASE Panic
  BY <1>6, <1>7 DEF Panic, LeftStatus
<1>8. CASE Abort
  BY <1>6, <1>8 DEF Abort, LeftStatus
<1>9. CASE Finish
  <2>. DEFINE w == OsAssert(osg, osg.status[osg.running] = "ACTIVE", "os.c:907")
              failed == [osg EXCEPT !.halted = @ \cup {"os.c:907"}]
              h == StatusSet(w, osg.running, "FINISHED")
  <2>1. osg' = h
    BY <1>9 DEF Finish
  <2>2. w = osg \/ w = failed
    BY DEF OsAssert
  <2>3. failed.scheduled = osg.scheduled /\ failed.running = osg.running
           /\ failed.status = osg.status
    BY <1>2 DEF Scheduling, KernelInv, Kernel
  <2>. HIDE DEF failed
  <2>4. Scheduling(w)
    BY <1>2, OsAssertInv DEF Halts
  <2>. HIDE DEF w
  <2>5. w.scheduled = None /\ w.status[osg.running] # "WAIT" /\ w.running = osg.running
    BY <1>2, <2>2, <2>3
  <2>6. /\ Scheduling(h) /\ Frame(w, h)
        /\ h.status = [w.status EXCEPT ![osg.running] = "FINISHED"]
    <3>1. Changes(w, h, osg.running, "FINISHED")
      BY <1>2, <2>4, <2>5, StatusChange DEF LeftStatus
    <3>. QED  BY <3>1 DEF Changes
  <2>. HIDE DEF h
  <2>7. h.status[osg.running] = "FINISHED" /\ h.running = osg.running
    BY <1>2, <2>4, <2>5, <2>6 DEF Frame, Scheduling, KernelInv, Kernel
  <2>. QED  BY <2>1, <2>6, <2>7 DEF Invariant, Scheduling, Awake
<1>. QED  BY <1>5, <1>7, <1>8, <1>9

\* The calls about a task.
LEMMA TaskStep ==
    ASSUME Invariant, NEW t \in Tasks,
           Suspend(t) \/ Resume(t) \/ \E p \in StartPriorities : TaskStart(t, p)
    PROVE  Invariant'
<1>1. InThread
  BY DEF Suspend, Resume, TaskStart
<1>2. /\ Scheduling(osg) /\ Awake(osg) /\ osg.scheduled = None
      /\ osg.running \in Tasks /\ osg.status[osg.running] # "WAIT"
      /\ osg.status \in [Tasks -> Statuses]
  BY <1>1, InThreadFacts DEF Scheduling, KernelInv, Kernel
<1>3. ASSUME NEW new \in {"SUSPENDED", "IDLE"}, new = "IDLE" => osg.status[t] \notin RunningStatus,
             osg' = StatusSet(osg, t, new)
      PROVE  Invariant'
  <2>1. /\ Scheduling(osg') /\ Frame(osg, osg')
        /\ osg'.status = [osg.status EXCEPT ![t] = new]
    <3>1. osg.status[t] = "WAIT" => new \notin LeftStatus \cup {"WAIT"}
      BY <1>3 DEF LeftStatus
    <3>2. Changes(osg, osg', t, new)
      BY <1>2, <1>3, <3>1, StatusChange
    <3>. QED  BY <3>2 DEF Changes
  <2>2. Awake(osg')
    BY <1>2, <2>1 DEF Awake, Frame
  <2>. QED  BY <2>1, <2>2 DEF Invariant, Scheduling
<1>4. CASE Suspend(t)
  BY <1>3, <1>4 DEF Suspend
<1>5. CASE Resume(t)
  BY <1>3, <1>5 DEF Resume, RunningStatus
<1>6. ASSUME NEW p \in StartPriorities, TaskStart(t, p) PROVE Invariant'
  <2>1. osg' = Started(osg, t, p) /\ osg.status[t] \notin RunningStatus /\ t # osg.running
    BY <1>6 DEF TaskStart
  <2>2. p \in 0 .. MaxPriority
    BY PrioritiesAssumption
  <2>3. Scheduling(osg') /\ Awake(osg')
    BY <1>2, <2>1, <2>2, StartedInv DEF Restarts
  <2>. QED  BY <2>3 DEF Invariant, Scheduling
<1>. QED  BY <1>4, <1>5, <1>6

\* A stuttering step.
LEMMA StutterStep == Invariant /\ UNCHANGED osg => Invariant'
<1>. SUFFICES ASSUME Invariant, osg' = osg PROVE Invariant'
  OBVIOUS
<1>. QED  BY DEF Invariant

-----------------------------------------------------------------------------
(***************************************************************************)
(* Why a healthy system does not halt.  The idle task, the lowest of all,  *)
(* can always run; the flags and pointers osi_dispatch asserts about are   *)
(* those of the one object whose service call the task is inside of, which *)
(* c[t] stands for (None: of no object's).                                 *)
(***************************************************************************)

\* The idle task can run and every other task outranks it.
IdleKept(g) ==
    /\ \A t \in Tasks \ g.tasks : g.status[t] = "NEW"
    /\ g.tasks # {} =>
           g.idle \in g.tasks /\ g.status[g.idle] \in RunningStatus /\ g.priority[g.idle] = 0
    /\ \A t \in g.tasks \ {g.idle} : g.priority[t] > 0
    /\ g.state = "STARTED" => g.running \in g.tasks

\* A flagged task points to the object whose call it is inside of, and to
\* that alone; a task without flags points to nothing.
Flagging(g, c) ==
    \A t \in Tasks :
        \/ g.flags[t] = {} /\ g.waits[t] = {}
        \/ /\ c[t] \in Objects /\ g.flags[t] = Flag[Kind[c[t]]] /\ g.waits[t] = {c[t]}
           /\ g.status[t] \in {"WAIT", "IDLE"}

\* Whoever is in an object's list is inside its call and flagged.
Listing(g, c) ==
    /\ \A o \in Objects : NoDuplicates(g.blocked[o])
    /\ \A o \in Objects, t \in Tasks :
           Contains(g.blocked[o], t) => c[t] = o /\ g.flags[t] # {}

\* If t is asleep in a call it is in the object's list.
ListedAsleep(g, c, t) ==
    c[t] # None /\ g.status[t] = "WAIT" => Contains(g.blocked[c[t]], t)

\* Only tasks that run, may run or wait are inside a call.
Inside(g, c) ==
    \A t \in Tasks : c[t] # None =>
        t \in g.tasks \ {g.idle} /\ g.status[t] \in RunningStatus \cup {"WAIT"}

Blocking(g, c) ==
    /\ Flagging(g, c) /\ Listing(g, c) /\ Inside(g, c)
    /\ \A t \in Tasks : ListedAsleep(g, c, t)

\* What keeps every assertion of the scheduler true.
Healthy(g, c) ==
    /\ g.halted = {}
    /\ IdleKept(g)
    /\ Blocking(g, c)
    /\ g.state = "STARTED" =>
           IF g.scheduled = None THEN g.status[g.running] \in LeftStatus \cup {"ACTIVE"}
                                 ELSE g.flags[g.running] = {}
    /\ g.state # "STARTED" => \A t \in Tasks : c[t] = None /\ g.status[t] # "WAIT"

\* The objects whose calls tasks are inside of: no semaphores, whose flag is
\* two other flags.
Plain == {o \in Objects : Kind[o] \in {"mutex", "queue", "rwlock"}}
Callers == [Tasks -> Plain \cup {None}]

\* From each list at most one task is gone.
OneLeaves(g, h) ==
    \A o \in Objects :
        h.blocked[o] \in {g.blocked[o]} \cup {RemoveAt(g.blocked[o], i) : i \in 1 .. Len(g.blocked[o])}

\* The flag tests of osi_dispatch tell mutexes, queues and rwlocks apart.
LEMMA FlagKindFacts ==
    ASSUME NEW g, NEW t \in Tasks
    PROVE  /\ g.flags[t] = {} => FlagKind(g, t) = None
           /\ \A k \in {"mutex", "queue", "rwlock"} : g.flags[t] = Flag[k] => FlagKind(g, t) = k
<1>. DEFINE T == {k \in Kinds : Flag[k] \subseteq g.flags[t]}
<1>1. /\ FlagTests \in Seq(Kinds) /\ None \notin Kinds /\ Len(FlagTests) = 4
      /\ FlagTests[1] = "mutex" /\ FlagTests[2] = "queue" /\ FlagTests[4] = "rwlock"
  BY NoneAssumption DEF FlagTests, Kinds
<1>2. /\ FirstOf(FlagTests, T) = None \/ FirstOf(FlagTests, T) \in Kinds \cap T
      /\ FirstOf(FlagTests, T) = None => \A j \in 1 .. Len(FlagTests) : FlagTests[j] \notin T
  BY <1>1, FirstOfFacts, FirstOfIsFirst
<1>3. /\ Flag["mutex"] = {1} /\ Flag["queue"] = {2} /\ Flag["rwlock"] = {4}
      /\ Flag["semaphore"] = {1, 2}
  BY DEF Flag
<1>4. Kinds = {"mutex", "queue", "semaphore", "rwlock"}
  BY DEF Kinds
<1>5. FlagKind(g, t) = FirstOf(FlagTests, T)
  BY DEF FlagKind
<1>6. ASSUME g.flags[t] = {} PROVE T = {}
  BY <1>3, <1>4, <1>6
<1>7. ASSUME NEW k \in {"mutex", "queue", "rwlock"}, g.flags[t] = Flag[k] PROVE T = {k}
  BY <1>3, <1>4, <1>7
<1>8. \A k \in {"mutex", "queue", "rwlock"} : \E j \in 1 .. Len(FlagTests) : FlagTests[j] = k
  BY <1>1
<1>. HIDE DEF T
<1>. QED  BY <1>2, <1>5, <1>6, <1>7, <1>8

\* Each flag has a bit.
LEMMA FlagsAreSet == \A o \in Plain : Flag[Kind[o]] # {}
<1>1. Flag["mutex"] = {1} /\ Flag["queue"] = {2} /\ Flag["rwlock"] = {4}
  BY DEF Flag
<1>. QED  BY <1>1 DEF Plain

\* The assertion of os.c:465, and what osi_dispatch does to a flagged task.
LEMMA FlaggedFacts ==
    ASSUME NEW g, NEW c \in Callers, Flagging(g, c), NEW t \in Tasks
    PROVE  /\ FlagsAgree(g, t) /\ Pointers(g, t) = {}
           /\ g.flags[t] = {} <=> FlagKind(g, t) = None
<1>1. CASE g.flags[t] = {} /\ g.waits[t] = {}
  <2>1. FlagKind(g, t) = None
    BY <1>1, FlagKindFacts
  <2>. QED  BY <1>1, <2>1 DEF FlagsAgree, Pointers
<1>2. CASE c[t] \in Objects /\ g.flags[t] = Flag[Kind[c[t]]] /\ g.waits[t] = {c[t]}
  <2>1. c[t] \in Plain /\ Kind[c[t]] \in {"mutex", "queue", "rwlock"}
    BY <1>2, NoneAssumption DEF Plain, Callers
  <2>2. FlagKind(g, t) = Kind[c[t]]
    BY <1>2, <2>1, FlagKindFacts
  <2>3. FlagKind(g, t) # None
    BY <2>1, <2>2, NoneAssumption DEF Kinds
  <2>4. g.flags[t] # {}
    BY <1>2, <2>1, FlagsAreSet
  <2>. QED  BY <1>2, <2>2, <2>3, <2>4 DEF FlagsAgree, Pointers
<1>. QED  BY <1>1, <1>2 DEF Flagging

\* What a scheduling step leaves of the blocked tasks.
LEMMA PicksBlocking ==
    ASSUME NEW g, g.blocked \in [Objects -> Seq(Tasks)], NEW h, NEW c \in Callers,
           Flagging(g, c), Listing(g, c), Inside(g, c),
           NEW d \in Tasks \cup {None}, Picks(g, h, d)
    PROVE  /\ Flagging(h, c) /\ Listing(h, c) /\ Inside(h, c) /\ OneLeaves(g, h)
           /\ \A t \in Tasks : t = d \/ ListedAsleep(g, c, t) => ListedAsleep(h, c, t)
<1>0. /\ g.blocked \in [Objects -> Seq(Tasks)] /\ None \notin Tasks
      /\ h.tasks = g.tasks /\ h.idle = g.idle
  BY NoneAssumption DEF Picks, Steady
<1>1. ASSUME NEW t \in Tasks, t # d
      PROVE  /\ h.flags[t] = g.flags[t] /\ h.waits[t] = g.waits[t]
             /\ \/ h.status[t] = g.status[t]
                \/ h.status[t] = "IDLE" /\ g.status[t] \in {"ACTIVE", "WAIT"}
  BY <1>1 DEF Picks, MayBecomeIdle
<1>2. ASSUME d # None
      PROVE  /\ d \in Tasks /\ h.flags[d] = {} /\ h.waits[d] = {} /\ h.status[d] = "ACTIVE"
             /\ \A o \in Objects : h.blocked[o] =
                    IF o \in g.waits[d] THEN RemoveFirst(g.blocked[o], d) ELSE g.blocked[o]
  <2>1. d \in Tasks /\ h.flags[d] = {} /\ h.waits[d] = Pointers(g, d) /\ h.status[d] = "ACTIVE"
          /\ h.blocked = Delisted(g, d)
    BY <1>2 DEF Picks
  <2>2. Pointers(g, d) = {} /\ (g.flags[d] = {} <=> FlagKind(g, d) = None)
    BY <2>1, FlaggedFacts
  <2>3. g.flags[d] = {} => g.waits[d] = {}
    <3>1. CASE c[d] \in Objects /\ g.flags[d] = Flag[Kind[c[d]]]
      BY <2>1, <3>1, FlagsAreSet, NoneAssumption DEF Callers
    <3>. QED  BY <2>1, <3>1 DEF Flagging
  <2>. QED  BY <2>1, <2>2, <2>3 DEF Delisted
<1>3. d = None => h.blocked = g.blocked
  BY DEF Picks
<1>4. \A o \in Objects, t \in Tasks : Contains(g.blocked[o], t) => c[t] = o /\ g.flags[t] # {}
  BY DEF Listing
<1>5. \A o \in Objects : Contains(g.blocked[o], d) => o \in g.waits[d]
  <2>. SUFFICES ASSUME NEW o \in Objects, Contains(g.blocked[o], d) PROVE o \in g.waits[d]
    OBVIOUS
  <2>1. d \in Tasks
    BY <1>0, ElementOfSeq DEF Contains
  <2>. QED  BY <1>4, <2>1 DEF Flagging
<1>6. ASSUME NEW o \in Objects
      PROVE  /\ NoDuplicates(h.blocked[o])
             /\ \A t \in Tasks : Contains(h.blocked[o], t) <=> Contains(g.blocked[o], t) /\ t # d
             /\ \/ h.blocked[o] = g.blocked[o]
                \/ \E i \in 1 .. Len(g.blocked[o]) : h.blocked[o] = RemoveAt(g.blocked[o], i)
  <2>1. NoDuplicates(g.blocked[o]) /\ g.blocked[o] \in Seq(Tasks)
    BY <1>0 DEF Listing
  <2>2. CASE d = None \/ o \notin g.waits[d]
    BY <1>0, <1>2, <1>3, <1>5, <2>1, <2>2
  <2>3. CASE d # None /\ o \in g.waits[d]
    <3>1. h.blocked[o] = RemoveFirst(g.blocked[o], d) /\ d \in Tasks
      BY <1>2, <2>3
    <3>2. /\ NoDuplicates(h.blocked[o])
          /\ \A t \in Tasks : Contains(h.blocked[o], t) <=> Contains(g.blocked[o], t) /\ t # d
      BY <2>1, <3>1, RemoveFirstFacts, SMTT(40)
    <3>3. CASE Contains(g.blocked[o], d)
      <4>1. PICK n \in 1 .. Len(g.blocked[o]) : g.blocked[o][n] = d
        BY <3>3 DEF Contains
      <4>2. h.blocked[o] = RemoveAt(g.blocked[o], n)
        BY <2>1, <3>1, <4>1, RemoveFirstAt
      <4>. QED  BY <3>2, <4>2
    <3>4. CASE ~Contains(g.blocked[o], d)
      <4>1. h.blocked[o] = g.blocked[o]
        BY <3>1, <3>4 DEF RemoveFirst, Contains
      <4>. QED  BY <3>2, <4>1
    <3>. QED  BY <3>3, <3>4
  <2>. QED  BY <2>2, <2>3
<1>7. Flagging(h, c)
  <2>. SUFFICES ASSUME NEW t \in Tasks
                PROVE  \/ h.flags[t] = {} /\ h.waits[t] = {}
                       \/ /\ c[t] \in Objects /\ h.flags[t] = Flag[Kind[c[t]]]
                          /\ h.waits[t] = {c[t]} /\ h.status[t] \in {"WAIT", "IDLE"}
    BY DEF Flagging
  <2>1. CASE t = d
    BY <1>0, <1>2, <2>1
  <2>2. CASE t # d
    BY <1>1, <2>2 DEF Flagging
  <2>. QED  BY <2>1, <2>2
<1>8. Listing(h, c)
  BY <1>1, <1>4, <1>6 DEF Listing
<1>9. Inside(h, c)
  <2>. SUFFICES ASSUME NEW t \in Tasks, c[t] # None
                PROVE  t \in h.tasks \ {h.idle} /\ h.status[t] \in RunningStatus \cup {"WAIT"}
    BY DEF Inside
  <2>1. t \in g.tasks \ {g.idle} /\ g.status[t] \in RunningStatus \cup {"WAIT"}
    BY DEF Inside
  <2>2. h.status[t] \in RunningStatus \cup {"WAIT"}
    BY <1>0, <1>1, <1>2, <2>1 DEF RunningStatus
  <2>. QED  BY <1>0, <2>1, <2>2
<1>10. ASSUME NEW t \in Tasks, t = d \/ ListedAsleep(g, c, t) PROVE ListedAsleep(h, c, t)
  <2>1. CASE t = d
    BY <1>0, <1>2, <2>1 DEF ListedAsleep
  <2>2. CASE t # d
    <3>. SUFFICES ASSUME c[t] # None, h.status[t] = "WAIT" PROVE Contains(h.blocked[c[t]], t)
      BY DEF ListedAsleep
    <3>1. c[t] \in Objects
      BY DEF Callers, Plain
    <3>2. Contains(g.blocked[c[t]], t)
      BY <1>1, <1>10, <2>2 DEF ListedAsleep
    <3>. QED  BY <1>6, <2>2, <3>1, <3>2
  <2>. QED  BY <2>1, <2>2
<1>11. OneLeaves(g, h)
  BY <1>6 DEF OneLeaves
<1>. QED  BY <1>7, <1>8, <1>9, <1>10, <1>11

\* A started system's idle task is ready.
LEMMA IdleKeptReady ==
    ASSUME NEW g, Scheduling(g), IdleKept(g)
    PROVE  IdleReady(g)
<1>1. g.tasks \subseteq Tasks /\ g.running \in g.tasks /\ "NEW" \notin RunningStatus \cup {"WAIT"}
  BY DEF Scheduling, KernelInv, Kernel, IdleKept, RunningStatus
<1>2. \A t \in Tasks : t \notin g.tasks => g.status[t] \notin RunningStatus \cup {"WAIT"}
  BY <1>1 DEF IdleKept
<1>. QED  BY <1>1, <1>2 DEF IdleKept, IdleReady

\* It stays ready when somebody is chosen.
LEMMA PicksIdle ==
    ASSUME NEW g, g.tasks \subseteq Tasks, IdleKept(g), NEW h, NEW d \in Tasks \cup {None},
           Picks(g, h, d), d # None => g.status[d] # "NEW"
    PROVE  IdleKept(h)
<1>1. /\ h.tasks = g.tasks /\ h.idle = g.idle /\ h.priority = g.priority
      /\ h.state = g.state /\ h.running = g.running
  BY DEF Picks, Steady
<1>2. \A t \in Tasks \ g.tasks : h.status[t] = "NEW"
  <2>. SUFFICES ASSUME NEW t \in Tasks \ g.tasks PROVE h.status[t] = "NEW"
    OBVIOUS
  <2>1. g.status[t] = "NEW"
    BY DEF IdleKept
  <2>2. t # d
    BY <2>1, NoneAssumption
  <2>. QED  BY <2>1, <2>2 DEF Picks, MayBecomeIdle
<1>3. g.tasks # {} => h.status[g.idle] \in RunningStatus
  <2>. SUFFICES ASSUME g.tasks # {} PROVE h.status[g.idle] \in RunningStatus
    OBVIOUS
  <2>1. g.idle \in Tasks /\ g.status[g.idle] \in RunningStatus
    BY DEF IdleKept
  <2>2. g.idle = d => h.status[g.idle] = "ACTIVE"
    BY <2>1, NoneAssumption DEF Picks
  <2>3. g.idle # d => h.status[g.idle] \in {g.status[g.idle], "IDLE"}
    BY <2>1 DEF Picks
  <2>. QED  BY <2>1, <2>2, <2>3 DEF RunningStatus
<1>. QED  BY <1>1, <1>2, <1>3 DEF IdleKept

\* Switching changes neither.
LEMMA SwitchedKept ==
    ASSUME NEW g, Scheduling(g), NEW h, Switched(g, h), NEW c
    PROVE  /\ IdleKept(g) => IdleKept(h)
           /\ Blocking(g, c) => Blocking(h, c)
           /\ OneLeaves(g, h)
           /\ Chosen(h) = Chosen(g) /\ (BestRuns(g) => BestRuns(h))
<1>1. /\ h.state = g.state /\ h.idle = g.idle /\ h.tasks = g.tasks
      /\ h.priority = g.priority /\ h.status = g.status
      /\ h.flags = g.flags /\ h.waits = g.waits /\ h.blocked = g.blocked
      /\ h.running = Chosen(g) /\ h.scheduled = None
  BY DEF Switched, Chosen
<1>2. IdleKept(g) /\ h.state = "STARTED" => h.running \in g.tasks
  <2>. SUFFICES ASSUME IdleKept(g), g.state = "STARTED" PROVE Chosen(g) \in g.tasks
    BY <1>1
  <2>1. g.scheduled # None => g.scheduled \in Tasks /\ g.status[g.scheduled] = "ACTIVE"
    BY DEF Scheduling, KernelInv, Kernel
  <2>. QED  BY <2>1 DEF IdleKept, Chosen
<1>3. IdleKept(g) => IdleKept(h)
  BY <1>1, <1>2 DEF IdleKept
<1>4. Blocking(g, c) => Blocking(h, c)
  BY <1>1 DEF Blocking, Flagging, Listing, Inside, ListedAsleep
<1>5. Chosen(h) = Chosen(g) /\ (BestRuns(g) => BestRuns(h))
  BY <1>1 DEF Chosen, BestRuns, Ready
<1>. QED  BY <1>1, <1>3, <1>4, <1>5 DEF OneLeaves

\* What the steps that grant nobody anything leave alone: the order of the
\* lists, the results of the calls tasks are inside of, and, unless no ready
\* task outranks the new one, the task chosen to run.
Undisturbed(g, h, c) ==
    /\ g.state = "STARTED" => h.state = "STARTED"
    /\ OneLeaves(g, h)
    /\ \A t \in Tasks : c[t] # None => h.ret[t] = g.ret[t]
    /\ Chosen(g) \in {None, Chosen(h)} \/ BestRuns(h)

\* The tasks of S that have more than a tick to wait go on waiting, and those
\* that wait for ever go on doing so.
SleepOn(g, h, S) ==
    \A t \in S : g.status[t] = "WAIT" /\ g.delay[t] > 1 =>
        h.status[t] = "WAIT" /\ (g.delay[t] = Forever => h.delay[t] = Forever)

\* osi_schedule, as SysTick and the services call it.
LEMMA SchedulesKept ==
    ASSUME NEW g, Scheduling(g), NEW h, Schedules(g, h), NEW c \in Callers,
           IdleKept(g), Blocking(g, c)
    PROVE  /\ IdleKept(h) /\ Blocking(h, c) /\ OneLeaves(g, h)
           /\ h.halted = g.halted /\ h.ret = g.ret
           /\ \A t \in Tasks : g.status[t] = "WAIT" /\ g.delay[t] > 0 =>
                  h.status[t] = "WAIT" /\ h.delay[t] = g.delay[t]
           /\ g.scheduled # None => Chosen(h) = Chosen(g)
           /\ h.scheduled = None => h.status[g.running] = g.status[g.running] \/ g.status[g.running] = "WAIT"
<1>1. PICK d \in Tasks \cup {None} : Picks(g, h, d) /\ (d # None => Due(g, d))
  BY DEF Schedules
<1>2. g.blocked \in [Objects -> Seq(Tasks)] /\ g.tasks \subseteq Tasks /\ g.running \in Tasks
  BY DEF Scheduling, KernelInv, Kernel
<1>3. d # None => g.status[d] # "NEW"
  BY <1>1 DEF Due, RunningStatus
<1>4. IdleKept(h)
  BY <1>1, <1>2, <1>3, PicksIdle
<1>5. Blocking(h, c) /\ OneLeaves(g, h)
  BY <1>1, <1>2, PicksBlocking DEF Blocking
<1>6. h.halted = g.halted
  BY IdleKeptReady, FlaggedFacts DEF Schedules, Blocking
<1>7. \A t \in Tasks : g.status[t] = "WAIT" /\ g.delay[t] > 0 =>
          h.status[t] = "WAIT" /\ h.delay[t] = g.delay[t]
  <2>. SUFFICES ASSUME NEW t \in Tasks, g.status[t] = "WAIT", g.delay[t] > 0
                PROVE  h.status[t] = "WAIT" /\ h.delay[t] = g.delay[t]
    OBVIOUS
  <2>1. g.delay[t] # 0 /\ "WAIT" \notin RunningStatus
    BY DEF RunningStatus
  <2>2. t # d
    BY <1>1, <2>1, NoneAssumption DEF Due
  <2>. QED  BY <1>1, <2>1, <2>2 DEF Picks, MayBecomeIdle
<1>8. g.scheduled # None => Chosen(h) = Chosen(g)
  BY DEF Schedules
<1>9. h.ret = g.ret
  BY <1>1 DEF Picks, Steady
<1>10. ASSUME h.scheduled = None
       PROVE  h.status[g.running] = g.status[g.running] \/ g.status[g.running] = "WAIT"
  <2>1. d = None
    BY <1>1, <1>10, NoneAssumption DEF Picks
  <2>. QED  BY <1>1, <1>2, <2>1, NoneAssumption DEF Picks, MayBecomeIdle
<1>. QED  BY <1>4, <1>5, <1>6, <1>7, <1>8, <1>9, <1>10

\* A task that is inside no call changes its status and delay.
LEMMA MovedKept ==
    ASSUME NEW g, g \in Kernel, NEW c \in Callers, Blocking(g, c), NEW t \in Tasks, c[t] = None,
           NEW w, NEW new, NEW ms, Moved(g, w, t, new, ms)
    PROVE  Blocking(w, c) /\ OneLeaves(g, w)
<1>1. /\ w.flags = g.flags /\ w.waits = g.waits /\ w.blocked = g.blocked
      /\ w.idle = g.idle /\ w.tasks = g.tasks
  BY DEF Moved, Steady
<1>2. \A x \in Tasks : c[x] # None => w.status[x] = g.status[x]
  BY DEF Moved, Kernel
<1>3. \A x \in Tasks : c[x] \in Objects => c[x] # None
  BY NoneAssumption
<1>4. Flagging(w, c)
  BY <1>1, <1>2, <1>3 DEF Blocking, Flagging
<1>5. Listing(w, c) /\ Inside(w, c)
  BY <1>1, <1>2 DEF Blocking, Listing, Inside
<1>6. \A x \in Tasks : ListedAsleep(w, c, x)
  BY <1>1, <1>2 DEF Blocking, ListedAsleep
<1>. QED  BY <1>1, <1>4, <1>5, <1>6 DEF Blocking, OneLeaves

\* A task that is initialised and is not the idle task changes its status.
LEMMA MovedIdle ==
    ASSUME NEW g, g \in Kernel, IdleKept(g), NEW t \in g.tasks \ {g.idle},
           NEW w, NEW new, NEW ms, Moved(g, w, t, new, ms)
    PROVE  IdleKept(w)
<1>1. /\ w.state = g.state /\ w.running = g.running /\ w.idle = g.idle
      /\ w.tasks = g.tasks /\ w.priority = g.priority
      /\ \A x \in Tasks : x # t => w.status[x] = g.status[x]
  BY DEF Moved, Steady, Kernel
<1>2. g.tasks \subseteq Tasks
  BY DEF Kernel
<1>3. \A x \in Tasks \ g.tasks : w.status[x] = "NEW"
  BY <1>1 DEF IdleKept
<1>. QED  BY <1>1, <1>2, <1>3 DEF IdleKept

\* The running task gives the processor up.
LEMMA GivesUpKept ==
    ASSUME NEW g, Scheduling(g), g.scheduled = None, IdleKept(g),
           g.running # g.idle, g.status[g.running] # "WAIT",
           \A t \in Tasks : FlagsAgree(g, t), g.halted = {},
           NEW new \in LeftStatus \cup {"WAIT"}, NEW ms, new = "WAIT" => ms # 0,
           NEW h, GivesUp(g, h, new, ms), NEW c \in Callers,
           \A w : Moved(g, w, g.running, new, ms) => Blocking(w, c)
    PROVE  /\ Scheduling(h) /\ IdleKept(h) /\ Blocking(h, c) /\ OneLeaves(g, h)
           /\ h.halted = {} /\ h.ret = g.ret /\ h.scheduled # None /\ BestRuns(h)
           /\ SleepOn(g, h, Tasks)
<1>0. IdleReady(g) /\ g \in Kernel /\ g.running \in g.tasks \ {g.idle} /\ g.running \in Tasks
  BY IdleKeptReady DEF Scheduling, KernelInv, IdleKept
<1>1. Scheduling(h) /\ h.halted = {} /\ h.scheduled # None /\ BestRuns(h)
  BY <1>0 DEF GivesUp
<1>2. PICK w : \E d \in Tasks \cup {None} :
          /\ Moved(g, w, g.running, new, ms) /\ Picks(w, h, d) /\ (d # None => Due(w, d))
  BY DEF GivesUp
<1>3. PICK d \in Tasks \cup {None} : Picks(w, h, d) /\ (d # None => Due(w, d))
  BY <1>2
<1>4. Moved(g, w, g.running, new, ms)
  BY <1>2
<1>5. /\ w.tasks = g.tasks /\ w.blocked = g.blocked /\ w.ret = g.ret
      /\ \A t \in Tasks : t # g.running => w.status[t] = g.status[t] /\ w.delay[t] = g.delay[t]
  BY <1>0, <1>4 DEF Moved, Steady, Kernel
<1>6. w.blocked \in [Objects -> Seq(Tasks)] /\ w.tasks \subseteq Tasks
  BY <1>0, <1>5 DEF Kernel
<1>7. IdleKept(h)
  <2>1. IdleKept(w)
    BY <1>0, <1>4, MovedIdle
  <2>2. d # None => w.status[d] # "NEW"
    BY <1>3 DEF Due, RunningStatus
  <2>. QED  BY <1>3, <1>6, <2>1, <2>2, PicksIdle
<1>8. Blocking(h, c) /\ OneLeaves(g, h)
  <2>1. Blocking(w, c)
    BY <1>4
  <2>2. Blocking(h, c) /\ OneLeaves(w, h)
    BY <1>3, <1>6, <2>1, PicksBlocking DEF Blocking
  <2>. QED  BY <1>5, <2>2 DEF OneLeaves
<1>9. SleepOn(g, h, Tasks)
  <2>. SUFFICES ASSUME NEW t \in Tasks, g.status[t] = "WAIT", g.delay[t] > 1
                PROVE  h.status[t] = "WAIT" /\ h.delay[t] = g.delay[t]
    BY DEF SleepOn
  <2>1. w.status[t] = "WAIT" /\ w.delay[t] > 1 /\ w.delay[t] = g.delay[t]
    BY <1>5
  <2>2. w.delay[t] # 0 /\ "WAIT" \notin RunningStatus
    BY <2>1 DEF RunningStatus
  <2>3. t # d
    BY <1>3, <2>1, <2>2, NoneAssumption DEF Due
  <2>. QED  BY <1>3, <2>1, <2>2, <2>3 DEF Picks, MayBecomeIdle
<1>10. h.ret = g.ret
  BY <1>3, <1>5 DEF Picks, Steady
<1>. QED  BY <1>1, <1>7, <1>8, <1>9, <1>10

\* Whoever gives it up to wait waits, until its time is out.
LEMMA GivesUpWaits ==
    ASSUME NEW g, Scheduling(g), NEW ms, ms # 0, NEW h, GivesUp(g, h, "WAIT", ms)
    PROVE  h.status[g.running] = "WAIT" /\ h.delay[g.running] = ms
<1>1. g \in Kernel /\ g.running \in Tasks /\ "WAIT" \notin RunningStatus
  BY DEF Scheduling, KernelInv, RunningStatus
<1>2. PICK w : \E d \in Tasks \cup {None} :
          /\ Moved(g, w, g.running, "WAIT", ms) /\ Picks(w, h, d)
  BY DEF GivesUp
<1>3. PICK d \in Tasks \cup {None} : Picks(w, h, d)
  BY <1>2
<1>4. w.status[g.running] = "WAIT" /\ w.delay[g.running] = ms /\ w.running = g.running
  BY <1>1, <1>2 DEF Moved, Steady, Kernel
<1>5. g.running # d
  BY <1>1, <1>3, <1>4, NoneAssumption DEF Picks
<1>. QED  BY <1>1, <1>3, <1>4, <1>5 DEF Picks, MayBecomeIdle

\* What a service call leaves, once SVC_Handler has stored its result.
LEMMA ReturnHealthy ==
    ASSUME NEW x, Scheduling(x), Awake(x), x.halted = {}, IdleKept(x), NEW c, Blocking(x, c),
           x.scheduled # None \/ x.status[x.running] \in LeftStatus \cup {"ACTIVE"},
           NEW t \in Tasks, NEW result \in Return, NEW h, h = SvcReturn(x, t, result)
    PROVE  /\ Healthy(h, c) /\ Scheduling(h) /\ Awake(h)
           /\ h.blocked = x.blocked /\ h.status = x.status /\ h.delay = x.delay
           /\ Chosen(h) = Chosen(x) /\ (BestRuns(x) => BestRuns(h))
           /\ h.ret = [x.ret EXCEPT ![t] = result]
<1>1. /\ Scheduling(h) /\ Awake(h) /\ Switched(x, h)
      /\ h.ret = [x.ret EXCEPT ![t] = result]
  BY SvcReturnInv
<1>2. IdleKept(h) /\ Blocking(h, c) /\ Chosen(h) = Chosen(x) /\ (BestRuns(x) => BestRuns(h))
  BY <1>1, SwitchedKept
<1>3. /\ h.blocked = x.blocked /\ h.status = x.status /\ h.delay = x.delay
      /\ h.halted = {} /\ h.scheduled = None
      /\ h.running = (IF x.scheduled # None THEN x.scheduled ELSE x.running)
  BY <1>1 DEF Switched
<1>4. h.status[h.running] \in LeftStatus \cup {"ACTIVE"}
  <2>1. x.scheduled # None => x.status[x.scheduled] = "ACTIVE"
    BY DEF Scheduling
  <2>. QED  BY <1>3, <2>1
<1>. QED  BY <1>1, <1>2, <1>3, <1>4 DEF Healthy, Scheduling

\* SysTick
LEMMA TickHealthy ==
    ASSUME Invariant, NEW c \in Callers, Healthy(osg, c), SysTick
    PROVE  /\ Healthy(osg', c) /\ Undisturbed(osg, osg', c) /\ SleepOn(osg, osg', Tasks)
           /\ osg.scheduled = None => BestRuns(osg')
<1>. DEFINE e == Elapse(osg)
<1>1. osg' = ScheduleIfNone(e) /\ Scheduling(osg) /\ osg.state = "STARTED"
  BY DEF SysTick, Invariant
<1>2. /\ Scheduling(e) /\ e.halted = {} /\ Steady(osg, e) /\ e.scheduled = osg.scheduled
      /\ e.status = osg.status /\ e.flags = osg.flags /\ e.waits = osg.waits
      /\ e.blocked = osg.blocked
      /\ \A t \in Tasks : osg.delay[t] > 1 => e.delay[t] > 0
      /\ \A t \in Tasks : osg.delay[t] = Forever => e.delay[t] = Forever
  BY <1>1, ElapseInv DEF Healthy
<1>. HIDE DEF e
<1>3. IdleKept(e) /\ Blocking(e, c)
  BY <1>2 DEF Healthy, IdleKept, Steady, Blocking, Flagging, Listing, Inside, ListedAsleep
<1>4. Schedules(e, osg')
  BY <1>1, <1>2, ScheduleIfNoneInv
<1>5. /\ IdleKept(osg') /\ Blocking(osg', c) /\ OneLeaves(e, osg')
      /\ osg'.halted = e.halted /\ osg'.ret = e.ret
      /\ \A t \in Tasks : e.status[t] = "WAIT" /\ e.delay[t] > 0 =>
             osg'.status[t] = "WAIT" /\ osg'.delay[t] = e.delay[t]
      /\ e.scheduled # None => Chosen(osg') = Chosen(e)
      /\ osg'.scheduled = None =>
             osg'.status[e.running] = e.status[e.running] \/ e.status[e.running] = "WAIT"
  BY <1>2, <1>3, <1>4, SchedulesKept
<1>6. osg.scheduled = None => osg.status[osg.running] \in LeftStatus \cup {"ACTIVE"}
  BY <1>1 DEF Healthy
<1>7. osg'.state = "STARTED" /\ osg'.running = osg.running /\ e.running = osg.running
        /\ (osg.scheduled # None => osg'.scheduled # None)
  <2>1. osg'.state = "STARTED" /\ (e.scheduled # None => osg' = e)
    BY <1>4 DEF Schedules, Scheduling
  <2>2. osg'.running = e.running
    BY <1>4 DEF Schedules, Picks, Steady
  <2>. QED  BY <1>2, <2>1, <2>2 DEF Steady
<1>8. osg'.scheduled = None => osg'.status[osg'.running] \in LeftStatus \cup {"ACTIVE"}
  BY <1>2, <1>5, <1>6, <1>7 DEF LeftStatus
<1>14. osg'.scheduled # None => osg'.flags[osg'.running] = {}
  <2>1. osg.flags[osg.running] = {} /\ osg.running \in Tasks
    BY <1>1, <1>6 DEF Healthy, Blocking, Flagging, Scheduling, LeftStatus
  <2>2. osg'.flags[e.running] = e.flags[e.running]
    <3>1. PICK d \in Tasks \cup {None} : Picks(e, osg', d)
      BY <1>4 DEF Schedules
    <3>2. d # e.running
      BY <1>7, <2>1, <3>1, NoneAssumption DEF Picks
    <3>. QED  BY <1>7, <2>1, <3>1, <3>2 DEF Picks
  <2>. QED  BY <1>2, <1>7, <2>1, <2>2
<1>9. Healthy(osg', c)
  BY <1>2, <1>5, <1>7, <1>8, <1>14 DEF Healthy
<1>10. osg.scheduled = None => BestRuns(osg')
  BY <1>2, <1>3, <1>4, <1>6, <1>7, IdleKeptReady DEF Schedules, LeftStatus
<1>11. Chosen(osg) = Chosen(osg') \/ BestRuns(osg')
  BY <1>2, <1>5, <1>7, <1>10 DEF Chosen
<1>12. OneLeaves(osg, osg') /\ osg'.ret = osg.ret
  BY <1>2, <1>5 DEF OneLeaves, Steady
<1>13. SleepOn(osg, osg', Tasks)
  BY <1>2, <1>5 DEF SleepOn
<1>. QED  BY <1>1, <1>7, <1>9, <1>10, <1>11, <1>12, <1>13 DEF Undisturbed

\* PendSV
LEMMA PendHealthy ==
    ASSUME Invariant, NEW c \in Callers, Healthy(osg, c), PendSV
    PROVE  Healthy(osg', c) /\ Undisturbed(osg, osg', c) /\ SleepOn(osg, osg', Tasks)
<1>1. osg' = Switch(osg) /\ Scheduling(osg) /\ osg.scheduled # None
  BY DEF PendSV, Invariant
<1>2. Scheduling(osg') /\ Switched(osg, osg') /\ osg'.ret = osg.ret
  BY <1>1, SwitchInv
<1>3. /\ IdleKept(osg') /\ Blocking(osg', c) /\ OneLeaves(osg, osg')
      /\ Chosen(osg') = Chosen(osg)
  BY <1>1, <1>2, SwitchedKept DEF Healthy
<1>4. /\ osg'.status = osg.status /\ osg'.delay = osg.delay
      /\ osg'.halted = {} /\ osg'.running = osg.scheduled
      /\ osg.status[osg.scheduled] = "ACTIVE" /\ osg'.state = "STARTED" /\ osg'.scheduled = None
  BY <1>1, <1>2 DEF Switched, Healthy, Scheduling
<1>5. Healthy(osg', c)
  BY <1>3, <1>4 DEF Healthy
<1>. QED  BY <1>2, <1>3, <1>4, <1>5 DEF Undisturbed, SleepOn

\* What a healthy system's running task may rely on.
LEMMA HealthyThread ==
    ASSUME Invariant, NEW c \in Callers, Healthy(osg, c), InThread
    PROVE  /\ Scheduling(osg) /\ Awake(osg) /\ osg.scheduled = None /\ osg.halted = {}
           /\ osg \in Kernel /\ osg.running \in Tasks /\ osg.running \in osg.tasks
           /\ osg.status[osg.running] \in LeftStatus \cup {"ACTIVE"}
           /\ osg.flags[osg.running] = {} /\ osg.waits[osg.running] = {}
           /\ \A t \in Tasks : FlagsAgree(osg, t)
<1>1. /\ Scheduling(osg) /\ Awake(osg) /\ osg.scheduled = None /\ osg.halted = {}
      /\ osg \in Kernel /\ osg.running \in Tasks
  BY InThreadFacts DEF InThread, Scheduling, KernelInv
<1>2. osg.status[osg.running] \in LeftStatus \cup {"ACTIVE"} /\ osg.running \in osg.tasks
  BY <1>1 DEF Healthy, InThread, IdleKept
<1>3. osg.flags[osg.running] = {} /\ osg.waits[osg.running] = {}
  BY <1>1, <1>2 DEF Healthy, Blocking, Flagging, LeftStatus
<1>4. \A t \in Tasks : FlagsAgree(osg, t)
  BY FlaggedFacts DEF Healthy, Blocking
<1>. QED  BY <1>1, <1>2, <1>3, <1>4

\* svc_panic and svc_abort of a task that is inside no call
LEMMA LeaveHealthy ==
    ASSUME Invariant, NEW c \in Callers, Healthy(osg, c), InTask, c[osg.running] = None,
           NEW new \in LeftStatus,
           osg' = SvcReturn(SvcLeave(osg, new), osg.running, Returning("SUCCESS"))
    PROVE  /\ Healthy(osg', c) /\ Undisturbed(osg, osg', c) /\ SleepOn(osg, osg', Tasks)
           /\ Invariant'
<1>. DEFINE x == SvcLeave(osg, new)
            t == osg.running
            ms == osg.delay[t]
<1>1. /\ Scheduling(osg) /\ Awake(osg) /\ osg.scheduled = None /\ osg.halted = {}
      /\ osg \in Kernel /\ t \in Tasks /\ osg.status[t] # "WAIT" /\ t # osg.idle
      /\ \A u \in Tasks : FlagsAgree(osg, u)
  BY HealthyThread DEF InTask, LeftStatus
<1>2. IdleKept(osg) /\ Blocking(osg, c)
  BY DEF Healthy
<1>3. GivesUp(osg, x, new, ms)
  BY <1>1, SvcLeaveInv
<1>4. \A w : Moved(osg, w, t, new, ms) => Blocking(w, c)
  BY <1>1, <1>2, MovedKept
<1>. HIDE DEF x, ms
<1>5. new # "WAIT" /\ (new = "WAIT" => ms # 0) /\ new \in LeftStatus \cup {"WAIT"}
  BY DEF LeftStatus
<1>6. /\ Scheduling(x) /\ IdleKept(x) /\ Blocking(x, c) /\ OneLeaves(osg, x)
      /\ x.halted = {} /\ x.ret = osg.ret /\ x.scheduled # None /\ BestRuns(x)
      /\ SleepOn(osg, x, Tasks)
  BY <1>1, <1>2, <1>3, <1>4, <1>5, GivesUpKept
<1>7. Returning("SUCCESS") \in Return /\ osg' = SvcReturn(x, t, Returning("SUCCESS"))
  BY DEF Returning, Return, Codes, x
<1>8. /\ Healthy(osg', c)
      /\ osg'.blocked = x.blocked /\ osg'.status = x.status /\ osg'.delay = x.delay
      /\ Scheduling(osg') /\ Awake(osg')
      /\ BestRuns(osg') /\ osg'.ret = [x.ret EXCEPT ![t] = Returning("SUCCESS")]
  <2>1. Awake(x)
    BY <1>6 DEF Awake
  <2>. QED  BY <1>1, <1>6, <1>7, <2>1, ReturnHealthy
<1>9. \A u \in Tasks : c[u] # None => osg'.ret[u] = osg.ret[u]
  BY <1>1, <1>6, <1>8 DEF Kernel
<1>10. Invariant'
  BY <1>8 DEF Invariant, Scheduling
<1>. QED  BY <1>6, <1>8, <1>9, <1>10 DEF Undisturbed, OneLeaves, SleepOn, Scheduling

\* svc_delay of a task that is inside no call
LEMMA DelayHealthy ==
    ASSUME Invariant, NEW c \in Callers, Healthy(osg, c), InTask, c[osg.running] = None,
           NEW ms \in Delays, ms # 0, Delay(ms)
    PROVE  Healthy(osg', c) /\ Undisturbed(osg, osg', c) /\ SleepOn(osg, osg', Tasks)
<1>. DEFINE x == SvcDelay(osg, ms)
            t == osg.running
<1>1. /\ Scheduling(osg) /\ Awake(osg) /\ osg.scheduled = None /\ osg.halted = {}
      /\ osg \in Kernel /\ t \in Tasks /\ osg.status[t] # "WAIT" /\ t # osg.idle
      /\ \A u \in Tasks : FlagsAgree(osg, u)
  BY HealthyThread DEF InTask, LeftStatus
<1>2. IdleKept(osg) /\ Blocking(osg, c)
  BY DEF Healthy
<1>3. GivesUp(osg, x, "WAIT", ms)
  BY <1>1, SvcDelayInv, DelaysAssumption
<1>4. \A w : Moved(osg, w, t, "WAIT", ms) => Blocking(w, c)
  BY <1>1, <1>2, MovedKept
<1>. HIDE DEF x
<1>6. /\ Scheduling(x) /\ IdleKept(x) /\ Blocking(x, c) /\ OneLeaves(osg, x)
      /\ x.halted = {} /\ x.ret = osg.ret /\ x.scheduled # None /\ BestRuns(x)
      /\ SleepOn(osg, x, Tasks)
  BY <1>1, <1>2, <1>3, <1>4, GivesUpKept
<1>7. Returning("TO") \in Return /\ osg' = SvcReturn(x, t, Returning("TO"))
  BY DEF Returning, Return, Codes, x, Delay
<1>8. /\ Healthy(osg', c)
      /\ osg'.blocked = x.blocked /\ osg'.status = x.status /\ osg'.delay = x.delay
      /\ Scheduling(osg')
      /\ BestRuns(osg') /\ osg'.ret = [x.ret EXCEPT ![t] = Returning("TO")]
  <2>1. Awake(x)
    BY <1>6 DEF Awake
  <2>. QED  BY <1>1, <1>6, <1>7, <2>1, ReturnHealthy
<1>9. \A u \in Tasks : c[u] # None => osg'.ret[u] = osg.ret[u]
  BY <1>1, <1>6, <1>8 DEF Kernel
<1>. QED  BY <1>6, <1>8, <1>9 DEF Undisturbed, OneLeaves, SleepOn, Scheduling

\* A task that is inside no call gets another status, and nobody else runs.
LEMMA ChangeHealthy ==
    ASSUME Invariant, NEW c \in Callers, Healthy(osg, c), InThread,
           NEW t \in osg.tasks \ {osg.idle}, c[t] = None, osg.status[t] # "WAIT",
           NEW new, Changes(osg, osg', t, new), t = osg.running => new \in LeftStatus
    PROVE  Healthy(osg', c) /\ Undisturbed(osg, osg', c) /\ SleepOn(osg, osg', Tasks)
<1>1. /\ osg.scheduled = None /\ osg.halted = {} /\ osg \in Kernel /\ osg.running \in Tasks
      /\ osg.status[osg.running] \in LeftStatus \cup {"ACTIVE"}
  BY HealthyThread
<1>2. t \in Tasks
  BY <1>1 DEF Kernel
<1>3. Moved(osg, osg', t, new, osg.delay[t])
  <2>1. osg.delay = [osg.delay EXCEPT ![t] = osg.delay[t]]
    BY <1>1, <1>2 DEF Kernel
  <2>. QED  BY <2>1 DEF Changes, Frame, Steady, Moved
<1>4. IdleKept(osg') /\ Blocking(osg', c) /\ OneLeaves(osg, osg')
  BY <1>1, <1>2, <1>3, MovedKept, MovedIdle DEF Healthy
<1>5. /\ osg'.scheduled = None /\ osg'.running = osg.running /\ osg'.halted = {}
      /\ osg'.ret = osg.ret /\ osg'.state = "STARTED"
      /\ \A u \in Tasks : osg'.status[u] = IF u = t THEN new ELSE osg.status[u]
      /\ osg'.delay = osg.delay
  BY <1>1, <1>2 DEF Changes, Frame, Kernel, InThread
<1>6. osg'.status[osg'.running] \in LeftStatus \cup {"ACTIVE"}
  BY <1>1, <1>5
<1>7. Chosen(osg') = Chosen(osg)
  BY <1>1, <1>5 DEF Chosen
<1>. QED  BY <1>2, <1>4, <1>5, <1>6, <1>7 DEF Healthy, Undisturbed, SleepOn

\* The service calls of a task that is inside no call on an object.
LEMMA ServiceHealthy ==
    ASSUME Invariant, NEW c \in Callers, Healthy(osg, c), c[osg.running] = None,
           0 \notin Delays, (\E ms \in Delays : Delay(ms)) \/ Panic \/ Abort \/ Finish
    PROVE  Healthy(osg', c) /\ Undisturbed(osg, osg', c) /\ SleepOn(osg, osg', Tasks)
<1>1. InTask /\ InThread
  BY DEF Delay, Panic, Abort, Finish, InTask
<1>2. CASE \E ms \in Delays : Delay(ms)
  BY <1>1, <1>2, DelayHealthy
<1>3. CASE Panic
  BY <1>1, <1>3, LeaveHealthy DEF Panic, LeftStatus
<1>4. CASE Abort
  BY <1>1, <1>4, LeaveHealthy DEF Abort, LeftStatus
<1>5. CASE Finish
  <2>1. /\ Scheduling(osg) /\ osg.scheduled = None /\ osg.running \in osg.tasks
        /\ osg.running \in Tasks
        /\ osg.status[osg.running] \in LeftStatus \cup {"ACTIVE"}
    BY <1>1, HealthyThread
  <2>2. osg.status[osg.running] = "ACTIVE" /\ osg.running \in osg.tasks \ {osg.idle}
    BY <1>1, <2>1 DEF InTask
  <2>3. osg' = StatusSet(osg, osg.running, "FINISHED")
    BY <1>5, <2>2 DEF Finish, OsAssert
  <2>4. "FINISHED" \in LeftStatus
    BY DEF LeftStatus
  <2>5. Changes(osg, osg', osg.running, "FINISHED")
    BY <2>1, <2>2, <2>3, <2>4, StatusChange
  <2>. QED  BY <1>1, <2>2, <2>4, <2>5, ChangeHealthy
<1>. QED  BY <1>2, <1>3, <1>4, <1>5

\* os_task_suspend and os_task_resume, but nobody suspends itself.
LEMMA SuspendHealthy ==
    ASSUME Invariant, NEW c \in Callers, Healthy(osg, c), "suspend_self" \notin Calls,
           NEW t \in Tasks, c[t] = None, Suspend(t) \/ Resume(t)
    PROVE  Healthy(osg', c) /\ Undisturbed(osg, osg', c) /\ SleepOn(osg, osg', Tasks)
<1>1. InThread
  BY DEF Suspend, Resume
<1>2. /\ Scheduling(osg) /\ osg.scheduled = None /\ osg.running \in Tasks
      /\ osg.status[osg.running] \in LeftStatus \cup {"ACTIVE"}
      /\ IdleKept(osg)
  BY <1>1, HealthyThread DEF Healthy
<1>3. CASE Suspend(t)
  <2>1. /\ t \in osg.tasks \ {osg.idle} /\ t # osg.running /\ osg.status[t] \in RunningStatus
        /\ osg' = StatusSet(osg, t, "SUSPENDED")
    BY <1>3 DEF Suspend
  <2>2. "SUSPENDED" \notin LeftStatus /\ osg.status[t] # "WAIT"
    BY <2>1 DEF LeftStatus, RunningStatus
  <2>3. Changes(osg, osg', t, "SUSPENDED")
    BY <1>2, <2>1, <2>2, StatusChange
  <2>. QED  BY <1>1, <2>1, <2>2, <2>3, ChangeHealthy
<1>4. CASE Resume(t)
  <2>1. t \in osg.tasks /\ osg.status[t] = "SUSPENDED" /\ osg' = StatusSet(osg, t, "IDLE")
    BY <1>4 DEF Resume
  <2>2. t # osg.idle /\ t # osg.running /\ osg.status[t] \notin RunningStatus
    BY <1>2, <2>1 DEF IdleKept, LeftStatus, RunningStatus
  <2>3. Changes(osg, osg', t, "IDLE")
    BY <1>2, <2>1, <2>2, StatusChange DEF LeftStatus
  <2>. QED  BY <1>1, <2>1, <2>2, <2>3, ChangeHealthy
<1>. QED  BY <1>3, <1>4

\* os_task_start of a task that is inside no call
LEMMA StartHealthy ==
    ASSUME Invariant, NEW c \in Callers, Healthy(osg, c), NEW t \in Tasks, c[t] = None,
           NEW p \in StartPriorities, p # 0, TaskStart(t, p)
    PROVE  /\ Healthy(osg', c) /\ Undisturbed(osg, osg', c) /\ SleepOn(osg, osg', Tasks \ {t})
           /\ osg.status[t] # "WAIT" => SleepOn(osg, osg', Tasks)
<1>1. InThread
  BY DEF TaskStart
<1>2. /\ Scheduling(osg) /\ osg.scheduled = None /\ osg.halted = {} /\ osg \in Kernel
      /\ osg.status[osg.running] \in LeftStatus \cup {"ACTIVE"}
      /\ IdleKept(osg) /\ Blocking(osg, c) /\ osg.running \in Tasks
  BY <1>1, HealthyThread DEF Healthy
<1>3. /\ osg' = Started(osg, t, p) /\ osg.status[t] \notin RunningStatus
      /\ t \in osg.tasks \ {osg.running, osg.idle}
  BY DEF TaskStart
<1>4. p \in 0 .. MaxPriority /\ p > 0
  BY PrioritiesAssumption, MaxPriorityAssumption
<1>5. Restarts(osg, osg', t, p)
  BY <1>2, <1>3, <1>4, StartedInv
<1>6. /\ osg'.running = osg.running /\ osg'.scheduled = None /\ osg'.halted = {}
      /\ osg'.idle = osg.idle /\ osg'.tasks = osg.tasks /\ osg'.ret = osg.ret
      /\ osg'.state = "STARTED" /\ Scheduling(osg')
  BY <1>2, <1>5 DEF Restarts, Scheduling
<1>7. /\ \A u \in Tasks : osg'.status[u] = IF u = t THEN "IDLE" ELSE osg.status[u]
      /\ \A u \in Tasks : osg'.priority[u] = IF u = t THEN p ELSE osg.priority[u]
      /\ \A u \in Tasks : osg'.flags[u] = IF u = t THEN {} ELSE osg.flags[u]
      /\ \A u \in Tasks : u # t => osg'.waits[u] = osg.waits[u] /\ osg'.delay[u] = osg.delay[u]
  BY <1>2, <1>5 DEF Restarts, Kernel
<1>8. osg.waits[t] = {} /\ osg'.waits[t] = {}
  <2>1. osg.waits[t] = {}
    BY <1>2, NoneAssumption DEF Blocking, Flagging
  <2>2. osg'.waits[t] = {o \in osg.waits[t] : Kind[o] = "semaphore"}
    BY <1>2, <1>5 DEF Restarts, Kernel
  <2>. QED  BY <2>1, <2>2
<1>9. \A o \in Objects : ~Contains(osg.blocked[o], t) /\ osg'.blocked[o] = osg.blocked[o]
  <2>. SUFFICES ASSUME NEW o \in Objects PROVE ~Contains(osg.blocked[o], t)
    BY <1>5 DEF Restarts
  <2>. QED  BY <1>2, NoneAssumption DEF Blocking, Listing
<1>10. IdleKept(osg')
  <2>1. osg.tasks \subseteq Tasks /\ t # osg.idle
    BY <1>2, <1>3 DEF Kernel
  <2>2. \A u \in Tasks \ osg.tasks : osg'.status[u] = "NEW"
    BY <1>2, <1>3, <1>7 DEF IdleKept
  <2>3. /\ osg.idle \in osg.tasks /\ osg'.status[osg.idle] \in RunningStatus
        /\ osg'.priority[osg.idle] = 0
    BY <1>2, <1>3, <1>7, <2>1 DEF IdleKept
  <2>4. \A u \in osg.tasks \ {osg.idle} : osg'.priority[u] > 0
    BY <1>2, <1>4, <1>7, <2>1 DEF IdleKept
  <2>5. osg.running \in osg.tasks
    BY <1>2 DEF IdleKept, Scheduling
  <2>. QED  BY <1>6, <2>2, <2>3, <2>4, <2>5 DEF IdleKept
<1>11. Flagging(osg', c)
  BY <1>2, <1>7, <1>8 DEF Blocking, Flagging
<1>12. Listing(osg', c)
  BY <1>2, <1>7, <1>9 DEF Blocking, Listing
<1>13. Inside(osg', c)
  BY <1>2, <1>6, <1>7 DEF Blocking, Inside
<1>14. \A u \in Tasks : ListedAsleep(osg', c, u)
  <2>1. \A u \in Tasks : c[u] # None => c[u] \in Objects
    BY DEF Callers, Plain
  <2>. QED  BY <1>2, <1>7, <1>9, <2>1 DEF Blocking, ListedAsleep
<1>15. Healthy(osg', c)
  BY <1>2, <1>3, <1>6, <1>7, <1>10, <1>11, <1>12, <1>13, <1>14 DEF Healthy, Blocking
<1>16. Undisturbed(osg, osg', c)
  BY <1>2, <1>6, <1>9 DEF Undisturbed, OneLeaves, Chosen
<1>17. SleepOn(osg, osg', Tasks \ {t}) /\ (osg.status[t] # "WAIT" => SleepOn(osg, osg', Tasks))
  BY <1>7 DEF SleepOn
<1>. QED  BY <1>15, <1>16, <1>17

\* Nobody is inside a call before the system starts.
LEMMA QuietHealthy ==
    ASSUME NEW g, Healthy(g, [t \in Tasks |-> None]), NEW h, h.halted = {}, IdleKept(h),
           \A o \in Objects : g.blocked[o] \in Seq(Tasks) /\ h.blocked[o] \in {g.blocked[o], <<>>},
           \A t \in Tasks : h.flags[t] = {} /\ h.waits[t] = {} /\ h.status[t] # "WAIT",
           h.state = "STARTED" => h.scheduled = None /\ h.status[h.running] = "ACTIVE"
    PROVE  Healthy(h, [t \in Tasks |-> None]) /\ \A o \in Objects : h.blocked[o] = g.blocked[o]
<1>. DEFINE c == [t \in Tasks |-> None]
<1>1. \A t \in Tasks : c[t] = None
  OBVIOUS
<1>. HIDE DEF c
<1>2. ASSUME NEW o \in Objects PROVE g.blocked[o] = <<>>
  <2>. SUFFICES ASSUME g.blocked[o] # <<>> PROVE FALSE
    OBVIOUS
  <2>1. 1 \in 1 .. Len(g.blocked[o]) /\ g.blocked[o][1] \in Tasks
    BY EmptySeq, LenProperties, ElementOfSeq
  <2>2. Contains(g.blocked[o], g.blocked[o][1])
    BY <2>1 DEF Contains
  <2>3. c[g.blocked[o][1]] = o
    BY <2>1, <2>2 DEF Healthy, Blocking, Listing, c
  <2>. QED  BY <1>1, <2>1, <2>3, NoneAssumption
<1>3. \A o \in Objects : h.blocked[o] = <<>> /\ h.blocked[o] = g.blocked[o]
  BY <1>2
<1>4. \A o \in Objects : NoDuplicates(h.blocked[o]) /\ \A t \in Tasks : ~Contains(h.blocked[o], t)
  BY <1>3 DEF NoDuplicates, Contains
<1>5. Blocking(h, c)
  BY <1>1, <1>4 DEF Blocking, Flagging, Listing, Inside, ListedAsleep
<1>6. Healthy(h, c)
  BY <1>1, <1>5 DEF Healthy
<1>. QED  BY <1>3, <1>6 DEF c

\* The zeroed structures are healthy.
LEMMA InitHealthy == Zeroed => Healthy(osg, [t \in Tasks |-> None])
<1>. SUFFICES ASSUME Zeroed PROVE Healthy(osg, [t \in Tasks |-> None])
  OBVIOUS
<1>. DEFINE c == [t \in Tasks |-> None]
<1>1. \A t \in Tasks : c[t] = None
  OBVIOUS
<1>. HIDE DEF c
<1>2. /\ osg.state = "DEFAULT" /\ osg.tasks = {} /\ osg.halted = {}
      /\ \A t \in Tasks : osg.status[t] = "NEW" /\ osg.flags[t] = {} /\ osg.waits[t] = {}
      /\ \A o \in Objects : osg.blocked[o] = <<>>
  BY DEF Zeroed, ZeroKernel
<1>3. \A o \in Objects : NoDuplicates(osg.blocked[o]) /\ \A t \in Tasks : ~Contains(osg.blocked[o], t)
  BY <1>2 DEF NoDuplicates, Contains
<1>4. Blocking(osg, c)
  BY <1>1, <1>2, <1>3 DEF Blocking, Flagging, Listing, Inside, ListedAsleep
<1>5. IdleKept(osg)
  BY <1>2 DEF IdleKept
<1>6. Healthy(osg, c)
  BY <1>1, <1>2, <1>4, <1>5 DEF Healthy
<1>. QED  BY <1>6 DEF c

\* The steps before the first task runs.
LEMMA BootHealthy ==
    ASSUME Invariant, NEW c \in Callers, Healthy(osg, c), Boot, 0 \notin StartPriorities
    PROVE  /\ Healthy(osg', c) /\ Undisturbed(osg, osg', c) /\ SleepOn(osg, osg', Tasks)
<1>. DEFINE n == [t \in Tasks |-> None]
<1>1. /\ osg \in Kernel /\ osg.state # "STARTED" /\ osg.halted = {} /\ IdleKept(osg)
      /\ osg.running = None /\ osg.scheduled = None /\ KernelInv(osg)
      /\ \A t \in Tasks : c[t] = None /\ osg.status[t] # "WAIT"
      /\ \A t \in Tasks \ osg.tasks : osg.status[t] = "NEW"
      /\ \A t \in Tasks : osg.status[t] # "ACTIVE"
  <2>1. osg.state # "STARTED"
    BY DEF Boot, Initialize, TaskInitialize, Start, Teardown
  <2>. QED  BY <2>1 DEF Invariant, KernelInv, Healthy
<1>2. c = n
  <2>1. c \in [Tasks -> Objects \cup {None}]
    BY DEF Callers, Plain
  <2>. QED  BY <1>1, <2>1
<1>3. \A t \in Tasks : osg.flags[t] = {} /\ osg.waits[t] = {}
  BY <1>1, NoneAssumption DEF Healthy, Blocking, Flagging
<1>4. \A o \in Objects : osg.blocked[o] \in Seq(Tasks)
  BY <1>1 DEF Kernel
<1>. HIDE DEF n
<1>5. ASSUME osg'.halted = {}, IdleKept(osg'),
             \A o \in Objects : osg'.blocked[o] \in {osg.blocked[o], <<>>},
             \A t \in Tasks : osg'.flags[t] = {} /\ osg'.waits[t] = {} /\ osg'.status[t] # "WAIT",
             osg'.state = "STARTED" => osg'.scheduled = None /\ osg'.status[osg'.running] = "ACTIVE"
      PROVE  /\ Healthy(osg', c) /\ Undisturbed(osg, osg', c) /\ SleepOn(osg, osg', Tasks)
  <2>1. Healthy(osg', c) /\ \A o \in Objects : osg'.blocked[o] = osg.blocked[o]
    BY <1>2, <1>4, <1>5, QuietHealthy DEF n
  <2>. QED  BY <1>1, <2>1 DEF Undisturbed, OneLeaves, Chosen, SleepOn
<1>6. CASE Initialize
  <2>1. /\ osg'.state = "INITIALIZED" /\ osg'.halted = {} /\ osg'.blocked = osg.blocked
        /\ osg'.flags = osg.flags /\ osg'.waits = osg.waits /\ osg'.status = osg.status
        /\ osg'.tasks = osg.tasks /\ osg'.idle = osg.idle /\ osg'.priority = osg.priority
    BY <1>1, <1>6 DEF Initialize, Kernel
  <2>2. IdleKept(osg')
    BY <1>1, <2>1 DEF IdleKept
  <2>. QED  BY <1>1, <1>3, <1>5, <2>1, <2>2
<1>7. ASSUME NEW t \in Tasks, NEW new \in {"IDLE", "SUSPENDED"}, NEW p \in StartPriorities,
             TaskInitialize(t, new, p)
      PROVE  /\ Healthy(osg', c) /\ Undisturbed(osg, osg', c) /\ SleepOn(osg, osg', Tasks)
  <2>1. /\ osg.state \in {"INITIALIZED", "TASKS_INITIALIZED"} /\ t \notin osg.tasks
        /\ osg.idle = None => new = "IDLE"
        /\ osg' = Initialized(osg, t, new, p)
    BY <1>7 DEF TaskInitialize
  <2>2. osg.status[t] = "NEW" /\ p \in 0 .. MaxPriority /\ p # 0
    BY <1>1, <2>1, PrioritiesAssumption
  <2>3. Initializes(osg, osg', t, new, p)
    BY <1>1, <2>1, <2>2, InitializedInv, Zenon
  <2>4. /\ osg'.state = "TASKS_INITIALIZED" /\ osg'.tasks = osg.tasks \cup {t}
        /\ osg'.halted = {} /\ osg'.blocked = osg.blocked
        /\ osg'.idle = IF osg.idle = None THEN t ELSE osg.idle
    BY <1>1, <2>3 DEF Initializes
  <2>5. /\ \A u \in Tasks : osg'.status[u] = IF u = t THEN new ELSE osg.status[u]
        /\ \A u \in Tasks : osg'.flags[u] = {} /\ osg'.waits[u] = {}
    BY <1>1, <1>3, <2>3 DEF Initializes, Kernel
  <2>6. \A u \in Tasks : osg'.priority[u] =
            IF u = t THEN IF osg.idle = None THEN 0 ELSE p ELSE osg.priority[u]
    BY <1>1, <2>3 DEF Initializes, Kernel, IdlePriority
  <2>7. osg.tasks \subseteq Tasks /\ None \notin Tasks
    BY <1>1, NoneAssumption DEF Kernel
  <2>8. /\ osg.idle = None => osg.tasks = {}
        /\ osg.idle # None => osg.idle \in osg.tasks
    BY <1>1, <2>1, <2>7 DEF IdleKept, Invariant
  <2>9. \A u \in Tasks \ osg'.tasks : osg'.status[u] = "NEW"
    BY <1>1, <2>4, <2>5
  <2>10. /\ osg'.idle \in osg'.tasks /\ osg'.status[osg'.idle] \in RunningStatus
         /\ osg'.priority[osg'.idle] = 0
    <3>1. CASE osg.idle = None
      BY <2>1, <2>4, <2>5, <2>6, <3>1 DEF RunningStatus
    <3>2. CASE osg.idle # None
      <4>1. /\ osg.idle \in osg.tasks /\ osg.idle # t /\ osg.status[osg.idle] \in RunningStatus
            /\ osg.priority[osg.idle] = 0 /\ osg'.idle = osg.idle
        BY <1>1, <2>1, <2>4, <2>8, <3>2 DEF IdleKept
      <4>. QED  BY <2>4, <2>5, <2>6, <2>7, <4>1
    <3>. QED  BY <3>1, <3>2
  <2>11. \A u \in osg'.tasks \ {osg'.idle} : osg'.priority[u] > 0
    <3>1. p > 0
      BY <2>2, MaxPriorityAssumption
    <3>2. \A u \in osg.tasks \ {osg.idle} : osg.priority[u] > 0
      BY <1>1 DEF IdleKept
    <3>3. \A u \in osg'.tasks \ {osg'.idle} :
              \/ u = t /\ osg.idle # None
              \/ u # t /\ u \in osg.tasks \ {osg.idle} /\ u \in Tasks
      BY <2>4, <2>7, <2>8
    <3>. QED  BY <2>6, <3>1, <3>2, <3>3
  <2>12. IdleKept(osg')
    BY <2>4, <2>9, <2>10, <2>11 DEF IdleKept
  <2>. QED  BY <1>1, <1>5, <2>4, <2>5, <2>12
<1>8. CASE Start
  <2>. DEFINE h == [osg EXCEPT !.running = osg.idle, !.status[osg.idle] = "ACTIVE",
                               !.state = "STARTED"]
  <2>1. osg.state = "TASKS_INITIALIZED" /\ osg.idle \in osg.tasks
          /\ osg.status[osg.idle] = "IDLE" /\ osg.idle \in Tasks
    BY <1>1, <1>8 DEF Start, Invariant, Kernel
  <2>2. osg' = h
    <3>1. osg' = [OsAssert(osg, osg.runqueue # <<>>, "os.c:370") EXCEPT
                      !.running = osg.idle, !.status[osg.idle] = "ACTIVE", !.state = "STARTED"]
      BY <1>8 DEF Start
    <3>. QED  BY <1>1, <2>1, <3>1, StartInv, Zenon
  <2>3. /\ osg'.state = "STARTED" /\ osg'.halted = {} /\ osg'.blocked = osg.blocked
        /\ osg'.flags = osg.flags /\ osg'.waits = osg.waits /\ osg'.running = osg.idle
        /\ osg'.scheduled = None
        /\ osg'.tasks = osg.tasks /\ osg'.idle = osg.idle /\ osg'.priority = osg.priority
        /\ osg'.status = [osg.status EXCEPT ![osg.idle] = "ACTIVE"]
    BY <1>1, <2>2 DEF Kernel
  <2>. HIDE DEF h
  <2>4. \A u \in Tasks : osg'.status[u] = IF u = osg.idle THEN "ACTIVE" ELSE osg.status[u]
    BY <1>1, <2>3 DEF Kernel
  <2>5. IdleKept(osg')
    BY <1>1, <2>1, <2>3, <2>4 DEF IdleKept, RunningStatus
  <2>. QED  BY <1>1, <1>3, <1>5, <2>1, <2>3, <2>4, <2>5
<1>9. CASE Teardown
  <2>1. osg' = ZeroKernel
    BY <1>9 DEF Teardown
  <2>2. /\ osg'.state = "DEFAULT" /\ osg'.halted = {} /\ osg'.tasks = {}
        /\ \A u \in Tasks : osg'.status[u] = "NEW" /\ osg'.flags[u] = {} /\ osg'.waits[u] = {}
        /\ \A o \in Objects : osg'.blocked[o] = <<>>
    BY <2>1 DEF ZeroKernel
  <2>3. IdleKept(osg')
    BY <2>2 DEF IdleKept
  <2>. QED  BY <1>5, <2>2, <2>3
<1>. QED  BY <1>6, <1>7, <1>8, <1>9 DEF Boot

-----------------------------------------------------------------------------
(***************************************************************************)
(* Calls on an object: a task enters one, blocks in it, is granted what it *)
(* waits for, and leaves it.                                               *)
(***************************************************************************)

\* An active task enters or leaves a call.
LEMMA CallerKept ==
    ASSUME NEW g, g.tasks \subseteq Tasks, NEW c \in Callers, Blocking(g, c),
           NEW t \in g.tasks \ {g.idle}, g.status[t] = "ACTIVE", NEW o \in Plain \cup {None}
    PROVE  /\ [c EXCEPT ![t] = o] \in Callers /\ Blocking(g, [c EXCEPT ![t] = o])
           /\ g.flags[t] = {} /\ g.waits[t] = {} /\ \A p \in Objects : ~Contains(g.blocked[p], t)
<1>. DEFINE n == [c EXCEPT ![t] = o]
<1>1. t \in Tasks /\ n \in Callers /\ \A u \in Tasks : n[u] = IF u = t THEN o ELSE c[u]
  BY DEF Callers
<1>2. g.flags[t] = {} /\ g.waits[t] = {}
  BY <1>1 DEF Blocking, Flagging
<1>3. \A p \in Objects : ~Contains(g.blocked[p], t)
  BY <1>1, <1>2 DEF Blocking, Listing
<1>. HIDE DEF n
<1>4. Flagging(g, n)
  BY <1>1, <1>2 DEF Blocking, Flagging
<1>5. Listing(g, n)
  BY <1>1, <1>3 DEF Blocking, Listing
<1>6. Inside(g, n)
  BY <1>1 DEF Blocking, Inside, RunningStatus
<1>7. \A u \in Tasks : ListedAsleep(g, n, u)
  BY <1>1 DEF Blocking, ListedAsleep
<1>8. Blocking(g, n)
  BY <1>4, <1>5, <1>6, <1>7 DEF Blocking
<1>. QED  BY <1>1, <1>2, <1>3, <1>8 DEF n

\* The task t has left the object's list and is about to be woken.
ToBeGranted(g, c, t) ==
    /\ Scheduling(g) /\ Awake(g) /\ g.halted = {} /\ IdleKept(g)
    /\ g.scheduled # None \/ g.status[g.running] \in LeftStatus \cup {"ACTIVE"}
    /\ Flagging(g, c) /\ Listing(g, c) /\ Inside(g, c)
    /\ t # g.running /\ c[t] # None /\ g.status[t] \in {"IDLE", "WAIT"}
    /\ \A u \in Tasks : u # t => ListedAsleep(g, c, u)

\* What waking it leaves of g.
IsGranted(g, h, c, t) ==
    /\ Scheduling(h) /\ Awake(h) /\ h.halted = {} /\ IdleKept(h) /\ Blocking(h, c)
    /\ h.scheduled # None \/ h.status[h.running] \in LeftStatus \cup {"ACTIVE"}
    /\ OneLeaves(g, h) /\ h.ret = g.ret /\ SleepOn(g, h, Tasks \ {t})
    /\ h.running = g.running /\ h.flags[g.running] = g.flags[g.running]

\* What a service makes of the task it grants something.
LEMMA GrantsKept ==
    ASSUME NEW g, NEW c \in Callers, NEW t \in Tasks, ToBeGranted(g, c, t),
           NEW h, Grants(g, h, t)
    PROVE  IsGranted(g, h, c, t)
<1>0. /\ Scheduling(g) /\ Awake(g) /\ g.halted = {} /\ IdleKept(g)
      /\ g.scheduled # None \/ g.status[g.running] \in LeftStatus \cup {"ACTIVE"}
      /\ Flagging(g, c) /\ Listing(g, c) /\ Inside(g, c)
      /\ t # g.running /\ c[t] # None /\ g.status[t] \in {"IDLE", "WAIT"}
      /\ \A u \in Tasks : u # t => ListedAsleep(g, c, u)
  BY DEF ToBeGranted
<1>1. Scheduling(h) /\ Awake(h)
  BY <1>0 DEF Grants
<1>2. /\ g \in Kernel /\ t \in g.tasks \ {g.idle} /\ g.tasks \subseteq Tasks
      /\ g.running \in Tasks /\ None \notin Tasks
  BY <1>0, NoneAssumption DEF Scheduling, KernelInv, Kernel, Inside
<1>3. h.halted = {}
  BY <1>0, <1>2, IdleKeptReady, FlaggedFacts DEF Grants
<1>4. PICK w, new : \E d \in Tasks \cup {None} :
          /\ Moved(g, w, t, new, g.delay[t])
          /\ new # g.status[t] => g.status[t] = "WAIT" /\ new = "IDLE"
          /\ new = "WAIT" /\ t # g.running => d = t
          /\ Picks(w, h, d) /\ (d \notin {None, t} => Due(w, d))
  BY DEF Grants
<1>5. PICK d \in Tasks \cup {None} :
          /\ new = "WAIT" => d = t
          /\ Picks(w, h, d) /\ (d \notin {None, t} => Due(w, d))
  BY <1>0, <1>4
<1>6. Moved(g, w, t, new, g.delay[t]) /\ new \in {"WAIT", "IDLE"}
  BY <1>0, <1>4
<1>7. /\ w.tasks = g.tasks /\ w.idle = g.idle /\ w.blocked = g.blocked /\ w.ret = g.ret
      /\ w.flags = g.flags /\ w.waits = g.waits /\ w.running = g.running
      /\ w.delay[t] = g.delay[t]
      /\ \A u \in Tasks : w.status[u] = IF u = t THEN new ELSE g.status[u]
      /\ \A u \in Tasks : u # t => w.delay[u] = g.delay[u]
  BY <1>0, <1>2, <1>6 DEF Moved, Steady, Kernel
<1>8. w.blocked \in [Objects -> Seq(Tasks)] /\ w.tasks \subseteq Tasks
  BY <1>0, <1>2, <1>7 DEF Kernel
<1>9. IdleKept(h)
  <2>1. IdleKept(w)
    BY <1>0, <1>2, <1>6, MovedIdle
  <2>2. d # None => w.status[d] # "NEW"
    BY <1>0, <1>5, <1>6, <1>7 DEF Due, RunningStatus
  <2>. QED  BY <1>0, <1>5, <1>8, <2>1, <2>2, PicksIdle
<1>10. Blocking(h, c) /\ OneLeaves(g, h)
  <2>1. Flagging(w, c)
    BY <1>0, <1>6, <1>7 DEF Flagging
  <2>2. Listing(w, c) /\ Inside(w, c)
    BY <1>0, <1>6, <1>7 DEF Listing, Inside, RunningStatus
  <2>3. \A u \in Tasks : u = d \/ ListedAsleep(w, c, u)
    <3>1. ListedAsleep(w, c, t) \/ t = d
      BY <1>0, <1>5, <1>6, <1>7 DEF ListedAsleep
    <3>2. \A u \in Tasks : u # t => ListedAsleep(w, c, u)
      BY <1>0, <1>7 DEF ListedAsleep
    <3>. QED  BY <3>1, <3>2
  <2>4. /\ Flagging(h, c) /\ Listing(h, c) /\ Inside(h, c) /\ OneLeaves(w, h)
        /\ \A u \in Tasks : u = d \/ ListedAsleep(w, c, u) => ListedAsleep(h, c, u)
    BY <1>0, <1>5, <1>8, <2>1, <2>2, PicksBlocking
  <2>. QED  BY <1>0, <1>7, <2>3, <2>4 DEF Blocking, OneLeaves
<1>11. h.ret = g.ret /\ h.running = g.running
  BY <1>0, <1>5, <1>7 DEF Picks, Steady
<1>12. h.scheduled # None \/ h.status[h.running] \in LeftStatus \cup {"ACTIVE"}
  <2>1. d # None => h.scheduled # None
    BY <1>0, <1>2, <1>5 DEF Picks
  <2>2. d = None => h.scheduled = g.scheduled
    BY <1>0, <1>5, <1>6 DEF Picks, Moved
  <2>3. ASSUME g.scheduled = None, d = None PROVE h.status[h.running] \in LeftStatus \cup {"ACTIVE"}
    <3>1. /\ w.status[g.running] \in LeftStatus \cup {"ACTIVE"} /\ w.status[g.running] # "WAIT"
      BY <1>0, <1>2, <1>7, <2>3 DEF LeftStatus
    <3>2. h.status[g.running] = w.status[g.running]
      BY <1>0, <1>2, <1>5, <1>7, <2>3, <3>1 DEF Picks, MayBecomeIdle
    <3>. QED  BY <1>0, <1>11, <3>1, <3>2
  <2>. QED  BY <2>1, <2>2, <2>3
<1>13. SleepOn(g, h, Tasks \ {t})
  <2>. SUFFICES ASSUME NEW u \in Tasks \ {t}, g.status[u] = "WAIT", g.delay[u] > 1
                PROVE  h.status[u] = "WAIT" /\ h.delay[u] = g.delay[u]
    BY DEF SleepOn
  <2>1. /\ w.status[u] = "WAIT" /\ w.delay[u] # 0 /\ w.delay[u] = g.delay[u]
        /\ "WAIT" \notin RunningStatus
    BY <1>0, <1>7 DEF RunningStatus
  <2>2. u # d
    BY <1>0, <1>2, <1>5, <2>1 DEF Due
  <2>. QED  BY <1>0, <1>5, <2>1, <2>2 DEF Picks, MayBecomeIdle
<1>14. h.flags[g.running] = g.flags[g.running]
  BY <1>0, <1>2, <1>5, <1>7 DEF Picks
<1>. QED  BY <1>0, <1>1, <1>3, <1>9, <1>10, <1>11, <1>12, <1>13, <1>14 DEF IsGranted

\* What the list of each object may have become when t has joined that of o.
JoinsAndOneLeaves(g, h, o, t) ==
    \A p \in Objects :
        LET q == IF p = o THEN Append(g.blocked[o], t) ELSE g.blocked[p]
        IN  h.blocked[p] \in {q} \cup {RemoveAt(q, i) : i \in 1 .. Len(q)}

\* One more at the tail of a list it is not in.
LEMMA AppendFacts ==
    ASSUME NEW s \in Seq(Tasks), NoDuplicates(s), NEW t \in Tasks, ~Contains(s, t)
    PROVE  /\ Append(s, t) \in Seq(Tasks) /\ NoDuplicates(Append(s, t))
           /\ \A u \in Tasks : Contains(Append(s, t), u) <=> Contains(s, u) \/ u = t
<1>. DEFINE r == Append(s, t)
<1>1. /\ r \in Seq(Tasks) /\ Len(r) = Len(s) + 1 /\ Len(s) \in Nat
      /\ \A i \in 1 .. Len(r) : r[i] = IF i <= Len(s) THEN s[i] ELSE t
  BY AppendProperties, LenProperties
<1>. HIDE DEF r
<1>2. \A i \in 1 .. Len(s) : s[i] # t /\ i \in 1 .. Len(r)
  BY <1>1 DEF Contains
<1>3. NoDuplicates(r)
  <2>. SUFFICES ASSUME NEW i \in 1 .. Len(r), NEW j \in 1 .. Len(r), r[i] = r[j] PROVE i = j
    BY DEF NoDuplicates
  <2>1. CASE i \in 1 .. Len(s) /\ j \in 1 .. Len(s)
    BY <1>1, <2>1 DEF NoDuplicates
  <2>2. CASE i \notin 1 .. Len(s) \/ j \notin 1 .. Len(s)
    <3>1. (i \in 1 .. Len(s) <=> i <= Len(s)) /\ (j \in 1 .. Len(s) <=> j <= Len(s))
      BY <1>1
    <3>2. i \notin 1 .. Len(s) /\ j \notin 1 .. Len(s)
      BY <1>1, <1>2, <2>2, <3>1
    <3>. QED  BY <1>1, <3>1, <3>2
  <2>. QED  BY <2>1, <2>2
<1>4. ASSUME NEW u \in Tasks PROVE Contains(r, u) <=> Contains(s, u) \/ u = t
  <2>1. ASSUME Contains(r, u) PROVE Contains(s, u) \/ u = t
    <3>1. PICK i \in 1 .. Len(r) : r[i] = u
      BY <2>1 DEF Contains
    <3>2. i <= Len(s) => i \in 1 .. Len(s)
      BY <1>1
    <3>. QED  BY <1>1, <3>1, <3>2 DEF Contains
  <2>2. ASSUME Contains(s, u) PROVE Contains(r, u)
    <3>1. PICK i \in 1 .. Len(s) : s[i] = u
      BY <2>2 DEF Contains
    <3>2. i \in 1 .. Len(r) /\ r[i] = u
      BY <1>1, <1>2, <3>1
    <3>. QED  BY <3>2 DEF Contains
  <2>3. Contains(r, t)
    <3>1. Len(s) + 1 \in 1 .. Len(r) /\ r[Len(s) + 1] = t
      BY <1>1
    <3>. QED  BY <3>1 DEF Contains
  <2>. QED  BY <2>1, <2>2, <2>3
<1>. QED  BY <1>1, <1>3, <1>4 DEF r

\* t blocks on o, and will find result when it returns.
BlocksOn(t, o, to, result) ==
    osg' = SvcReturn(SvcBlock(BlockedAppend(osg, o, t), to, Kind[o]), t, result)

\* A task enters a call on an object and blocks in it.
LEMMA BlockHealthy ==
    ASSUME Invariant, NEW c \in Callers, Healthy(osg, c), InTask, NEW t \in Tasks,
           t = osg.running, c[t] = None, NEW o \in Plain, NEW to \in 0 .. Forever, to # 0,
           NEW result \in Return, BlocksOn(t, o, to, result)
    PROVE  /\ Healthy(osg', [c EXCEPT ![t] = o]) /\ Scheduling(osg') /\ Awake(osg')
           /\ osg'.ret = [osg.ret EXCEPT ![t] = result]
           /\ JoinsAndOneLeaves(osg, osg', o, t) /\ SleepOn(osg, osg', Tasks)
           /\ osg'.status[t] = "WAIT" /\ osg'.delay[t] = to
<1>. DEFINE n == [c EXCEPT ![t] = o]
            listed == [osg EXCEPT !.blocked[o] = Append(@, t), !.waits[t] = {o}]
            g == [osg EXCEPT !.blocked[o] = Append(@, t), !.waits[t] = {o},
                             !.flags[t] = Flag[Kind[o]]]
            x == SvcDelay(g, to)
<1>1. /\ Scheduling(osg) /\ Awake(osg) /\ osg.scheduled = None /\ osg.halted = {}
      /\ osg \in Kernel /\ osg.status[t] = "ACTIVE" /\ t \in osg.tasks \ {osg.idle}
      /\ osg.flags[t] = {} /\ osg.waits[t] = {} /\ osg.tasks \subseteq Tasks
      /\ KernelInv(osg)
  BY HealthyThread DEF InTask, LeftStatus, Kernel, Scheduling
<1>2. /\ IdleKept(osg) /\ Blocking(osg, c)
      /\ \A u \in Tasks : FlagsAgree(osg, u)
  BY HealthyThread DEF Healthy, InTask
<1>3. n \in Callers /\ Blocking(osg, n) /\ \A p \in Objects : ~Contains(osg.blocked[p], t)
  BY <1>1, <1>2, CallerKept
<1>4. o \in Objects /\ Kind[o] \in {"mutex", "queue", "rwlock"}
  BY DEF Plain
<1>5. Flag[Kind[o]] # {} /\ Flag[Kind[o]] \subseteq FlagBits
  <2>1. /\ Flag["mutex"] = {1} /\ Flag["queue"] = {2} /\ Flag["rwlock"] = {4}
    BY DEF Flag
  <2>. QED  BY <1>4, <2>1 DEF FlagBits
<1>6. /\ osg.blocked \in [Objects -> Seq(Tasks)] /\ osg.waits \in [Tasks -> SUBSET Objects]
      /\ osg.flags \in [Tasks -> SUBSET FlagBits]
  BY <1>1 DEF Kernel
<1>7. SvcBlock(BlockedAppend(osg, o, t), to, Kind[o]) = x
  <2>1. BlockedAppend(osg, o, t) = listed
    <3>1. {p \in osg.waits[t] : Kind[p] = Kind[o]} = {} /\ (osg.waits[t] \ {}) \cup {o} = {o}
      BY <1>1
    <3>2. ~Contains(osg.blocked[o], t)
            /\ \A p \in Objects : Contains(osg.blocked[p], t) => Last(osg.blocked[p]) = t
      BY <1>3, <1>4
    <3>. QED  BY <3>1, <3>2, Zenon DEF BlockedAppend, OsAssert
  <2>2. listed.running = t /\ listed.flags = osg.flags
    BY <1>1 DEF Kernel
  <2>3. [listed EXCEPT !.flags[t] = @ \cup Flag[Kind[o]]] = g
    <3>1. listed.flags[t] \cup Flag[Kind[o]] = Flag[Kind[o]]
      BY <1>1, <2>2
    <3>2. [listed EXCEPT !.flags[t] = @ \cup Flag[Kind[o]]]
            = [listed EXCEPT !.flags[t] = Flag[Kind[o]]]
      BY <1>1, <1>6, <2>2, <3>1 DEF Kernel
    <3>. QED  BY <1>1, <3>2 DEF Kernel
  <2>. HIDE DEF listed, g
  <2>. QED  BY <2>1, <2>2, <2>3 DEF SvcBlock
<1>8. /\ g \in Kernel /\ Steady(osg, g) /\ g.status = osg.status /\ g.delay = osg.delay
      /\ g.scheduled = None /\ g.runqueue = osg.runqueue /\ g.waitqueue = osg.waitqueue
      /\ g.halted = {} /\ g.running = t
      /\ g.blocked = [osg.blocked EXCEPT ![o] = Append(osg.blocked[o], t)]
      /\ g.waits = [osg.waits EXCEPT ![t] = {o}]
      /\ g.flags = [osg.flags EXCEPT ![t] = Flag[Kind[o]]]
  <2>1. Append(osg.blocked[o], t) \in Seq(Tasks)
    BY <1>4, <1>6, AppendProperties
  <2>. QED  BY <1>1, <1>4, <1>5, <2>1 DEF Kernel, Steady
<1>. HIDE DEF g
<1>9. Scheduling(g) /\ IdleKept(g)
  BY <1>1, <1>2, <1>8 DEF Scheduling, Steady, KernelInv, QueuesMatchStatus, RunqueueSorted,
                          WaitqueueSorted, IdleKept
<1>10. /\ \A u \in Tasks : g.flags[u] = IF u = t THEN Flag[Kind[o]] ELSE osg.flags[u]
       /\ \A u \in Tasks : g.waits[u] = IF u = t THEN {o} ELSE osg.waits[u]
       /\ \A p \in Objects :
              g.blocked[p] = IF p = o THEN Append(osg.blocked[o], t) ELSE osg.blocked[p]
       /\ \A u \in Tasks : n[u] = IF u = t THEN o ELSE c[u]
  BY <1>6, <1>8 DEF Callers
<1>. HIDE DEF n
<1>11. \A u \in Tasks : FlagsAgree(g, u)
  <2>1. FlagKind(g, t) = Kind[o]
    BY <1>4, <1>10, FlagKindFacts
  <2>2. FlagsAgree(g, t)
    BY <1>4, <1>10, <2>1 DEF FlagsAgree
  <2>3. \A u \in Tasks : u # t => FlagsAgree(g, u)
    BY <1>2, <1>10 DEF FlagsAgree, FlagKind
  <2>. QED  BY <2>2, <2>3
<1>12. ASSUME NEW w, Moved(g, w, t, "WAIT", to) PROVE Blocking(w, n)
  <2>1. /\ w.flags = g.flags /\ w.waits = g.waits /\ w.blocked = g.blocked
        /\ w.idle = osg.idle /\ w.tasks = osg.tasks
        /\ \A u \in Tasks : w.status[u] = IF u = t THEN "WAIT" ELSE osg.status[u]
    BY <1>1, <1>8, <1>12 DEF Moved, Steady, Kernel
  <2>2. \A p \in Objects : NoDuplicates(osg.blocked[p]) /\ osg.blocked[p] \in Seq(Tasks)
    BY <1>2, <1>6 DEF Blocking, Listing
  <2>3. \A p \in Objects :
            /\ NoDuplicates(w.blocked[p])
            /\ \A u \in Tasks : Contains(w.blocked[p], u)
                                   <=> Contains(osg.blocked[p], u) \/ (p = o /\ u = t)
    BY <1>3, <1>4, <1>10, <2>1, <2>2, AppendFacts
  <2>4. Flagging(w, n)
    BY <1>2, <1>4, <1>10, <2>1 DEF Blocking, Flagging
  <2>5. Listing(w, n)
    BY <1>2, <1>3, <1>5, <1>10, <2>1, <2>3 DEF Blocking, Listing
  <2>6. Inside(w, n)
    BY <1>1, <1>2, <1>10, <2>1 DEF Blocking, Inside
  <2>7. ASSUME NEW u \in Tasks PROVE ListedAsleep(w, n, u)
    <3>1. u = t => Contains(w.blocked[n[u]], u)
      BY <1>4, <1>10, <2>3
    <3>2. u # t /\ n[u] # None => c[u] \in Objects /\ n[u] = c[u]
      BY <1>10 DEF Callers, Plain
    <3>. QED  BY <1>2, <2>1, <2>3, <3>1, <3>2 DEF Blocking, ListedAsleep
  <2>. QED  BY <2>4, <2>5, <2>6, <2>7 DEF Blocking
<1>13. GivesUp(g, x, "WAIT", to)
  <2>1. g.status[g.running] # "WAIT"
    BY <1>1, <1>8
  <2>. QED  BY <1>8, <1>9, <2>1, SvcDelayInv
<1>. HIDE DEF x
<1>14. /\ Scheduling(x) /\ IdleKept(x) /\ Blocking(x, n) /\ OneLeaves(g, x)
       /\ x.halted = {} /\ x.ret = g.ret /\ x.scheduled # None /\ SleepOn(g, x, Tasks)
  <2>1. /\ g.running # g.idle /\ g.status[g.running] # "WAIT"
        /\ g.scheduled = None /\ g.halted = {}
    BY <1>1, <1>8 DEF Steady
  <2>2. \A w : Moved(g, w, g.running, "WAIT", to) => Blocking(w, n)
    BY <1>8, <1>12
  <2>3. "WAIT" \in LeftStatus \cup {"WAIT"} /\ n \in Callers
    BY <1>3
  <2>. QED  BY <1>9, <1>11, <1>13, <2>1, <2>2, <2>3, GivesUpKept
<1>15. /\ Healthy(osg', n) /\ Scheduling(osg') /\ Awake(osg')
       /\ osg'.blocked = x.blocked /\ osg'.status = x.status /\ osg'.delay = x.delay
       /\ osg'.ret = [x.ret EXCEPT ![t] = result]
  <2>1. Awake(x) /\ osg' = SvcReturn(x, t, result)
    BY <1>7, <1>14 DEF Awake, BlocksOn
  <2>. QED  BY <1>14, <2>1, ReturnHealthy
<1>16. JoinsAndOneLeaves(osg, osg', o, t)
  <2>. SUFFICES ASSUME NEW p \in Objects
                PROVE  LET q == IF p = o THEN Append(osg.blocked[o], t) ELSE osg.blocked[p]
                       IN  osg'.blocked[p] \in {q} \cup {RemoveAt(q, i) : i \in 1 .. Len(q)}
    BY DEF JoinsAndOneLeaves
  <2>1. osg'.blocked[p] \in {g.blocked[p]} \cup {RemoveAt(g.blocked[p], i) : i \in 1 .. Len(g.blocked[p])}
    BY <1>14, <1>15 DEF OneLeaves
  <2>2. g.blocked[p] = IF p = o THEN Append(osg.blocked[o], t) ELSE osg.blocked[p]
    BY <1>10
  <2>. QED  BY <2>1, <2>2, Zenon
<1>17. SleepOn(osg, osg', Tasks)
  BY <1>8, <1>14, <1>15 DEF SleepOn
<1>18. osg'.ret = [osg.ret EXCEPT ![t] = result]
  BY <1>8, <1>14, <1>15 DEF Steady
<1>19. osg'.status[t] = "WAIT" /\ osg'.delay[t] = to
  BY <1>8, <1>9, <1>13, <1>15, GivesUpWaits
<1>. QED  BY <1>15, <1>16, <1>17, <1>18, <1>19 DEF n

\* What the list of each object may have become when its first has left o's.
FirstAndOneLeave(g, h, o) ==
    \A p \in Objects :
        LET q == IF p = o THEN Tail(g.blocked[o]) ELSE g.blocked[p]
        IN  h.blocked[p] \in {q} \cup {RemoveAt(q, i) : i \in 1 .. Len(q)}

\* The rest of a list.
LEMMA TailFacts ==
    ASSUME NEW s \in Seq(Tasks), s # <<>>, NoDuplicates(s)
    PROVE  /\ Head(s) \in Tasks /\ Contains(s, Head(s))
           /\ Tail(s) \in Seq(Tasks) /\ NoDuplicates(Tail(s))
           /\ \A u \in Tasks : Contains(Tail(s), u) <=> Contains(s, u) /\ u # Head(s)
<1>. DEFINE r == Tail(s)
<1>1. /\ r \in Seq(Tasks) /\ Len(r) = Len(s) - 1 /\ Len(s) \in Nat \ {0}
      /\ \A i \in 1 .. Len(r) : r[i] = s[i + 1]
      /\ Head(s) = s[1] /\ Head(s) \in Tasks
  BY HeadTailProperties, EmptySeq, LenProperties
<1>. HIDE DEF r
<1>2. Contains(s, Head(s))
  BY <1>1 DEF Contains
<1>3. \A i \in 1 .. Len(r) : i + 1 \in 1 .. Len(s) /\ i + 1 # 1
  BY <1>1
<1>4. NoDuplicates(r)
  BY <1>1, <1>3 DEF NoDuplicates
<1>5. ASSUME NEW u \in Tasks PROVE Contains(r, u) <=> Contains(s, u) /\ u # Head(s)
  <2>1. ASSUME Contains(r, u) PROVE Contains(s, u) /\ u # Head(s)
    <3>1. PICK i \in 1 .. Len(r) : r[i] = u
      BY <2>1 DEF Contains
    <3>2. s[i + 1] = u /\ i + 1 \in 1 .. Len(s) /\ i + 1 # 1 /\ 1 \in 1 .. Len(s)
      BY <1>1, <1>3, <3>1
    <3>. QED  BY <1>1, <3>2 DEF Contains, NoDuplicates
  <2>2. ASSUME Contains(s, u), u # Head(s) PROVE Contains(r, u)
    <3>1. PICK i \in 1 .. Len(s) : s[i] = u
      BY <2>2 DEF Contains
    <3>2. i - 1 \in 1 .. Len(r) /\ r[i - 1] = u
      BY <1>1, <2>2, <3>1
    <3>. QED  BY <3>2 DEF Contains
  <2>. QED  BY <2>1, <2>2
<1>. QED  BY <1>1, <1>2, <1>4, <1>5 DEF r

\* t is the first task in o's list.
IsFirst(g, o, t) == g.blocked[o] # <<>> /\ t = Head(g.blocked[o])

\* A task is taken off an object's list and told the result of its call.
UnlinkedFrom(k, o, f, q, result) == [k EXCEPT !.blocked[o] = q, !.ret[f] = result]

\* What that leaves.
Unlinks(k, g, c, o, f, q, result) ==
    /\ Scheduling(g) /\ Awake(g) /\ g.scheduled = k.scheduled /\ g.halted = {} /\ IdleKept(g)
    /\ g.running = k.running /\ g.status = k.status /\ g.delay = k.delay
    /\ g.flags = k.flags
    /\ Flagging(g, c) /\ Listing(g, c) /\ Inside(g, c)
    /\ \A u \in Tasks : u # f => ListedAsleep(g, c, u)
    /\ g.blocked = [k.blocked EXCEPT ![o] = q]
    /\ g.ret = [k.ret EXCEPT ![f] = result]
    /\ c[f] = o /\ k.waits[f] = {o} /\ k.status[f] \in {"WAIT", "IDLE"}

\* Taken off a list, a task may be told its result; the others are as they
\* were.
LEMMA UnlinkKept ==
    ASSUME NEW k, Scheduling(k), Awake(k), k.halted = {}, IdleKept(k),
           NEW c \in Callers, Blocking(k, c), NEW o \in Plain,
           NEW f \in Tasks, Contains(k.blocked[o], f),
           NEW q \in Seq(Tasks), NoDuplicates(q),
           \A u \in Tasks : Contains(q, u) <=> Contains(k.blocked[o], u) /\ u # f,
           NEW result \in Return, NEW g, g = UnlinkedFrom(k, o, f, q, result)
    PROVE  Unlinks(k, g, c, o, f, q, result)
<1>1. k \in Kernel /\ KernelInv(k) /\ k.running \in Tasks
  BY DEF Scheduling, KernelInv
<1>2. o \in Objects /\ k.blocked \in [Objects -> Seq(Tasks)] /\ k.ret \in [Tasks -> Return]
  BY <1>1 DEF Plain, Kernel
<1>3. c[f] = o /\ k.flags[f] # {}
  BY <1>2 DEF Blocking, Listing
<1>4. k.waits[f] = {o} /\ k.status[f] \in {"WAIT", "IDLE"}
  BY <1>3 DEF Blocking, Flagging
<1>5. /\ g \in Kernel /\ g.state = k.state /\ g.running = k.running /\ g.idle = k.idle
      /\ g.tasks = k.tasks /\ g.priority = k.priority
      /\ g.status = k.status /\ g.delay = k.delay
      /\ g.scheduled = k.scheduled /\ g.runqueue = k.runqueue /\ g.waitqueue = k.waitqueue
      /\ g.halted = {} /\ g.waits = k.waits /\ g.flags = k.flags
      /\ g.blocked = [k.blocked EXCEPT ![o] = q]
      /\ g.ret = [k.ret EXCEPT ![f] = result]
  BY <1>1, <1>2 DEF Kernel, UnlinkedFrom
<1>6. Scheduling(g) /\ Awake(g) /\ IdleKept(g)
  BY <1>1, <1>5 DEF Scheduling, KernelInv, QueuesMatchStatus, RunqueueSorted,
                    WaitqueueSorted, IdleKept, Awake
<1>7. \A p \in Objects : g.blocked[p] = IF p = o THEN q ELSE k.blocked[p]
  BY <1>2, <1>5
<1>8. \A p \in Objects :
         /\ NoDuplicates(g.blocked[p])
         /\ \A u \in Tasks : Contains(g.blocked[p], u)
                                <=> Contains(k.blocked[p], u) /\ (p # o \/ u # f)
  BY <1>7 DEF Blocking, Listing
<1>9. Flagging(g, c) /\ Listing(g, c) /\ Inside(g, c)
  BY <1>5, <1>8 DEF Blocking, Flagging, Listing, Inside
<1>10. \A u \in Tasks : u # f => ListedAsleep(g, c, u)
  <2>1. \A u \in Tasks : c[u] # None => c[u] \in Objects
    BY DEF Callers, Plain
  <2>. QED  BY <1>5, <1>8, <2>1 DEF Blocking, ListedAsleep
<1>. QED  BY <1>3, <1>4, <1>5, <1>6, <1>9, <1>10 DEF Unlinks

\* x is k once the first task in o's list, f, has been told its result and
\* woken.
Gives(k, x, o, f, result) ==
    /\ IsFirst(k, o, f)
    /\ x = DispatchOrQueue([BlockedDequeue(k, o) EXCEPT !.ret[f] = result], f)

\* What that leaves of k.
IsGiven(k, x, c, o, f, result) ==
    /\ Scheduling(x) /\ Awake(x) /\ x.halted = {} /\ IdleKept(x) /\ Blocking(x, c)
    /\ x.scheduled # None \/ x.status[x.running] \in LeftStatus \cup {"ACTIVE"}
    /\ c[f] = o /\ Contains(k.blocked[o], f)
    /\ x.running = k.running /\ x.flags[k.running] = k.flags[k.running]
    /\ FirstAndOneLeave(k, x, o) /\ SleepOn(k, x, Tasks \ {f})
    /\ x.ret = [k.ret EXCEPT ![f] = result]

\* The first task in an object's list is granted what it waits for, by a
\* task's call or by an interrupt.
LEMMA GrantKept ==
    ASSUME NEW k, Scheduling(k), Awake(k), k.halted = {}, IdleKept(k),
           IF k.scheduled = None THEN k.status[k.running] \in LeftStatus \cup {"ACTIVE"}
                                 ELSE Interruptible,
           NEW c \in Callers, Blocking(k, c), NEW o \in Plain,
           NEW f \in Tasks, f # k.running, NEW result \in Return, NEW x, Gives(k, x, o, f, result)
    PROVE  IsGiven(k, x, c, o, f, result)
<1>. DEFINE listed == [k EXCEPT !.blocked[o] = Tail(@)]
            dequeued == [k EXCEPT !.blocked[o] = Tail(@), !.ret[f] = result]
<1>1. k \in Kernel /\ KernelInv(k) /\ k.running \in Tasks
  BY DEF Scheduling, KernelInv
<1>2. Blocking(k, c)
  OBVIOUS
<1>3. o \in Objects /\ k.blocked \in [Objects -> Seq(Tasks)] /\ k.ret \in [Tasks -> Return]
  BY <1>1 DEF Plain, Kernel
<1>4. /\ Contains(k.blocked[o], f)
      /\ Tail(k.blocked[o]) \in Seq(Tasks) /\ NoDuplicates(Tail(k.blocked[o]))
      /\ \A u \in Tasks : Contains(Tail(k.blocked[o]), u) <=> Contains(k.blocked[o], u) /\ u # f
  <2>1. k.blocked[o] \in Seq(Tasks) /\ NoDuplicates(k.blocked[o])
    BY <1>2, <1>3 DEF Blocking, Listing
  <2>. QED  BY <2>1, TailFacts DEF Gives, IsFirst
<1>5. c[f] = o /\ k.flags[f] # {} /\ c[f] # None
  BY <1>2, <1>3, <1>4, NoneAssumption DEF Blocking, Listing
<1>6. k.waits[f] = {o} /\ k.status[f] \in {"WAIT", "IDLE"}
  BY <1>2, <1>5 DEF Blocking, Flagging
<1>7. BlockedDequeue(k, o) = listed
  <2>1. o \in k.waits[Head(k.blocked[o])]
    BY <1>6 DEF Gives, IsFirst
  <2>. QED  BY <2>1, Zenon DEF BlockedDequeue, OsAssert
<1>8. [BlockedDequeue(k, o) EXCEPT !.ret[f] = result] = dequeued
  <2>1. [listed EXCEPT !.ret[f] = result] = dequeued
    BY <1>1 DEF Kernel
  <2>. HIDE DEF listed, dequeued
  <2>. QED  BY <1>7, <2>1
<1>9. PICK g : g = dequeued
  OBVIOUS
<1>10. x = DispatchOrQueue(g, f)
  BY <1>8, <1>9 DEF Gives
<1>11. g = UnlinkedFrom(k, o, f, Tail(k.blocked[o]), result)
  BY <1>1, <1>9 DEF UnlinkedFrom
<1>. HIDE DEF dequeued, listed
<1>12. /\ Scheduling(g) /\ Awake(g) /\ g.scheduled = k.scheduled /\ g.halted = {} /\ IdleKept(g)
       /\ g.running = k.running /\ g.status = k.status /\ g.delay = k.delay
       /\ g.flags = k.flags
       /\ Flagging(g, c) /\ Listing(g, c) /\ Inside(g, c)
       /\ \A u \in Tasks : u # f => ListedAsleep(g, c, u)
       /\ g.blocked = [k.blocked EXCEPT ![o] = Tail(k.blocked[o])]
       /\ g.ret = [k.ret EXCEPT ![f] = result]
  <2>1. PICK q \in Seq(Tasks) : q = Tail(k.blocked[o])
    BY <1>4
  <2>2. NoDuplicates(q) /\ \A u \in Tasks : Contains(q, u) <=> Contains(k.blocked[o], u) /\ u # f
    BY <1>4, <2>1
  <2>3. g = UnlinkedFrom(k, o, f, q, result) /\ Contains(k.blocked[o], f)
    BY <1>4, <1>11, <2>1
  <2>4. Unlinks(k, g, c, o, f, q, result)
    BY <2>1, <2>2, <2>3, UnlinkKept
  <2>. QED  BY <2>1, <2>4 DEF Unlinks
<1>13. \A p \in Objects : g.blocked[p] = IF p = o THEN Tail(k.blocked[o]) ELSE k.blocked[p]
  BY <1>3, <1>12
<1>17. Grants(g, x, f)
  BY <1>6, <1>12, <1>10, DispatchOrQueueInv DEF RunningStatus
<1>18. IsGranted(g, x, c, f)
  <2>1. /\ g.scheduled # None \/ g.status[g.running] \in LeftStatus \cup {"ACTIVE"}
        /\ f # g.running /\ g.status[f] \in {"IDLE", "WAIT"} /\ g.halted = {}
    BY <1>1, <1>5, <1>6, <1>12
  <2>2. ToBeGranted(g, c, f)
    BY <1>5, <1>12, <2>1 DEF ToBeGranted
  <2>. QED  BY <1>17, <2>2, GrantsKept
<1>19. FirstAndOneLeave(k, x, o)
  <2>. SUFFICES ASSUME NEW p \in Objects
                PROVE  LET q == IF p = o THEN Tail(k.blocked[o]) ELSE k.blocked[p]
                       IN  x.blocked[p] \in {q} \cup {RemoveAt(q, i) : i \in 1 .. Len(q)}
    BY DEF FirstAndOneLeave
  <2>1. x.blocked[p] \in {g.blocked[p]} \cup {RemoveAt(g.blocked[p], i) : i \in 1 .. Len(g.blocked[p])}
    BY <1>18 DEF IsGranted, OneLeaves
  <2>2. g.blocked[p] = IF p = o THEN Tail(k.blocked[o]) ELSE k.blocked[p]
    BY <1>13
  <2>. QED  BY <2>1, <2>2, Zenon
<1>20. SleepOn(k, x, Tasks \ {f})
  BY <1>12, <1>18 DEF IsGranted, SleepOn
<1>21. x.ret = [k.ret EXCEPT ![f] = result]
  BY <1>12, <1>18 DEF IsGranted
<1>. QED  BY <1>4, <1>5, <1>12, <1>18, <1>19, <1>20, <1>21 DEF IsGranted, IsGiven

\* A service that tells the first task in o's list success.
LEMMA GivesSuccess ==
    ASSUME NEW k \in Kernel, NEW o \in Objects, NEW f \in Tasks, IsFirst(k, o, f),
           NEW x, x = DispatchOrQueue([BlockedDequeue(k, o) EXCEPT !.ret[f].status = "SUCCESS"], f)
    PROVE  LET result == [k.ret[f] EXCEPT !.status = "SUCCESS"]
           IN  result \in Return /\ Gives(k, x, o, f, result)
<1>. DEFINE result == [k.ret[f] EXCEPT !.status = "SUCCESS"]
            d == BlockedDequeue(k, o)
<1>1. result \in Return
  <2>1. k.ret[f] \in Return
    BY DEF Kernel
  <2>2. \A r \in Return : [r EXCEPT !.status = "SUCCESS"] \in Return
    BY DEF Return, Codes
  <2>. QED  BY <2>1, <2>2
<1>2. d.ret = k.ret
  BY DEF BlockedDequeue, OsAssert, Kernel
<1>. HIDE DEF d
<1>3. [d EXCEPT !.ret[f].status = "SUCCESS"] = [d EXCEPT !.ret[f] = result]
  BY <1>2
<1>. QED  BY <1>1, <1>3 DEF Gives, d

\* A task that has been granted what it slept for is only moved to the
\* runqueue, whatever its priority.
LEMMA WakeKept ==
    ASSUME NEW g, NEW c \in Callers, NEW f \in Tasks, ToBeGranted(g, c, f),
           g.scheduled = None, g.status[f] = "WAIT", NEW h, h = StatusSet(g, f, "IDLE")
    PROVE  IsGranted(g, h, c, f) /\ h.blocked = g.blocked
<1>0. /\ Scheduling(g) /\ Awake(g) /\ g.halted = {} /\ IdleKept(g)
      /\ g.status[g.running] \in LeftStatus \cup {"ACTIVE"}
      /\ Flagging(g, c) /\ Listing(g, c) /\ Inside(g, c)
      /\ f # g.running /\ c[f] # None
      /\ \A u \in Tasks : u # f => ListedAsleep(g, c, u)
  BY DEF ToBeGranted
<1>1. g \in Kernel /\ f \in g.tasks \ {g.idle} /\ g.running \in Tasks /\ g.tasks \subseteq Tasks
  BY <1>0 DEF Scheduling, KernelInv, Kernel, Inside
<1>2. Changes(g, h, f, "IDLE")
  BY <1>0, StatusChange DEF RunningStatus, LeftStatus
<1>3. /\ h.scheduled = None /\ h.running = g.running /\ h.halted = {} /\ h.ret = g.ret
      /\ h.tasks = g.tasks /\ h.idle = g.idle /\ h.priority = g.priority /\ h.state = g.state
      /\ h.flags = g.flags /\ h.waits = g.waits /\ h.blocked = g.blocked /\ h.delay = g.delay
      /\ \A u \in Tasks : h.status[u] = IF u = f THEN "IDLE" ELSE g.status[u]
      /\ Scheduling(h)
  BY <1>0, <1>1, <1>2 DEF Changes, Frame, Kernel
<1>4. IdleKept(h)
  BY <1>0, <1>1, <1>3 DEF IdleKept
<1>5. Blocking(h, c)
  <2>1. Flagging(h, c)
    BY <1>0, <1>3 DEF Flagging
  <2>2. Listing(h, c)
    BY <1>0, <1>3 DEF Listing
  <2>3. Inside(h, c)
    BY <1>0, <1>3 DEF Inside, RunningStatus
  <2>4. \A u \in Tasks : ListedAsleep(h, c, u)
    BY <1>0, <1>3 DEF ListedAsleep
  <2>. QED  BY <2>1, <2>2, <2>3, <2>4 DEF Blocking
<1>6. Awake(h) /\ h.status[h.running] \in LeftStatus \cup {"ACTIVE"}
  BY <1>0, <1>1, <1>3 DEF Awake
<1>7. SleepOn(g, h, Tasks \ {f})
  BY <1>0, <1>3 DEF SleepOn
<1>8. OneLeaves(g, h)
  BY <1>3 DEF OneLeaves
<1>. QED  BY <1>3, <1>4, <1>5, <1>6, <1>7, <1>8 DEF IsGranted

\* What is left of a list when one may have left it.
LEMMA LeavingFacts ==
    ASSUME NEW q \in Seq(Tasks), NEW r, r \in {q} \cup {RemoveAt(q, i) : i \in 1 .. Len(q)},
           NEW t \in Tasks, Contains(r, t)
    PROVE  Contains(q, t)
<1>1. CASE r = q
  BY <1>1
<1>2. ASSUME NEW i \in 1 .. Len(q), r = RemoveAt(q, i) PROVE Contains(q, t)
  <2>1. PICK j \in 1 .. Len(r) : r[j] = t
    BY DEF Contains
  <2>2. /\ Len(q) \in Nat /\ Len(r) = Len(q) - 1
        /\ r[j] = IF j < i THEN q[j] ELSE q[j + 1]
    BY <1>2, <2>1, RemoveAtFacts, LenProperties
  <2>3. j \in 1 .. Len(q) /\ j + 1 \in 1 .. Len(q)
    BY <2>1, <2>2
  <2>. QED  BY <2>1, <2>2, <2>3 DEF Contains
<1>. QED  BY <1>1, <1>2

=============================================================================
